------------------------- MODULE BlockMiningProofs -------------------------
(***************************************************************************)
(* Theorems about BlockMining, for any number of miners and requests and   *)
(* any length of the chain: the types, that a block the full node waits    *)
(* for is never taken for an old one, that the miners of blocks are on     *)
(* the last template, and what is pushed of a height that was found.       *)
(***************************************************************************)
EXTENDS BlockMining, TLAPS

\* What the pushes under way and the chain have to do with each other: the
\* full node accepted, and its answer was taken, only of heights it passed.
PassedHeights ==
    /\ latest_submitted_block_height < chain
    /\ \A h \in Heights : accepted[h] > 0 => h < chain

\* Solutions under way of one height are bounded together.
PushRoom == \A h \in Heights : scheduled[h] + pushing[h] + accepted[h] <= MaxPushes

BlockInv == TypeOK /\ PushRoom /\ PassedHeights /\ MinersOnTemplate

\* TypeOK by the parts of the state that actions change together.
NodeTypes ==
    /\ chain \in Heights
    /\ answers \in [Requests -> {Idle, Asked, Failed} \cup Heights]
    /\ stale \in BOOLEAN
    /\ block_template \in Heights \cup {None}
    /\ tx_waiting \in BOOLEAN
MinerTypes ==
    /\ current_job \in [Miners -> Heights \cup {Tx, None}]
    /\ known \in [Miners -> SUBSET Heights]
PushTypes ==
    /\ scheduled \in [Heights -> 0..MaxPushes]
    /\ pushing \in [Heights -> 0..MaxPushes]
    /\ accepted \in [Heights -> 0..MaxPushes]
    /\ latest_submitted_block_height \in Heights \cup {-1}
    /\ found \in [Heights -> Nat]

LEMMA TypesByParts == /\ TypeOK <=> NodeTypes /\ MinerTypes /\ PushTypes
                      /\ TypeOK' <=> NodeTypes' /\ MinerTypes' /\ PushTypes'
  BY DEF TypeOK, NodeTypes, MinerTypes, PushTypes

\* Heights are integers, unlike what else a request, a template or a job is.
LEMMA HeightsAreInts == Heights \subseteq Int /\ Tx \notin Heights /\ None \notin Heights
  BY BlockAssumption DEF Heights

\* A miner that is served gets the transaction, or a block of the template,
\* or has what it had; the others have what they had.
Served(ms, waiting, template) ==
    /\ MinerTypes'
    /\ \A m \in Miners \ ms : current_job'[m] = current_job[m]
    /\ \A m \in ms : \/ waiting /\ current_job'[m] = Tx
                     \/ current_job'[m] = template
                     \/ template = None /\ current_job'[m] = current_job[m]

LEMMA ServedMiners ==
    ASSUME MinerTypes, NEW ms \in SUBSET Miners, NEW waiting,
           NEW template \in Heights \cup {None}, UpdateMinerJobs(ms, waiting, template)
    PROVE  Served(ms, waiting, template)
  <1> DEFINE job(m) == BestJob(waiting, template, current_job[m])
  <1>1. /\ current_job' = [m \in Miners |-> IF m \in ms THEN job(m) ELSE current_job[m]]
        /\ known' = [m \in Miners |-> IF m \in ms /\ job(m) \in Heights
                                      THEN known[m] \cup {job(m)} ELSE known[m]]
    BY DEF UpdateMinerJobs
  <1>2. \A m \in Miners : \/ waiting /\ job(m) = Tx
                          \/ template \in Heights /\ job(m) = template
                          \/ template = None /\ job(m) = current_job[m]
    BY DEF BestJob
  <1>3. \A m \in Miners : current_job[m] \in Heights \cup {Tx, None} /\ known[m] \in SUBSET Heights
    BY DEF MinerTypes
  <1> HIDE DEF job
  <1>4. current_job' \in [Miners -> Heights \cup {Tx, None}]
    BY <1>1, <1>2, <1>3
  <1>5. known' \in [Miners -> SUBSET Heights]
    BY <1>1, <1>3
  <1> QED BY <1>1, <1>2, <1>4, <1>5 DEF Served, MinerTypes

\* What serving miners leaves true, if those it leaves out are on no block or
\* the template stays.
LEMMA ServedOnTemplate ==
    ASSUME NodeTypes, MinerTypes, MinersOnTemplate,
           NEW ms \in SUBSET Miners, Served(ms, tx_waiting', block_template'),
           block_template' = block_template \/ OnBlock \subseteq ms,
           block_template' \in Heights \cup {None}
    PROVE  MinersOnTemplate'
  <1> SUFFICES ASSUME block_template' # None, NEW m \in Miners, current_job'[m] \in Heights
               PROVE  current_job'[m] = block_template'
    BY DEF MinersOnTemplate, OnBlock
  <1>1. CASE m \in ms
    BY <1>1, HeightsAreInts DEF Served
  <1>2. CASE m \notin ms
    <2>1. current_job'[m] = current_job[m]
      BY <1>2 DEF Served
    <2>2. m \in OnBlock
      BY <2>1 DEF OnBlock
    <2> QED BY <1>2, <2>1, <2>2 DEF MinersOnTemplate
  <1> QED BY <1>1, <1>2

\* The actions that serve miners.
LEMMA MinersStep ==
    ASSUME BlockInv,
           \/ \E m \in Miners : MinerReady(m) \/ RefreshJob(m) \/ MinerLost(m)
           \/ TxArrives \/ TxLeaves
           \/ \E r \in Requests : TemplateArrives(r)
    PROVE  BlockInv'
  <1>1. NodeTypes /\ MinerTypes /\ PushTypes /\ PushRoom /\ PassedHeights /\ MinersOnTemplate
    BY TypesByParts DEF BlockInv
  <1>2. UNCHANGED <<chain, pushVars>>
    BY DEF MinerReady, RefreshJob, MinerLost, TxArrives, TxLeaves, TemplateArrives, nodeVars
  <1>3. PushTypes' /\ PushRoom' /\ PassedHeights'
    BY <1>1, <1>2 DEF PushTypes, PushRoom, PassedHeights, pushVars
  <1>4. NodeTypes'
    BY <1>1 DEF NodeTypes, MinerReady, RefreshJob, MinerLost, TxArrives, TxLeaves,
       TemplateArrives, nodeVars, templateVars
  <1>5. ASSUME NEW m \in Miners, MinerLost(m)  PROVE MinerTypes' /\ MinersOnTemplate'
    <2>1. /\ current_job' = [current_job EXCEPT ![m] = None]
          /\ known' = [known EXCEPT ![m] = {}]
          /\ block_template' = block_template
      BY <1>5 DEF MinerLost, templateVars
    <2>2. MinerTypes'
      BY <1>1, <2>1 DEF MinerTypes
    <2>3. MinersOnTemplate'
      BY <1>1, <2>1, HeightsAreInts DEF MinerTypes, MinersOnTemplate, OnBlock
    <2> QED BY <2>2, <2>3
  <1>6. ASSUME ~ \E m \in Miners : MinerLost(m)
        PROVE  \E ms \in SUBSET Miners :
                 /\ UpdateMinerJobs(ms, tx_waiting', block_template')
                 /\ block_template' = block_template \/ OnBlock \subseteq ms
    <2>1. ASSUME NEW m \in Miners, MinerReady(m) \/ RefreshJob(m)
          PROVE  UpdateMinerJobs({m}, tx_waiting', block_template') /\ block_template' = block_template
      BY <2>1 DEF MinerReady, RefreshJob, templateVars
    <2>2. CASE TxArrives
      BY <2>2 DEF TxArrives, templateVars
    <2>3. CASE TxLeaves
      BY <2>3 DEF TxLeaves, templateVars
    <2>4. ASSUME NEW r \in Requests, TemplateArrives(r)
          PROVE  UpdateMinerJobs(OnBlock, tx_waiting', block_template')
      BY <2>4 DEF TemplateArrives
    <2>5. OnBlock \in SUBSET Miners
      BY DEF OnBlock
    <2> QED BY <1>6, <2>1, <2>2, <2>3, <2>4, <2>5
  <1>7. MinerTypes' /\ MinersOnTemplate'
    <2>1. CASE ~ \E m \in Miners : MinerLost(m)
      <3>1. PICK ms \in SUBSET Miners :
              /\ UpdateMinerJobs(ms, tx_waiting', block_template')
              /\ block_template' = block_template \/ OnBlock \subseteq ms
        BY <2>1, <1>6
      <3>2. block_template' \in Heights \cup {None}
        BY <1>4 DEF NodeTypes
      <3>3. Served(ms, tx_waiting', block_template')
        BY <1>1, <3>1, <3>2, ServedMiners
      <3> QED BY <1>1, <3>1, <3>2, <3>3, ServedOnTemplate DEF Served
    <2> QED BY <1>5, <2>1
  <1> QED BY <1>3, <1>4, <1>7, TypesByParts DEF BlockInv

\* The actions of the full node and of the template that serve nobody.
LEMMA NodeStep ==
    ASSUME BlockInv,
           \/ Ask \/ TimePasses \/ ChainGrows
           \/ \E r \in Requests : Answer(r) \/ TemplateFails(r)
    PROVE  BlockInv'
  <1>1. NodeTypes /\ MinerTypes /\ PushTypes /\ PushRoom /\ PassedHeights /\ MinersOnTemplate
    BY TypesByParts DEF BlockInv
  <1>2. UNCHANGED <<tx_waiting, minerVars, pushVars>>
    BY DEF Ask, TimePasses, ChainGrows, Answer, TemplateFails
  <1>3. chain' \in Heights /\ chain <= chain'
    BY <1>1, BlockAssumption DEF NodeTypes, Ask, TimePasses, ChainGrows, Answer, TemplateFails,
       nodeVars, Heights
  <1>4. block_template' \in {block_template, None} /\ stale' \in BOOLEAN
    BY <1>1 DEF NodeTypes, Ask, TimePasses, ChainGrows, Answer, TemplateFails, templateVars
  <1>5. answers' \in [Requests -> {Idle, Asked, Failed} \cup Heights]
    BY <1>1 DEF NodeTypes, Ask, TimePasses, ChainGrows, Answer, TemplateFails, nodeVars
  <1>6. NodeTypes'
    BY <1>1, <1>2, <1>3, <1>4, <1>5 DEF NodeTypes
  <1>7. MinerTypes' /\ PushTypes' /\ PushRoom'
    BY <1>1, <1>2 DEF MinerTypes, PushTypes, PushRoom, minerVars, pushVars
  <1>8. PassedHeights'
    BY <1>1, <1>2, <1>3, HeightsAreInts DEF NodeTypes, PushTypes, PassedHeights, pushVars, Heights
  <1>9. MinersOnTemplate'
    BY <1>1, <1>2, <1>4 DEF MinersOnTemplate, OnBlock, minerVars
  <1> QED BY <1>6, <1>7, <1>8, <1>9, TypesByParts DEF BlockInv

\* The actions on solutions of one height.
LEMMA SolutionStep ==
    ASSUME BlockInv, NEW h \in Heights,
           \/ \E m \in Miners : SubmitSolution(m, h)
           \/ RunSolution(h) \/ PushAccepted(h) \/ PushRefused(h) \/ PushEnds(h)
    PROVE  BlockInv'
  <1>1. NodeTypes /\ MinerTypes /\ PushTypes /\ PushRoom /\ PassedHeights /\ MinersOnTemplate
    BY TypesByParts DEF BlockInv
  <1>2. UNCHANGED <<templateVars, tx_waiting, minerVars>>
    BY DEF SubmitSolution, RunSolution, PushAccepted, PushRefused, PushEnds
  <1>3. MinerTypes' /\ MinersOnTemplate'
    BY <1>1, <1>2 DEF MinerTypes, MinersOnTemplate, OnBlock, templateVars, minerVars
  <1>4. chain' \in Heights /\ chain <= chain'
    BY <1>1, BlockAssumption DEF NodeTypes, SubmitSolution, RunSolution, PushAccepted,
       PushRefused, PushEnds, nodeVars, Heights
  <1>5. answers' \in [Requests -> {Idle, Asked, Failed} \cup Heights]
    BY <1>1 DEF NodeTypes, SubmitSolution, RunSolution, PushAccepted, PushRefused, PushEnds,
       nodeVars
  <1>6. NodeTypes'
    BY <1>1, <1>2, <1>4, <1>5 DEF NodeTypes, templateVars
  <1>7. /\ \A k \in Heights : /\ scheduled[k] \in Nat /\ pushing[k] \in Nat /\ accepted[k] \in Nat
                              /\ found[k] \in Nat
                              /\ scheduled[k] + pushing[k] + accepted[k] <= MaxPushes
        /\ MaxPushes \in Nat /\ h \in Int /\ chain \in Int
    BY <1>1, BlockAssumption, HeightsAreInts DEF PushTypes, PushRoom, NodeTypes
  <1>8. PushTypes' /\ PushRoom'
    <2>1. CASE \E m \in Miners : SubmitSolution(m, h)
      BY <1>1, <1>7, <2>1 DEF SubmitSolution, PushTypes, PushRoom
    <2>2. CASE RunSolution(h)
      BY <1>1, <1>7, <2>2 DEF RunSolution, PushTypes, PushRoom
    <2>3. CASE PushAccepted(h)
      BY <1>1, <1>7, <2>3 DEF PushAccepted, PushTypes, PushRoom
    <2>4. CASE PushRefused(h)
      BY <1>1, <1>7, <2>4 DEF PushRefused, PushTypes, PushRoom
    <2>5. CASE PushEnds(h)
      BY <1>1, <1>7, <2>5 DEF PushEnds, PushTypes, PushRoom
    <2> QED BY <2>1, <2>2, <2>3, <2>4, <2>5
  <1>9. PassedHeights'
    <2>1. CASE PushAccepted(h)
      <3>1. /\ h < chain'
            /\ accepted' = [accepted EXCEPT ![h] = @ + 1]
            /\ latest_submitted_block_height' = latest_submitted_block_height
        BY <1>4, <1>7, <2>1, HeightsAreInts DEF PushAccepted
      <3> QED BY <1>1, <1>4, <1>7, <3>1, HeightsAreInts DEF PassedHeights, PushTypes
    <2>2. CASE PushEnds(h)
      BY <1>1, <1>7, <2>2 DEF PushEnds, PassedHeights, PushTypes
    <2>3. CASE UNCHANGED <<chain, accepted, latest_submitted_block_height>>
      BY <1>1, <2>3 DEF PassedHeights
    <2> QED BY <2>1, <2>2, <2>3 DEF SubmitSolution, RunSolution, PushRefused, nodeVars
  <1> QED BY <1>3, <1>6, <1>8, <1>9, TypesByParts DEF BlockInv

LEMMA BlockInit == Init => BlockInv
  <1> SUFFICES ASSUME Init PROVE BlockInv
    OBVIOUS
  <1>1. NodeTypes
    <2>1. 0 \in Heights
      BY BlockAssumption DEF Heights
    <2>2. answers \in [Requests -> {Idle}]
      BY DEF Init
    <2> QED BY <2>1, <2>2 DEF Init, NodeTypes
  <1>2. MinerTypes
    BY DEF Init, MinerTypes
  <1>3. PushTypes /\ PushRoom
    BY BlockAssumption DEF Init, PushTypes, PushRoom, NoBlocks, Heights
  <1>4. PassedHeights /\ MinersOnTemplate
    BY DEF Init, PassedHeights, NoBlocks, MinersOnTemplate
  <1> QED BY <1>1, <1>2, <1>3, <1>4, TypesByParts DEF BlockInv

LEMMA BlockInvStep == BlockInv /\ [Next /\ MaxFound']_vars => BlockInv'
  <1> SUFFICES ASSUME BlockInv, [Next /\ MaxFound']_vars PROVE BlockInv'
    OBVIOUS
  <1>1. CASE UNCHANGED vars
    BY <1>1 DEF vars, nodeVars, templateVars, minerVars, pushVars, BlockInv, TypeOK, PushRoom,
       PassedHeights, MinersOnTemplate, OnBlock
  <1>2. CASE Next
    BY <1>2, MinersStep, NodeStep, SolutionStep DEF Next, MinerStep
  <1> QED BY <1>1, <1>2

\* The inductive invariant of the block side.
THEOREM BlockInvHolds == Spec => []BlockInv
  BY BlockInit, BlockInvStep, PTL DEF Spec

\* The state stays in its types, whatever the chain, the requests and miners.
THEOREM BlockTypesHold == Spec => []TypeOK
  <1>1. BlockInv => TypeOK
    BY DEF BlockInv
  <1> QED BY <1>1, BlockInvHolds, PTL

\* All miners of blocks are on the block of the last template, however many
\* miners there are and in whatever order answers and transactions come.
THEOREM MinersStayOnTemplate == Spec => []MinersOnTemplate
  <1>1. BlockInv => MinersOnTemplate
    BY DEF BlockInv
  <1> QED BY <1>1, BlockInvHolds, PTL

\* A solution of the block the full node waits for is always pushed: the
\* height taken from the answers of earlier pushes stays below the chain.
THEOREM UsefulBlocksArePushed == Spec => UsefulBlockIsPushed
  <1> DEFINE Pushed == scheduled'[chain] < scheduled[chain] => pushing'[chain] > pushing[chain]
  <1>1. BlockInv /\ [Next /\ MaxFound']_vars => [Pushed]_vars
    <2> SUFFICES ASSUME BlockInv, Next, scheduled'[chain] < scheduled[chain]
                 PROVE  pushing'[chain] > pushing[chain]
      OBVIOUS
    <2>1. chain \in Heights /\ latest_submitted_block_height < chain
      BY DEF BlockInv, TypeOK, PassedHeights
    <2>2. ASSUME NEW h \in Heights, RunSolution(h)  PROVE pushing'[chain] > pushing[chain]
      <3>1. /\ scheduled \in [Heights -> Nat] /\ pushing \in [Heights -> Nat]
            /\ latest_submitted_block_height \in Int /\ chain \in Int
        BY <2>1, BlockAssumption DEF BlockInv, TypeOK, Heights
      <3>2. /\ scheduled' = [scheduled EXCEPT ![h] = @ - 1]
            /\ ~(h <= latest_submitted_block_height)
                 => pushing' = [pushing EXCEPT ![h] = @ + 1]
        BY <2>2 DEF RunSolution
      <3>3. h = chain
        <4>1. h # chain => scheduled'[chain] = scheduled[chain]
          BY <2>1, <3>1, <3>2
        <4>2. scheduled[chain] \in Nat
          BY <2>1, <3>1
        <4> QED BY <4>1, <4>2
      <3>4. pushing' = [pushing EXCEPT ![chain] = @ + 1]
        BY <2>1, <3>1, <3>2, <3>3
      <3> QED BY <2>1, <3>1, <3>4
    <2>3. ASSUME NEW m \in Miners, NEW h \in Heights, SubmitSolution(m, h)  PROVE FALSE
      <3>1. scheduled \in [Heights -> Nat] /\ scheduled' = [scheduled EXCEPT ![h] = @ + 1]
        BY <2>3, BlockAssumption DEF SubmitSolution, BlockInv, TypeOK
      <3>2. scheduled'[chain] >= scheduled[chain]
        BY <2>1, <3>1
      <3>3. scheduled[chain] \in Nat /\ scheduled'[chain] \in Nat
        BY <2>1, <3>1
      <3> QED BY <3>2, <3>3
    <2>4. ASSUME scheduled' = scheduled  PROVE FALSE
      BY <2>1, <2>4, BlockAssumption DEF BlockInv, TypeOK, Heights
    <2>5. \/ scheduled' = scheduled
          \/ \E h \in Heights : RunSolution(h) \/ \E m \in Miners : SubmitSolution(m, h)
      BY DEF Next, MinerStep, MinerReady, RefreshJob, MinerLost, TxArrives, TxLeaves, Ask,
         TimePasses, ChainGrows, Answer, TemplateArrives, TemplateFails, PushAccepted,
         PushRefused, PushEnds, pushVars
    <2> QED BY <2>2, <2>3, <2>4, <2>5
  <1> QED BY <1>1, BlockInvHolds, PTL DEF Spec, UsefulBlockIsPushed
-----------------------------------------------------------------------------
(* Heights that were found.                                                *)

\* Blocks were only found of heights the chain has passed.
FoundArePassed == \A h \in Heights : found[h] > 0 => h < chain

\* A block of a height that was found before is pushed only when the answers
\* of the pushes made the submitted height go back, and then the full node has
\* that height already: what holds in place of "accepted but not propagated".
OnlyPassedHeightsArePushedAgain ==
    [][\A h \in Heights : pushing'[h] > pushing[h] /\ found[h] > 0 =>
          latest_submitted_block_height < h /\ h < chain]_vars

\* The chain only grows, and a height is found when its push was accepted.
LEMMA FoundStep ==
    ASSUME BlockInv, FoundArePassed, [Next /\ MaxFound']_vars
    PROVE  FoundArePassed'
  <1> SUFFICES ASSUME NEW h \in Heights, found'[h] > 0 PROVE h < chain'
    BY DEF FoundArePassed
  <1>1. /\ chain \in Heights /\ chain \in Int /\ h \in Int /\ found \in [Heights -> Nat]
        /\ \A k \in Heights : accepted[k] > 0 => k < chain
    BY HeightsAreInts DEF BlockInv, TypeOK, PassedHeights
  <1>2. chain' = chain \/ chain' = chain + 1
    BY DEF Next, MinerStep, MinerReady, RefreshJob, MinerLost, SubmitSolution, TxArrives, TxLeaves,
       Ask, TimePasses, ChainGrows, Answer, TemplateArrives, TemplateFails, RunSolution,
       PushAccepted, PushRefused, PushEnds, vars, nodeVars
  <1>3. h < chain => h < chain'
    BY <1>1, <1>2
  <1>4. \/ found' = found
        \/ \E k \in Heights : accepted[k] > 0 /\ found' = [found EXCEPT ![k] = @ + 1]
    BY DEF Next, MinerStep, MinerReady, RefreshJob, MinerLost, SubmitSolution, TxArrives, TxLeaves,
       Ask, TimePasses, ChainGrows, Answer, TemplateArrives, TemplateFails, RunSolution,
       PushAccepted, PushRefused, PushEnds, vars, pushVars
  <1>5. CASE found' = found
    BY <1>3, <1>5 DEF FoundArePassed
  <1>6. ASSUME NEW k \in Heights, accepted[k] > 0, found' = [found EXCEPT ![k] = @ + 1]
        PROVE  h < chain
    <2>1. CASE h = k
      BY <1>1, <1>6, <2>1
    <2>2. CASE h # k
      <3>1. found'[h] = found[h]
        BY <1>1, <1>6, <2>2
      <3> QED BY <3>1 DEF FoundArePassed
    <2> QED BY <2>1, <2>2
  <1> QED BY <1>3, <1>4, <1>5, <1>6

\* A height that was found is pushed again only when the full node has it.
THEOREM FoundHeightsArePassed == Spec => OnlyPassedHeightsArePushedAgain
  <1>1. Init => FoundArePassed
    BY DEF Init, NoBlocks, FoundArePassed
  <1>2. BlockInv /\ FoundArePassed /\ [Next /\ MaxFound']_vars => FoundArePassed'
    BY FoundStep
  <1>3. BlockInv /\ FoundArePassed /\ [Next /\ MaxFound']_vars =>
          \A h \in Heights : pushing'[h] > pushing[h] /\ found[h] > 0 =>
             latest_submitted_block_height < h /\ h < chain
    <2> SUFFICES ASSUME BlockInv, FoundArePassed, [Next /\ MaxFound']_vars,
                        NEW h \in Heights, pushing'[h] > pushing[h], found[h] > 0
                 PROVE  latest_submitted_block_height < h /\ h < chain
      OBVIOUS
    <2>1. /\ pushing \in [Heights -> Nat] /\ pushing[h] \in Nat /\ h \in Int
          /\ latest_submitted_block_height \in Int
      BY BlockAssumption, HeightsAreInts DEF BlockInv, TypeOK
    <2>2. \/ pushing' = pushing
          \/ \E k \in Heights : /\ ~(k <= latest_submitted_block_height)
                                /\ pushing' = [pushing EXCEPT ![k] = @ + 1]
          \/ \E k \in Heights : pushing' = [pushing EXCEPT ![k] = @ - 1]
      BY DEF Next, MinerStep, MinerReady, RefreshJob, MinerLost, SubmitSolution, TxArrives,
         TxLeaves, Ask, TimePasses, ChainGrows, Answer, TemplateArrives, TemplateFails,
         RunSolution, PushAccepted, PushRefused, PushEnds, vars, pushVars
    <2>3. ~(h <= latest_submitted_block_height)
      <3>1. CASE pushing' = pushing
        BY <2>1, <3>1
      <3>2. ASSUME NEW k \in Heights, ~(k <= latest_submitted_block_height),
                   pushing' = [pushing EXCEPT ![k] = @ + 1]
            PROVE  ~(h <= latest_submitted_block_height)
        <4>1. CASE h = k
          BY <3>2, <4>1
        <4>2. CASE h # k
          <5>1. pushing'[h] = pushing[h]
            BY <2>1, <3>2, <4>2
          <5> QED BY <2>1, <5>1
        <4> QED BY <4>1, <4>2
      <3>3. ASSUME NEW k \in Heights, pushing' = [pushing EXCEPT ![k] = @ - 1]
            PROVE  FALSE
        <4>1. pushing'[h] = pushing[h] \/ pushing'[h] = pushing[h] - 1
          BY <2>1, <3>3
        <4> QED BY <2>1, <4>1
      <3> QED BY <2>2, <3>1, <3>2, <3>3
    <2> QED BY <2>1, <2>3 DEF FoundArePassed
  <1> QED BY <1>1, <1>2, <1>3, BlockInvHolds, PTL DEF Spec, OnlyPassedHeightsArePushedAgain
=============================================================================
