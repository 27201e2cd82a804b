----------------------------- MODULE BlockMining -----------------------------
(***************************************************************************)
(* The block side of txstratum/manager.py: block templates come from the   *)
(* full node by a periodic poll and by one more request after each block   *)
(* that was found, several may be under way at a time, and the blocks that *)
(* miners solve are pushed to the full node.                               *)
(*                                                                         *)
(* A template, and a block made from it, is its height.  The full node     *)
(* waits for a block of height `chain'; it never goes back to a lower one. *)
(***************************************************************************)
EXTENDS Integers, Functions, FiniteSets

CONSTANTS Miners,
          MaxHeight,   \* bound: the last height of the chain
          Requests,    \* requests for a template that may be under way
          Poll,        \* the one of Requests that the periodic task makes
          MaxPushes,   \* bound: solutions of one height under way
          Idle, Asked, Failed,  \* states of a request
          Tx, None

ASSUME BlockAssumption ==
    /\ MaxHeight \in Nat /\ MaxPushes \in Nat
    /\ Poll \in Requests
    /\ Tx \notin Int /\ None \notin Int /\ Tx # None
    /\ {Idle, Asked, Failed} \cap Int = {}
    /\ Idle # Asked /\ Idle # Failed /\ Asked # Failed

Heights == 0..MaxHeight

VARIABLES
    chain,            \* the full node: the height it waits for
    answers,          \* requests: Idle, Asked, Failed or the height answered
    stale,            \* is the last template more than a minute old?
    block_template,   \* the height of the template, or None
    tx_waiting,       \* is a transaction queued?
    current_job,      \* what each ready miner works on: a height, Tx or None
    known,            \* heights of the blocks each miner was given
    scheduled,        \* _submit_block_solution not started, of each height
    pushing,          \* pushes the full node has not looked at yet
    accepted,         \* pushes it accepted whose answer is on its way
    latest_submitted_block_height,
    found             \* blocks_found, of each height

nodeVars == <<chain, answers>>
templateVars == <<stale, block_template>>
minerVars == <<current_job, known>>
pushVars == <<scheduled, pushing, accepted, latest_submitted_block_height, found>>
vars == <<nodeVars, templateVars, tx_waiting, minerVars, pushVars>>

NoBlocks == [h \in Heights |-> 0]
OnBlock == {m \in Miners : current_job[m] \in Heights}
MinersWithJob == {m \in Miners : current_job[m] # None}

Init ==
    /\ chain = 0
    /\ answers = [r \in Requests |-> Idle]
    /\ stale = TRUE
    /\ block_template = None
    /\ tx_waiting = FALSE
    /\ current_job = [m \in Miners |-> None]
    /\ known = [m \in Miners |-> {}]
    /\ scheduled = NoBlocks
    /\ pushing = NoBlocks
    /\ accepted = NoBlocks
    /\ latest_submitted_block_height = -1
    /\ found = NoBlocks
-----------------------------------------------------------------------------
\* get_best_job: a transaction first, else a block of the template, else
\* nothing and the miner keeps what it has.
BestJob(waiting, template, current) ==
    IF waiting THEN Tx ELSE IF template # None THEN template ELSE current

\* update_miner_job for the miners ms.
UpdateMinerJobs(ms, waiting, template) ==
    LET job(m) == BestJob(waiting, template, current_job[m]) IN
    /\ current_job' = [m \in Miners |-> IF m \in ms THEN job(m) ELSE current_job[m]]
    /\ known' = [m \in Miners |-> IF m \in ms /\ job(m) \in Heights
                                  THEN known[m] \cup {job(m)} ELSE known[m]]

\* A miner subscribes; its refresh task; its connection is lost.
MinerReady(m) ==
    /\ current_job[m] = None
    /\ UpdateMinerJobs({m}, tx_waiting, block_template)
    /\ UNCHANGED <<nodeVars, templateVars, tx_waiting, pushVars>>

RefreshJob(m) ==
    /\ current_job[m] # None
    /\ UpdateMinerJobs({m}, tx_waiting, block_template)
    /\ UNCHANGED <<nodeVars, templateVars, tx_waiting, pushVars>>

MinerLost(m) ==
    /\ current_job[m] # None
    /\ current_job' = [current_job EXCEPT ![m] = None]
    /\ known' = [known EXCEPT ![m] = {}]
    /\ UNCHANGED <<nodeVars, templateVars, tx_waiting, pushVars>>

\* A transaction comes to the empty queue: every ready miner gets it, those
\* that have no job yet too.  Or the last one leaves it: its miners go on.
TxArrives ==
    /\ ~tx_waiting
    /\ tx_waiting' = TRUE
    /\ \E ms \in SUBSET Miners : /\ MinersWithJob \subseteq ms
                                 /\ UpdateMinerJobs(ms, TRUE, block_template)
    /\ UNCHANGED <<nodeVars, templateVars, pushVars>>

TxLeaves ==
    /\ tx_waiting
    /\ tx_waiting' = FALSE
    /\ UpdateMinerJobs({m \in Miners : current_job[m] = Tx}, FALSE, block_template)
    /\ UNCHANGED <<nodeVars, templateVars, pushVars>>
-----------------------------------------------------------------------------
(* The block template.                                                     *)

\* The periodic task starts update_block_template.
Ask ==
    /\ answers[Poll] = Idle
    /\ answers' = [answers EXCEPT ![Poll] = Asked]
    /\ UNCHANGED <<chain, templateVars, tx_waiting, minerVars, pushVars>>

\* The full node answers, with what it waits for at this moment, or fails.
Answer(r) ==
    /\ answers[r] = Asked
    /\ \E a \in {chain, Failed} : answers' = [answers EXCEPT ![r] = a]
    /\ UNCHANGED <<chain, templateVars, tx_waiting, minerVars, pushVars>>

\* Mutant of TemplateArrives: the miners are told before it is replaced.
TemplateArrivesLast(r) ==
    /\ answers[r] \in Heights
    /\ answers' = [answers EXCEPT ![r] = Idle]
    /\ block_template' = answers[r]
    /\ stale' = FALSE
    /\ UpdateMinerJobs(OnBlock, tx_waiting, block_template)
    /\ UNCHANGED <<chain, tx_waiting, pushVars>>

\* Mutant of TemplateArrives: a later template does not replace the first.
TemplateArrivesOnce(r) ==
    /\ answers[r] \in Heights
    /\ answers' = [answers EXCEPT ![r] = Idle]
    /\ block_template' = IF block_template = None THEN answers[r] ELSE block_template
    /\ stale' = FALSE
    /\ UpdateMinerJobs(OnBlock, tx_waiting, block_template')
    /\ UNCHANGED <<chain, tx_waiting, pushVars>>

\* The answer arrives, in any order: it is the template from now on, and the
\* miners of blocks get a new job.
TemplateArrives(r) ==
    /\ answers[r] \in Heights
    /\ answers' = [answers EXCEPT ![r] = Idle]
    /\ block_template' = answers[r]
    /\ stale' = FALSE
    /\ UpdateMinerJobs(OnBlock, tx_waiting, answers[r])
    /\ UNCHANGED <<chain, tx_waiting, pushVars>>

\* The request fails: a template older than a minute is given up.
TemplateFails(r) ==
    /\ answers[r] = Failed
    /\ answers' = [answers EXCEPT ![r] = Idle]
    /\ block_template' = IF stale THEN None ELSE block_template
    /\ UNCHANGED <<chain, stale, tx_waiting, minerVars, pushVars>>

\* A minute without a template passes.
TimePasses ==
    /\ stale' = TRUE
    /\ UNCHANGED <<nodeVars, block_template, tx_waiting, minerVars, pushVars>>

\* Somebody else's block.
ChainGrows ==
    /\ chain < MaxHeight
    /\ chain' = chain + 1
    /\ UNCHANGED <<answers, templateVars, tx_waiting, minerVars, pushVars>>
-----------------------------------------------------------------------------
(* Solutions.                                                              *)

\* A miner answers a block it was given, maybe an old one.
SubmitSolution(m, h) ==
    /\ h \in known[m]
    /\ scheduled[h] + pushing[h] + accepted[h] < MaxPushes
    /\ scheduled' = [scheduled EXCEPT ![h] = @ + 1]
    /\ UNCHANGED <<nodeVars, templateVars, tx_waiting, minerVars, pushing, accepted,
                   latest_submitted_block_height, found>>

\* _submit_block_solution: ignored when a block of its height was submitted,
\* else pushed.
RunSolution(h) ==
    /\ scheduled[h] > 0
    /\ scheduled' = [scheduled EXCEPT ![h] = @ - 1]
    /\ pushing' = IF h <= latest_submitted_block_height THEN pushing
                  ELSE [pushing EXCEPT ![h] = @ + 1]
    /\ UNCHANGED <<nodeVars, templateVars, tx_waiting, minerVars, accepted,
                   latest_submitted_block_height, found>>

\* The full node takes the block it waits for; it may take one of a height it
\* has already, and refuses every other (PushTxFailed, or another exception,
\* which changes nothing either).
PushAccepted(h) ==
    /\ pushing[h] > 0 /\ h <= chain
    /\ h = chain => chain < MaxHeight
    /\ chain' = IF h = chain THEN chain + 1 ELSE chain
    /\ pushing' = [pushing EXCEPT ![h] = @ - 1]
    /\ accepted' = [accepted EXCEPT ![h] = @ + 1]
    /\ UNCHANGED <<answers, templateVars, tx_waiting, minerVars, scheduled,
                   latest_submitted_block_height, found>>

PushRefused(h) ==
    /\ pushing[h] > 0
    /\ pushing' = [pushing EXCEPT ![h] = @ - 1]
    /\ UNCHANGED <<nodeVars, templateVars, tx_waiting, minerVars, scheduled, accepted,
                   latest_submitted_block_height, found>>

\* Mutant of PushEnds: the height that comes next is noted.
PushEndsAhead(h) ==
    /\ accepted[h] > 0
    /\ accepted' = [accepted EXCEPT ![h] = @ - 1]
    /\ latest_submitted_block_height' = h + 1
    /\ found' = [found EXCEPT ![h] = @ + 1]
    /\ \E r \in Requests \ {Poll} :
         answers[r] = Idle /\ answers' = [answers EXCEPT ![r] = Asked]
    /\ UNCHANGED <<chain, templateVars, tx_waiting, minerVars, scheduled, pushing>>

\* _push_block_job, after its await: the answer of the full node arrives, in
\* any order, and another request for a template is made.
PushEnds(h) ==
    /\ accepted[h] > 0
    /\ accepted' = [accepted EXCEPT ![h] = @ - 1]
    /\ latest_submitted_block_height' = h
    /\ found' = [found EXCEPT ![h] = @ + 1]
    /\ \E r \in Requests \ {Poll} :
         answers[r] = Idle /\ answers' = [answers EXCEPT ![r] = Asked]
    /\ UNCHANGED <<chain, templateVars, tx_waiting, minerVars, scheduled, pushing>>

MaxFound == \A h \in Heights : found[h] <= MaxPushes

MinerStep(m) ==
    \/ MinerReady(m) \/ RefreshJob(m) \/ MinerLost(m)
    \/ \E h \in Heights : SubmitSolution(m, h)

Next ==
    \/ \E m \in Miners : MinerStep(m)
    \/ TxArrives \/ TxLeaves
    \/ Ask \/ TimePasses \/ ChainGrows
    \/ \E r \in Requests : Answer(r) \/ TemplateArrives(r) \/ TemplateFails(r)
    \/ \E h \in Heights : \/ RunSolution(h) \/ PushAccepted(h) \/ PushRefused(h)
                          \/ PushEnds(h)

Spec == Init /\ [][Next /\ MaxFound']_vars

\* The poll goes on, the full node answers every request, and does not only
\* fail when it is polled; answers arrive.
Fairness ==
    /\ WF_vars(Ask)
    /\ SF_vars(answers[Poll] = Asked /\ Answer(Poll) /\ answers'[Poll] \in Heights)
    /\ \A r \in Requests : /\ WF_vars(Answer(r))
                           /\ WF_vars(TemplateArrives(r))
                           /\ WF_vars(TemplateFails(r))

FairSpec == Spec /\ Fairness
-----------------------------------------------------------------------------
(* Properties.                                                             *)

\* The state space.
TypeOK ==
    /\ chain \in Heights
    /\ answers \in [Requests -> {Idle, Asked, Failed} \cup Heights]
    /\ stale \in BOOLEAN
    /\ block_template \in Heights \cup {None}
    /\ tx_waiting \in BOOLEAN
    /\ current_job \in [Miners -> Heights \cup {Tx, None}]
    /\ known \in [Miners -> SUBSET Heights]
    /\ scheduled \in [Heights -> 0..MaxPushes]
    /\ pushing \in [Heights -> 0..MaxPushes]
    /\ accepted \in [Heights -> 0..MaxPushes]
    /\ latest_submitted_block_height \in Heights \cup {-1}
    /\ found \in [Heights -> Nat]

\* The block the full node waits for is never ignored as submitted before,
\* although the answers of pushes arrive late and in any order.
UsefulBlockIsPushed ==
    [][scheduled'[chain] < scheduled[chain] => pushing'[chain] > pushing[chain]]_vars

\* Whatever was queued, answered or lost meanwhile, all the miners of blocks
\* are on one block, that of the last template (until it is given up).
MinersOnTemplate ==
    block_template # None => \A m \in OnBlock : current_job[m] = block_template

\* When the chain rests, every miner that stays on blocks is moved to the
\* block the full node waits for, although older templates may still arrive.
MinersCatchUp ==
    \A h \in Heights : <>[](chain = h)
      => <>[](\A m \in Miners : current_job[m] \in Heights => current_job[m] = h)
=============================================================================
