----------------------- MODULE TxMiningManagerProofs -----------------------
(***************************************************************************)
(* Proofs about TxMiningManager for any number of jobs, transactions and   *)
(* miners, any bound on solutions in flight and any order of the timers;   *)
(* at the end, about RunService, which runs it.                            *)
(*                                                                         *)
(* The inductive invariant IInv has a part about each job alone (JobInv)   *)
(* and a part about the queue and the fleet (QueueShape).  An action is    *)
(* about one job at most, so its proof shows that every other job is Kept, *)
(* which preserves JobInv once and for all, and then looks at its own job. *)
(* Later, Life lists what a step may do to the job it is about.            *)
(***************************************************************************)
EXTENDS RunService, JobHistory, WellFoundedInduction, TLAPS
-----------------------------------------------------------------------------
(* deque.remove.                                                           *)

\* The first occurrence of a member exists: FirstIndex is one of its places.
LEMMA FirstIndexIsAPlace ==
    ASSUME NEW S, NEW q \in Seq(S), NEW x \in Range(q)
    PROVE  /\ FirstIndex(q, x) \in 1..Len(q)
           /\ q[FirstIndex(q, x)] = x
  <1> DEFINE places == {n \in 1..Len(q) : q[n] = x}
             less == OpToRel(<, Nat)
  <1>1. places # {} /\ places \subseteq Nat
    BY DEF Range
  <1>2. PICK i \in places : \A k \in places : <<k, i>> \notin less
    BY <1>1, WFMin, NatLessThanWellFounded, Zenon
  <1>3. \A k \in 1..(i - 1) : q[k] # x
    <2>1. SUFFICES ASSUME NEW k \in 1..(i - 1), q[k] = x PROVE FALSE
      OBVIOUS
    <2>2. k \in places /\ k < i /\ k \in Nat /\ i \in Nat
      BY <2>1
    <2> QED BY <1>2, <2>2 DEF OpToRel
  <1> QED BY <1>3 DEF FirstIndex

\* Element by element: what is left of q keeps its order.
LEMMA WithoutElements ==
    ASSUME NEW S, NEW q \in Seq(S), NEW x \in Range(q)
    PROVE  /\ Without(q, x) \in Seq(S)
           /\ Len(q) > 0 /\ Len(Without(q, x)) = Len(q) - 1
           /\ \A k \in 1..(Len(q) - 1) :
                 Without(q, x)[k] = IF k < FirstIndex(q, x) THEN q[k] ELSE q[k + 1]
  <1> DEFINE i == FirstIndex(q, x)
             w == [k \in 1..(Len(q) - 1) |-> IF k < i THEN q[k] ELSE q[k + 1]]
  <1>1. i \in 1..Len(q)
    BY FirstIndexIsAPlace
  <1>2. Without(q, x) = w
    BY DEF Without
  <1> HIDE DEF i
  <1>3. Len(q) \in Nat /\ Len(q) > 0
    BY <1>1
  <1>4. \A k \in 1..(Len(q) - 1) : w[k] \in S
    BY <1>3
  <1>5. w \in Seq(S) /\ Len(w) = Len(q) - 1
    BY <1>3, <1>4
  <1> QED BY <1>2, <1>3, <1>5 DEF i

\* Removal from a sequence without repetition: it stays without repetition,
\* loses x and nothing else, keeps its head unless x was the head, and
\* whatever stands behind the head stood behind the head before.
LEMMA WithoutProperties ==
    ASSUME NEW S, NEW q \in Seq(S), NEW x, IsInjective(q)
    PROVE  /\ Without(q, x) \in Seq(S)
           /\ IsInjective(Without(q, x))
           /\ Range(Without(q, x)) = Range(q) \ {x}
           /\ q # <<>> /\ Head(q) # x =>
                 Without(q, x) # <<>> /\ Head(Without(q, x)) = Head(q)
           /\ \A k \in 2..Len(Without(q, x)) :
                 \E n \in 2..Len(q) : Without(q, x)[k] = q[n]
  <1>1. CASE x \notin Range(q)
    <2>1. Without(q, x) = q
      BY <1>1 DEF Without
    <2>2. Range(q) = Range(q) \ {x}
      BY <1>1
    <2> QED BY <2>1, <2>2
  <1>2. CASE x \in Range(q)
    <2> DEFINE i == FirstIndex(q, x)
               w == Without(q, x)
    <2>1. i \in 1..Len(q) /\ q[i] = x
      BY <1>2, FirstIndexIsAPlace
    <2>2. /\ w \in Seq(S) /\ Len(q) > 0 /\ Len(w) = Len(q) - 1
          /\ \A k \in 1..(Len(q) - 1) : w[k] = IF k < i THEN q[k] ELSE q[k + 1]
      BY <1>2, WithoutElements
    <2> HIDE DEF i, w
    <2>3. DOMAIN w = 1..(Len(q) - 1) /\ DOMAIN q = 1..Len(q) /\ Len(q) \in Nat
      BY <2>2
    <2>4. \A a, b \in 1..Len(q) : q[a] = q[b] => a = b
      BY <2>3 DEF IsInjective
    <2>5. IsInjective(w)
      <3>1. SUFFICES ASSUME NEW a \in 1..(Len(q) - 1), NEW b \in 1..(Len(q) - 1),
                            w[a] = w[b]
                     PROVE  a = b
        BY <2>3 DEF IsInjective
      <3> QED BY <2>1, <2>2, <2>3, <2>4, <3>1
    <2>6. Range(w) \subseteq Range(q) \ {x}
      <3>1. SUFFICES ASSUME NEW k \in 1..(Len(q) - 1)
                     PROVE  w[k] \in Range(q) /\ w[k] # x
        BY <2>3 DEF Range
      <3>2. \E n \in 1..Len(q) : n # i /\ w[k] = q[n]
        BY <2>1, <2>2, <2>3, <3>1
      <3> QED BY <2>1, <2>3, <2>4, <3>2 DEF Range
    <2>7. Range(q) \ {x} \subseteq Range(w)
      <3>1. SUFFICES ASSUME NEW n \in 1..Len(q), q[n] # x
                     PROVE  \E k \in 1..(Len(q) - 1) : w[k] = q[n]
        BY <2>3 DEF Range
      <3>2. CASE n < i
        BY <2>1, <2>2, <2>3, <3>1, <3>2
      <3>3. CASE n > i
        <4>1. n - 1 \in 1..(Len(q) - 1) /\ ~(n - 1 < i) /\ (n - 1) + 1 = n
          BY <2>1, <2>3, <3>1, <3>3
        <4> QED BY <2>2, <4>1
      <3> QED BY <2>1, <2>3, <3>1, <3>2, <3>3
    <2>8. ASSUME q # <<>>, Head(q) # x
          PROVE  w # <<>> /\ Head(w) = Head(q)
      <3>1. i # 1 /\ q[1] = Head(q)
        BY <2>1, <2>3, <2>8
      <3>2. Len(q) > 1
        BY <2>1, <2>3, <3>1
      <3>3. w[1] = q[1] /\ Len(w) > 0
        BY <2>1, <2>2, <2>3, <3>1, <3>2
      <3> QED BY <2>2, <3>1, <3>3
    <2>9. \A k \in 2..Len(w) : \E n \in 2..Len(q) : w[k] = q[n]
      BY <2>1, <2>2, <2>3
    <2> QED BY <2>2, <2>5, <2>6, <2>7, <2>8, <2>9 DEF w
  <1> QED BY <1>1, <1>2

\* Appending a newcomer: the new range, no repetition, and the old head.
LEMMA AppendNewcomer ==
    ASSUME NEW S, NEW q \in Seq(S), NEW x \in S
    PROVE  /\ Append(q, x) \in Seq(S)
           /\ Append(q, x) # <<>>
           /\ Len(Append(q, x)) = Len(q) + 1
           /\ Append(q, x)[Len(q) + 1] = x
           /\ \A k \in 1..Len(q) : Append(q, x)[k] = q[k]
           /\ Range(Append(q, x)) = Range(q) \cup {x}
           /\ IsInjective(q) /\ x \notin Range(q) => IsInjective(Append(q, x))
           /\ Head(Append(q, x)) = IF q = <<>> THEN x ELSE Head(q)
  <1> DEFINE a == Append(q, x)
  <1>1. /\ a \in Seq(S) /\ a # <<>> /\ Len(a) = Len(q) + 1 /\ Len(q) \in Nat
        /\ a[Len(q) + 1] = x /\ \A k \in 1..Len(q) : a[k] = q[k]
    OBVIOUS
  <1> HIDE DEF a
  <1>2. DOMAIN a = 1..(Len(q) + 1) /\ DOMAIN q = 1..Len(q)
    BY <1>1
  <1>3. Range(a) = Range(q) \cup {x}
    BY <1>1, <1>2 DEF Range
  <1>4. ASSUME IsInjective(q), x \notin Range(q)
        PROVE  IsInjective(a)
    BY <1>1, <1>2, <1>4 DEF IsInjective, Range
  <1>5. Head(a) = a[1] /\ (q # <<>> => Head(q) = q[1] /\ Len(q) > 0)
    BY <1>1
  <1>6. Head(a) = IF q = <<>> THEN x ELSE Head(q)
    BY <1>1, <1>5
  <1> QED BY <1>1, <1>3, <1>4, <1>6 DEF a

\* The head is in the range, and so is every element.
LEMMA HeadInRange ==
    ASSUME NEW S, NEW q \in Seq(S)
    PROVE  /\ Range(q) \subseteq S
           /\ q # <<>> => Head(q) \in Range(q) /\ Head(q) = q[1] /\ 1 \in 1..Len(q)
           /\ \A k \in 1..Len(q) : q[k] \in Range(q)
  BY DEF Range
-----------------------------------------------------------------------------
(* The invariant.                                                          *)

\* Nothing is under way for the job, and it has counted nowhere.
Untouched(j) ==
    /\ scheduled[j] = 0 /\ pushing[j] = 0
    /\ \A m \in Miners : j \notin miner_jobs[m]
    /\ j \notin timeout_timer /\ j \notin cleanup_timer
    /\ solved[j] = 0 /\ failed[j] = 0 /\ timed_out[j] = 0

\* Before it is enqueued, nothing but its parents concerns a job.
FreshInv(j) ==
    /\ status[j] = "UNUSED" \/ parents[j] # "none" => ~Queued(j) /\ Untouched(j)
    /\ parents[j] # "none" => status[j] \in {"PENDING", "GETTING_PARENTS", "CANCELLED"}
    /\ status[j] = "UNUSED" => parents[j] = "none"

\* A queued job is alive and has its timeout armed; one that is being pushed
\* or waits for its clean-up is not queued.
QueuedInv(j) ==
    /\ Queued(j) => status[j] \in {"ENQUEUED", "MINING"} /\ j \in timeout_timer
    /\ pushing[j] > 0 \/ j \in cleanup_timer => ~Queued(j)

\* A job counted as failed or timed out has ended for good, and it is DONE
\* exactly when it is counted as solved.
CountInv(j) ==
    /\ failed[j] + timed_out[j] <= 1
    /\ failed[j] + timed_out[j] > 0 => Finished(j)
    /\ status[j] = "DONE" <=> solved[j] > 0

\* A job is only registered under its own hash, and while it is, some
\* coroutine or timer will unregister it.
RegistryInv(j) ==
    /\ \A t \in Txs : tx_jobs[t] = j => t = Uuid[j]
    /\ Registered(j) =>
         /\ status[j] # "UNUSED"
         /\ Finished(j) \/ pushing[j] > 0 => j \in cleanup_timer
         /\ parents[j] # "none" \/ j \in timeout_timer \cup cleanup_timer

JobInv(j) == FreshInv(j) /\ QueuedInv(j) /\ CountInv(j) /\ RegistryInv(j)

QueueShape == IsInjective(tx_queue) /\ OnlyHeadIsMining /\ MinersOnHead

IInv == TypeOK /\ (\A j \in Jobs : JobInv(j)) /\ QueueShape

\* A step that is not about job j: it may make a queued job be mined, hand a
\* queued job to a miner, or drop the timers and the registration of a job
\* that has finished.
Kept(j) ==
    /\ status'[j] = status[j] \/ (Queued(j) /\ status'[j] = "MINING")
    /\ Queued(j)' <=> Queued(j)
    /\ parents'[j] = parents[j] /\ scheduled'[j] = scheduled[j] /\ pushing'[j] = pushing[j]
    /\ solved'[j] = solved[j] /\ failed'[j] = failed[j] /\ timed_out'[j] = timed_out[j]
    /\ \A m \in Miners : j \in miner_jobs'[m] => j \in miner_jobs[m] \/ Queued(j)
    /\ \A t \in Txs : tx_jobs'[t] = j => tx_jobs[t] = j
    /\ \/ (j \in timeout_timer' <=> j \in timeout_timer)
          /\ (j \in cleanup_timer' <=> j \in cleanup_timer)
       \/ /\ Finished(j) /\ ~Registered(j)'
          /\ j \in timeout_timer' => j \in timeout_timer
          /\ j \in cleanup_timer' => j \in cleanup_timer

\* A step about job j is about no other.
OthersKept(j) == \A k \in Jobs \ {j} : Kept(k)
-----------------------------------------------------------------------------
(* The operators the actions are built from.                               *)

\* get_best_job only ever changes the status of the head, to MINING.
LEMMA MarkMiningChangesHead ==
    ASSUME NEW q \in Seq(Jobs), NEW st \in [Jobs -> Status], NEW ms
    PROVE  /\ MarkMining(st, ms, q) \in [Jobs -> Status]
           /\ \A j \in Jobs :
                \/ MarkMining(st, ms, q)[j] = st[j]
                \/ /\ q # <<>> /\ j = Head(q) /\ j \in Range(q)
                   /\ MarkMining(st, ms, q)[j] = "MINING"
  <1>1. q # <<>> => Head(q) \in Jobs /\ Head(q) \in Range(q)
    BY HeadInRange
  <1>2. "MINING" \in Status
    BY DEF Status, BeforeMining
  <1> QED BY <1>1, <1>2 DEF MarkMining

\* update_miner_job gives the miners it serves the head, and hands nothing else.
LEMMA UpdateGivesHead ==
    ASSUME TypeOK, NEW q \in Seq(Jobs), NEW ms, UpdateMinerJobs(ms, q)
    PROVE  /\ current_job' \in [Miners -> Jobs \cup {Block, None}]
           /\ miner_jobs' \in [Miners -> SUBSET Jobs]
           /\ \A m \in Miners, j \in Jobs :
                j \in miner_jobs'[m] => j \in miner_jobs[m] \/ j \in Range(q)
           /\ \A m \in Miners : m \in ms /\ q # <<>> => current_job'[m] = Head(q)
           /\ \A m \in Miners : m \notin ms => current_job'[m] = current_job[m]
  <1>1. q # <<>> => Head(q) \in Jobs /\ Head(q) \in Range(q)
    BY HeadInRange
  <1>2. \A c \in Jobs \cup {Block, None} : BestJob(q, c) \in Jobs \cup {Block, None}
    BY <1>1 DEF BestJob
  <1>3. \A c : q # <<>> => BestJob(q, c) = Head(q)
    BY DEF BestJob
  <1> QED BY <1>1, <1>2, <1>3 DEF UpdateMinerJobs, TypeOK

\* deque.remove keeps the type of the queue.
LEMMA WithoutIsTyped ==
    ASSUME TypeOK, NEW j \in Jobs
    PROVE  Without(tx_queue, j) \in Seq(Jobs)
  BY WithoutElements DEF TypeOK, Without
-----------------------------------------------------------------------------
(* Type correctness.                                                       *)

\* The initial state is well typed.
LEMMA TypeOKInit == Init => TypeOK
  <1> SUFFICES ASSUME Init PROVE TypeOK
    OBVIOUS
  <1>1. "UNUSED" \in Status /\ <<>> \in Seq(Jobs) /\ 0 \in Nat
    BY DEF Status
  <1> QED BY <1>1 DEF Init, TypeOK

\* Every step keeps the state well typed.
LEMMA TypeOKStep == TypeOK /\ [Next]_vars => TypeOK'
  <1> SUFFICES ASSUME TypeOK, [Next]_vars
               PROVE  TypeOK'
    OBVIOUS
  <1> USE JobsAssumption, SentinelsAssumption
  <1>s. /\ {"PENDING", "GETTING_PARENTS", "ENQUEUED", "MINING"} \subseteq Status
        /\ {"DONE", "FAILED", "TIMEOUT", "CANCELLED"} \subseteq Status
    BY DEF Status, AfterMining, BeforeMining
  <1>t. status \in [Jobs -> Status] /\ tx_queue \in Seq(Jobs)
    BY DEF TypeOK
  <1>n. /\ scheduled \in [Jobs -> Nat] /\ pushing \in [Jobs -> Nat]
        /\ solved \in [Jobs -> Nat] /\ failed \in [Jobs -> Nat] /\ timed_out \in [Jobs -> Nat]
    BY DEF TypeOK
  <1>q. \A j \in Jobs : Append(tx_queue, j) \in Seq(Jobs) /\ Without(tx_queue, j) \in Seq(Jobs)
    BY WithoutIsTyped, AppendNewcomer DEF TypeOK
  <1>m. \A q \in Seq(Jobs), st \in [Jobs -> Status] : \A ms :
           MarkMining(st, ms, q) \in [Jobs -> Status]
    BY MarkMiningChangesHead
  <1>u. \A q \in Seq(Jobs) : \A ms :
           UpdateMinerJobs(ms, q) => /\ current_job' \in [Miners -> Jobs \cup {Block, None}]
                                     /\ miner_jobs' \in [Miners -> SUBSET Jobs]
    BY UpdateGivesHead
  <1>e. ASSUME NEW j \in Jobs, NEW armed \in SUBSET Jobs, Enqueue(j, armed)
        PROVE  /\ tx_queue' \in Seq(Jobs) /\ status' \in [Jobs -> Status]
               /\ timeout_timer' \subseteq Jobs
               /\ current_job' \in [Miners -> Jobs \cup {Block, None}]
               /\ miner_jobs' \in [Miners -> SUBSET Jobs]
    BY <1>s, <1>q, <1>m, <1>u, <1>e DEF TypeOK, Enqueue
  <1>1. ASSUME NEW j \in Jobs, AddJob(j) PROVE TypeOK'
    <2>1. CASE j \in AddParents
      <3>e. /\ status' = [status EXCEPT ![j] = "PENDING"]
            /\ tx_jobs' = [tx_jobs EXCEPT ![Uuid[j]] = j]
            /\ parents' = [parents EXCEPT ![j] = "scheduled"]
            /\ timeout_timer' = timeout_timer \ {tx_jobs[Uuid[j]]}
            /\ cleanup_timer' = cleanup_timer \ {tx_jobs[Uuid[j]]}
        BY <1>1, <2>1 DEF AddJob
      <3>1. /\ status' \in [Jobs -> Status] /\ tx_jobs' \in [Txs -> Jobs \cup {None}]
            /\ parents' \in [Jobs -> {"none", "scheduled", "awaiting"}]
            /\ timeout_timer' \subseteq Jobs /\ cleanup_timer' \subseteq Jobs
        BY <1>s, <3>e DEF TypeOK
      <3> QED BY <1>1, <2>1, <3>1 DEF TypeOK, AddJob, workVars, minerVars, envVars, eventVars
    <2>2. CASE j \notin AddParents
      <3>1. Enqueue(j, timeout_timer \ {tx_jobs[Uuid[j]]})
        BY <1>1, <2>2 DEF AddJob
      <3>2. timeout_timer \ {tx_jobs[Uuid[j]]} \in SUBSET Jobs
        BY DEF TypeOK
      <3> QED BY <1>1, <1>e, <2>2, <3>1, <3>2 DEF TypeOK, AddJob, minerVars, envVars, eventVars
    <2> QED BY <2>1, <2>2
  <1>2. ASSUME NEW j \in Jobs, AddParentsStart(j) PROVE TypeOK'
    BY <1>2, <1>s DEF TypeOK, AddParentsStart, timerVars, workVars, minerVars, envVars, eventVars
  <1>3. ASSUME NEW j \in Jobs, AddParentsOk(j) PROVE TypeOK'
    BY <1>3, <1>e DEF TypeOK, AddParentsOk, minerVars, envVars, eventVars
  <1>4. ASSUME NEW j \in Jobs, AddParentsFail(j) PROVE TypeOK'
    BY <1>4, <1>s DEF TypeOK, AddParentsFail, workVars, minerVars, envVars
  <1>5. ASSUME NEW j \in Jobs, CancelJob(j) PROVE TypeOK'
    <2> DEFINE cancelled == [status EXCEPT ![j] = "CANCELLED"]
    <2>1. cancelled \in [Jobs -> Status] /\ Without(tx_queue, j) \in Seq(Jobs)
      BY <1>s, <1>q DEF TypeOK
    <2>e. /\ tx_jobs' = [tx_jobs EXCEPT ![Uuid[j]] = None]
          /\ failed' = [failed EXCEPT ![j] = @ + 1] \/ failed' = failed
          /\ \/ status' = cancelled
             \/ status' = MarkMining(cancelled, Workers(j), Without(tx_queue, j))
          /\ tx_queue' = tx_queue \/ tx_queue' = Without(tx_queue, j)
      BY <1>5 DEF CancelJob
    <2> HIDE DEF cancelled
    <2>m. MarkMining(cancelled, Workers(j), Without(tx_queue, j)) \in [Jobs -> Status]
      BY <1>m, <2>1
    <2>2. tx_jobs' \in [Txs -> Jobs \cup {None}] /\ failed' \in [Jobs -> Nat]
      BY <2>e DEF TypeOK
    <2>3. status' \in [Jobs -> Status] /\ tx_queue' \in Seq(Jobs)
      BY <1>q, <1>t, <2>1, <2>m, <2>e
    <2>4. /\ current_job' \in [Miners -> Jobs \cup {Block, None}]
          /\ miner_jobs' \in [Miners -> SUBSET Jobs]
      BY <1>5, <1>u, <2>1 DEF TypeOK, CancelJob, workVars
    <2> QED BY <1>5, <2>2, <2>3, <2>4 DEF TypeOK, CancelJob, timerVars, coroVars, minerVars, envVars
  <1>6. ASSUME NEW j \in Jobs, RunSolution(j) PROVE TypeOK'
    <2> DEFINE moved == MarkMining(status, Workers(j), Without(tx_queue, j))
    <2>1. moved \in [Jobs -> Status] /\ [moved EXCEPT ![j] = "DONE"] \in [Jobs -> Status]
      BY <1>s, <1>q, <1>m DEF TypeOK
    <2>e. /\ scheduled[j] > 0 /\ scheduled' = [scheduled EXCEPT ![j] = @ - 1]
          /\ pushing' = [pushing EXCEPT ![j] = @ + 1] \/ pushing' = pushing
          /\ solved' = [solved EXCEPT ![j] = @ + 1] \/ solved' = solved
          /\ cleanup_timer' = cleanup_timer \cup {j} \/ cleanup_timer' = cleanup_timer
          /\ status' \in {status, moved, [moved EXCEPT ![j] = "DONE"]}
          /\ tx_queue' = tx_queue \/ tx_queue' = Without(tx_queue, j)
      BY <1>6 DEF RunSolution
    <2> HIDE DEF moved
    <2>2. /\ scheduled' \in [Jobs -> Nat] /\ pushing' \in [Jobs -> Nat]
          /\ solved' \in [Jobs -> Nat]
      BY <1>n, <2>e
    <2>5. cleanup_timer' \subseteq Jobs
      BY <2>e DEF TypeOK
    <2>3. status' \in [Jobs -> Status] /\ tx_queue' \in Seq(Jobs)
      BY <1>q, <1>t, <2>1, <2>e
    <2>4. /\ current_job' \in [Miners -> Jobs \cup {Block, None}]
          /\ miner_jobs' \in [Miners -> SUBSET Jobs]
      BY <1>6, <1>q, <1>u DEF TypeOK, RunSolution, workVars
    <2> QED BY <1>6, <2>2, <2>3, <2>4, <2>5 DEF TypeOK, RunSolution, minerVars, envVars
  <1>7. ASSUME NEW j \in Jobs, PushOk(j) \/ PushFailed(j) \/ PushError(j) PROVE TypeOK'
    <2>2. PushEnds(j)
      BY <1>7 DEF PushOk, PushFailed, PushError
    <2>e. /\ pushing[j] > 0 /\ pushing' = [pushing EXCEPT ![j] = @ - 1]
          /\ failed' = [failed EXCEPT ![j] = @ + 1] \/ failed' = failed
          /\ solved' = [solved EXCEPT ![j] = @ + 1] \/ solved' = solved
          /\ \E s \in {"DONE", "FAILED"} : status' = [status EXCEPT ![j] = s] \/ status' = status
      BY <1>7, <2>2 DEF PushOk, PushFailed, PushError, PushEnds
    <2>1. /\ pushing' \in [Jobs -> Nat]
          /\ solved' \in [Jobs -> Nat] /\ failed' \in [Jobs -> Nat]
      BY <1>n, <2>e
    <2>3. status' \in [Jobs -> Status]
      BY <1>s, <1>t, <2>e
    <2> QED BY <2>1, <2>2, <2>3 DEF TypeOK, PushEnds, timerVars, workVars, minerVars, envVars
  <1>8. ASSUME NEW j \in Jobs, JobTimeout(j) PROVE TypeOK'
    <2>1. [status EXCEPT ![j] = "TIMEOUT"] \in [Jobs -> Status]
      BY <1>s DEF TypeOK
    <2>m. MarkMining([status EXCEPT ![j] = "TIMEOUT"], Workers(j), Without(tx_queue, j))
             \in [Jobs -> Status]
      BY <1>m, <1>q, <2>1
    <2>e. /\ timed_out' = [timed_out EXCEPT ![j] = @ + 1] \/ timed_out' = timed_out
          /\ timeout_timer' = timeout_timer \ {j}
          /\ cleanup_timer' = cleanup_timer \cup {j} \/ cleanup_timer' = cleanup_timer
          /\ \/ status' = status
             \/ status' = MarkMining([status EXCEPT ![j] = "TIMEOUT"], Workers(j),
                                     Without(tx_queue, j))
          /\ tx_queue' = tx_queue \/ tx_queue' = Without(tx_queue, j)
      BY <1>8 DEF JobTimeout
    <2>2. /\ timed_out' \in [Jobs -> Nat]
          /\ timeout_timer' \subseteq Jobs /\ cleanup_timer' \subseteq Jobs
      BY <2>e DEF TypeOK
    <2>3. status' \in [Jobs -> Status] /\ tx_queue' \in Seq(Jobs)
      BY <1>q, <1>t, <2>1, <2>m, <2>e
    <2>4. /\ current_job' \in [Miners -> Jobs \cup {Block, None}]
          /\ miner_jobs' \in [Miners -> SUBSET Jobs]
      BY <1>8, <1>q, <1>u DEF TypeOK, JobTimeout, workVars
    <2> QED BY <1>8, <2>2, <2>3, <2>4 DEF TypeOK, JobTimeout, coroVars, minerVars, envVars
  <1>9. ASSUME NEW j \in Jobs, CleanUp(j) PROVE TypeOK'
    BY <1>9 DEF TypeOK, CleanUp, coroVars, workVars, minerVars, envVars, eventVars
  <1>10. ASSUME NEW m \in Miners, MinerReady(m) PROVE TypeOK'
    BY <1>10, <1>m, <1>u DEF TypeOK, MinerReady, timerVars, coroVars, envVars, eventVars
  <1>11. ASSUME NEW m \in Miners, MinerLost(m) PROVE TypeOK'
    BY <1>11 DEF TypeOK, MinerLost, jobVars, timerVars, coroVars, envVars, eventVars
  <1>12. ASSUME NEW m \in Miners, RefreshJob(m) PROVE TypeOK'
    <2>e. /\ status' = status \/ status' = MarkMining(status, {m}, tx_queue)
          /\ refresh_task' = refresh_task \/ refresh_task' = refresh_task \ {m}
      BY <1>12 DEF RefreshJob
    <2>1. status' \in [Jobs -> Status]
      BY <1>m, <1>t, <2>e
    <2>3. refresh_task' \subseteq miners
      BY <2>e DEF TypeOK
    <2>2. /\ current_job' \in [Miners -> Jobs \cup {Block, None}]
          /\ miner_jobs' \in [Miners -> SUBSET Jobs]
      BY <1>12, <1>u DEF TypeOK, RefreshJob, workVars
    <2> QED BY <1>12, <2>1, <2>2, <2>3 DEF TypeOK, RefreshJob, timerVars, coroVars, envVars, eventVars
  <1>13. ASSUME NEW m \in Miners, UpdateMinerJob(m) PROVE TypeOK'
    BY <1>13, <1>m, <1>u DEF TypeOK, UpdateMinerJob, timerVars, coroVars, minerVars, envVars, eventVars
  <1>14. ASSUME NEW m \in Miners, NEW j \in Jobs, SubmitSolution(m, j) PROVE TypeOK'
    <2>1. scheduled' \in [Jobs -> Nat]
      BY <1>14 DEF TypeOK, SubmitSolution
    <2> QED BY <1>14, <2>1 DEF TypeOK, SubmitSolution, jobVars, timerVars, workVars, minerVars,
                               envVars, eventVars
  <1>15. CASE TemplateArrives
    BY <1>15, <1>m, <1>u DEF TypeOK, TemplateArrives, timerVars, coroVars, minerVars, eventVars
  <1>16. CASE TemplateLost
    BY <1>16 DEF TypeOK, TemplateLost, jobVars, timerVars, coroVars, workVars, minerVars, eventVars
  <1>17. CASE RefuseNewJobs
    BY <1>17 DEF TypeOK, RefuseNewJobs, jobVars, timerVars, coroVars, workVars, minerVars,
                 eventVars
  <1>18. CASE UNCHANGED vars
    BY <1>18 DEF TypeOK, vars, jobVars, timerVars, coroVars, workVars, minerVars, envVars, eventVars
  <1> QED
    BY <1>1, <1>2, <1>3, <1>4, <1>5, <1>6, <1>7, <1>8, <1>9, <1>10, <1>11, <1>12, <1>13,
       <1>14, <1>15, <1>16, <1>17, <1>18 DEF Next, JobStep, MinerStep

\* Every reachable state of the manager is well typed.
THEOREM TypeCorrect == Spec => []TypeOK
  <1>1. Init => TypeOK
    BY TypeOKInit
  <1>2. TypeOK /\ [Next]_vars => TypeOK'
    BY TypeOKStep
  <1> QED BY <1>1, <1>2, PTL DEF Spec
-----------------------------------------------------------------------------
(* The parts of an action.                                                 *)

\* A job that a step keeps keeps its invariant.
LEMMA KeptJobs ==
    ASSUME TypeOK, NEW j \in Jobs, JobInv(j), Kept(j)
    PROVE  JobInv(j)'
  <1>n. /\ scheduled[j] \in Nat /\ pushing[j] \in Nat
        /\ solved[j] \in Nat /\ failed[j] \in Nat /\ timed_out[j] \in Nat
    BY DEF TypeOK
  <1>1. FreshInv(j)'
    BY <1>n DEF JobInv, Kept, FreshInv, QueuedInv, Untouched
  <1>2. QueuedInv(j)'
    BY <1>n DEF JobInv, Kept, QueuedInv, Finished, AfterMining
  <1>3. CountInv(j)'
    BY <1>n DEF JobInv, Kept, CountInv, QueuedInv, Finished, AfterMining
  <1>4. RegistryInv(j)'
    <2>1. Uuid[j] \in Txs
      BY JobsAssumption
    <2>2. Registered(j)' => Registered(j)
      BY <2>1 DEF Kept, Registered
    <2> QED BY <1>n, <2>2 DEF JobInv, Kept, RegistryInv, QueuedInv, Finished, AfterMining
  <1> QED BY <1>1, <1>2, <1>3, <1>4 DEF JobInv

\* The head may be mined, the rest of the queue stays as it was.
LEMMA MarkMiningOnQueue ==
    ASSUME NEW q \in Seq(Jobs), NEW st \in [Jobs -> Status], NEW ms, IsInjective(q)
    PROVE  /\ \A k \in 2..Len(q) : MarkMining(st, ms, q)[q[k]] = st[q[k]]
           /\ \A j \in Jobs \ Range(q) : MarkMining(st, ms, q)[j] = st[j]
  <1>1. ASSUME NEW k \in 2..Len(q)
        PROVE  q[k] \in Jobs /\ q # <<>> /\ q[k] # Head(q)
    <2>1. k \in 1..Len(q) /\ 1 \in 1..Len(q) /\ k # 1 /\ DOMAIN q = 1..Len(q)
      OBVIOUS
    <2>2. Head(q) = q[1] /\ q # <<>>
      BY <2>1
    <2> QED BY <2>1, <2>2 DEF IsInjective
  <1> QED BY <1>1, MarkMiningChangesHead

\* A job leaves the queue and its workers move on to the new head.
LEMMA LeaveQueue ==
    ASSUME IInv, NEW j \in Jobs, NEW st \in [Jobs -> Status],
           \A k \in Jobs \ {j} : st[k] = status[k],
           tx_queue' = Without(tx_queue, j), miners' = miners,
           UpdateMinerJobs(Workers(j), Without(tx_queue, j)),
           \A k \in Jobs \ {j} :
              status'[k] = MarkMining(st, Workers(j), Without(tx_queue, j))[k]
    PROVE  /\ QueueShape'
           /\ ~Queued(j)'
           /\ MarkMining(st, Workers(j), Without(tx_queue, j))[j] = st[j]
           /\ \A k \in Jobs \ {j} :
                /\ status'[k] = status[k] \/ (Queued(k) /\ status'[k] = "MINING")
                /\ Queued(k)' <=> Queued(k)
                /\ \A m \in Miners : k \in miner_jobs'[m] => k \in miner_jobs[m] \/ Queued(k)
           /\ \A m \in Miners : j \in miner_jobs'[m] => j \in miner_jobs[m]
  <1> DEFINE q == Without(tx_queue, j)
  <1>1. TypeOK /\ tx_queue \in Seq(Jobs) /\ IsInjective(tx_queue)
    BY DEF IInv, QueueShape, TypeOK
  <1>2. /\ q \in Seq(Jobs) /\ IsInjective(q) /\ Range(q) = Range(tx_queue) \ {j}
        /\ tx_queue # <<>> /\ Head(tx_queue) # j => q # <<>> /\ Head(q) = Head(tx_queue)
        /\ \A k \in 2..Len(q) : \E n \in 2..Len(tx_queue) : q[k] = tx_queue[n]
    BY <1>1, WithoutProperties
  <1> HIDE DEF q
  <1>q. tx_queue' = q /\ UpdateMinerJobs(Workers(j), q)
        /\ \A k \in Jobs \ {j} : status'[k] = MarkMining(st, Workers(j), q)[k]
    BY DEF q
  <1>3. ~Queued(j)' /\ \A k \in Jobs \ {j} : Queued(k)' <=> Queued(k)
    BY <1>2, <1>q DEF Queued
  <1>4. MarkMining(st, Workers(j), q)[j] = st[j]
    BY <1>2, MarkMiningOnQueue
  <1>5. \A k \in Jobs \ {j} :
           status'[k] = status[k] \/ (Queued(k) /\ status'[k] = "MINING")
    BY <1>2, <1>q, MarkMiningChangesHead DEF Queued
  <1>6. \A m \in Miners, k \in Jobs :
           k \in miner_jobs'[m] => k \in miner_jobs[m] \/ k \in Range(q)
    BY <1>1, <1>2, <1>q, UpdateGivesHead
  <1>7. OnlyHeadIsMining'
    <2>1. SUFFICES ASSUME NEW k \in 2..Len(q) PROVE status'[q[k]] = "ENQUEUED"
      BY <1>q DEF OnlyHeadIsMining
    <2>2. PICK n \in 2..Len(tx_queue) : q[k] = tx_queue[n]
      BY <1>2
    <2>3. status[q[k]] = "ENQUEUED"
      BY <2>2 DEF IInv, QueueShape, OnlyHeadIsMining
    <2>4. q[k] \in Range(q) /\ q[k] \in Jobs \ {j}
      BY <1>1, <1>2, HeadInRange
    <2>5. MarkMining(st, Workers(j), q)[q[k]] = st[q[k]]
      BY <1>2, MarkMiningOnQueue
    <2> QED BY <1>q, <2>3, <2>4, <2>5
  <1>8. MinersOnHead'
    <2>1. SUFFICES ASSUME q # <<>>, NEW m \in miners PROVE current_job'[m] = Head(q)
      BY <1>q DEF MinersOnHead
    <2>2. m \in Miners
      BY <1>1 DEF TypeOK
    <2>3. tx_queue # <<>>
      <3>1. Range(q) # {}
        BY <1>2, <2>1, HeadInRange
      <3> QED BY <1>2, <3>1 DEF Range
    <2>4. current_job[m] = Head(tx_queue)
      BY <2>3 DEF IInv, QueueShape, MinersOnHead
    <2>5. CASE m \in Workers(j)
      BY <1>1, <1>2, <1>q, <2>1, <2>2, <2>5, UpdateGivesHead
    <2>6. CASE m \notin Workers(j)
      <3>1. Head(tx_queue) # j
        BY <2>4, <2>6 DEF Workers
      <3>2. current_job'[m] = current_job[m]
        BY <1>1, <1>2, <1>q, <2>2, <2>6, UpdateGivesHead
      <3> QED BY <1>2, <2>3, <2>4, <3>1, <3>2
    <2> QED BY <2>5, <2>6
  <1>9. QueueShape'
    BY <1>2, <1>q, <1>7, <1>8 DEF QueueShape
  <1>10. \A m \in Miners : j \in miner_jobs'[m] => j \in miner_jobs[m]
    BY <1>2, <1>6
  <1>11. \A k \in Jobs \ {j} : \A m \in Miners :
            k \in miner_jobs'[m] => k \in miner_jobs[m] \/ Queued(k)
    BY <1>2, <1>6 DEF Queued
  <1> QED BY <1>3, <1>4, <1>5, <1>9, <1>10, <1>11 DEF q

\* Miners are served from an unchanged queue; whoever becomes ready is served.
LEMMA ServeMiners ==
    ASSUME IInv, NEW ms, tx_queue' = tx_queue, miners' \subseteq miners \cup ms,
           miners' \subseteq Miners,
           UpdateMinerJobs(ms, tx_queue), status' = MarkMining(status, ms, tx_queue)
    PROVE  /\ QueueShape'
           /\ \A k \in Jobs :
                /\ status'[k] = status[k] \/ (Queued(k) /\ status'[k] = "MINING")
                /\ Queued(k)' <=> Queued(k)
                /\ \A m \in Miners : k \in miner_jobs'[m] => k \in miner_jobs[m] \/ Queued(k)
  <1>1. /\ TypeOK /\ tx_queue \in Seq(Jobs) /\ status \in [Jobs -> Status]
        /\ IsInjective(tx_queue)
    BY DEF IInv, QueueShape, TypeOK
  <1>2. \A k \in Jobs :
           /\ status'[k] = status[k] \/ (Queued(k) /\ status'[k] = "MINING")
           /\ Queued(k)' <=> Queued(k)
    BY <1>1, MarkMiningChangesHead DEF Queued
  <1>3. \A k \in Jobs, m \in Miners :
           k \in miner_jobs'[m] => k \in miner_jobs[m] \/ Queued(k)
    BY <1>1, UpdateGivesHead DEF Queued
  <1>4. OnlyHeadIsMining'
    <2>1. \A k \in 2..Len(tx_queue) : status[tx_queue[k]] = "ENQUEUED"
      BY DEF IInv, QueueShape, OnlyHeadIsMining
    <2> QED BY <1>1, <2>1, MarkMiningOnQueue DEF OnlyHeadIsMining
  <1>5. MinersOnHead'
    <2>1. SUFFICES ASSUME tx_queue # <<>>, NEW m \in miners'
                   PROVE  current_job'[m] = Head(tx_queue)
      BY DEF MinersOnHead
    <2>2. CASE m \in ms
      BY <1>1, <2>1, <2>2, UpdateGivesHead
    <2>3. CASE m \notin ms
      <3>1. current_job[m] = Head(tx_queue)
        BY <2>1, <2>3 DEF IInv, QueueShape, MinersOnHead
      <3> QED BY <1>1, <2>3, <3>1, UpdateGivesHead
    <2> QED BY <2>2, <2>3
  <1> QED BY <1>1, <1>2, <1>3, <1>4, <1>5 DEF QueueShape

\* A job joins the tail of the queue; when it is alone, all miners are told.
LEMMA JoinQueue ==
    ASSUME IInv, NEW j \in Jobs, NEW armed, ~Queued(j), Enqueue(j, armed), miners' = miners
    PROVE  /\ QueueShape'
           /\ Queued(j)' /\ status'[j] \in {"ENQUEUED", "MINING"}
           /\ timeout_timer' = armed \cup {j}
           /\ \A k \in Jobs \ {j} :
                /\ status'[k] = status[k] \/ (Queued(k) /\ status'[k] = "MINING")
                /\ Queued(k)' <=> Queued(k)
                /\ \A m \in Miners : k \in miner_jobs'[m] => k \in miner_jobs[m] \/ Queued(k)
  <1> DEFINE q == Append(tx_queue, j)
             ms == IF tx_queue = <<>> THEN miners ELSE {}
             st == [status EXCEPT ![j] = "ENQUEUED"]
  <1>1. /\ TypeOK /\ tx_queue \in Seq(Jobs) /\ IsInjective(tx_queue)
        /\ status \in [Jobs -> Status]
    BY DEF IInv, QueueShape, TypeOK
  <1>2. /\ q \in Seq(Jobs) /\ q # <<>> /\ IsInjective(q)
        /\ Range(q) = Range(tx_queue) \cup {j}
        /\ Len(q) = Len(tx_queue) + 1 /\ q[Len(tx_queue) + 1] = j
        /\ \A k \in 1..Len(tx_queue) : q[k] = tx_queue[k]
        /\ Head(q) = IF tx_queue = <<>> THEN j ELSE Head(tx_queue)
    BY <1>1, AppendNewcomer DEF Queued
  <1>3. st \in [Jobs -> Status] /\ st[j] = "ENQUEUED" /\ \A k \in Jobs \ {j} : st[k] = status[k]
    BY <1>1 DEF Status, BeforeMining
  <1>4. /\ tx_queue' = q /\ status' = MarkMining(st, ms, q)
        /\ timeout_timer' = armed \cup {j} /\ UpdateMinerJobs(ms, q)
    BY DEF Enqueue
  <1> HIDE DEF q, st
  <1>5. \A k \in Jobs :
           status'[k] = st[k] \/ (k = Head(q) /\ ms # {} /\ status'[k] = "MINING")
    BY <1>2, <1>3, <1>4, MarkMiningChangesHead DEF MarkMining
  <1>6. ms # {} => Head(q) = j
    BY <1>2
  <1>7. status'[j] \in {"ENQUEUED", "MINING"} /\ \A k \in Jobs \ {j} : status'[k] = status[k]
    BY <1>3, <1>5, <1>6
  <1>8. Queued(j)' /\ \A k \in Jobs \ {j} : Queued(k)' <=> Queued(k)
    BY <1>2, <1>4 DEF Queued
  <1>9. \A k \in Jobs \ {j} : \A m \in Miners :
           k \in miner_jobs'[m] => k \in miner_jobs[m] \/ Queued(k)
    BY <1>1, <1>2, <1>4, UpdateGivesHead DEF Queued
  <1>10. OnlyHeadIsMining'
    <2>1. SUFFICES ASSUME NEW k \in 2..Len(q) PROVE status'[q[k]] = "ENQUEUED"
      BY <1>4 DEF OnlyHeadIsMining
    <2>2. status'[q[k]] = st[q[k]]
      BY <1>2, <1>3, <1>4, MarkMiningOnQueue
    <2>3. CASE k = Len(tx_queue) + 1
      BY <1>2, <1>3, <2>2, <2>3
    <2>4. CASE k \in 2..Len(tx_queue)
      <3>1. q[k] = tx_queue[k] /\ q[k] \in Jobs /\ tx_queue[k] \in Range(tx_queue)
        BY <1>1, <1>2, <2>4, HeadInRange
      <3>2. q[k] # j /\ status[q[k]] = "ENQUEUED"
        BY <2>4, <3>1 DEF Queued, IInv, QueueShape, OnlyHeadIsMining
      <3> QED BY <1>3, <2>2, <3>1, <3>2
    <2>5. Len(tx_queue) \in Nat
      BY <1>1
    <2> QED BY <1>2, <2>1, <2>3, <2>4, <2>5
  <1>11. MinersOnHead'
    <2>1. SUFFICES ASSUME NEW m \in miners PROVE current_job'[m] = Head(q)
      BY <1>4 DEF MinersOnHead
    <2>2. m \in Miners
      BY <1>1 DEF TypeOK
    <2>3. CASE tx_queue = <<>>
      BY <1>1, <1>2, <1>4, <2>2, <2>3, UpdateGivesHead
    <2>4. CASE tx_queue # <<>>
      <3>1. current_job[m] = Head(q)
        BY <1>2, <2>4 DEF IInv, QueueShape, MinersOnHead
      <3> QED BY <1>1, <1>2, <1>4, <2>2, <2>4, <3>1, UpdateGivesHead
    <2> QED BY <2>3, <2>4
  <1>12. QueueShape'
    BY <1>2, <1>4, <1>10, <1>11 DEF QueueShape
  <1> QED BY <1>4, <1>7, <1>8, <1>9, <1>12

\* Nothing happens to the queue, and only a job outside it changes status.
LEMMA QueueUntouched ==
    ASSUME IInv, NEW j \in Jobs, ~Queued(j), tx_queue' = tx_queue, miners' \subseteq miners,
           \A m \in miners' : current_job'[m] = current_job[m],
           \A k \in Jobs \ {j} : status'[k] = status[k]
    PROVE  QueueShape'
  <1>1. tx_queue \in Seq(Jobs)
    BY DEF IInv, TypeOK
  <1>2. \A k \in 2..Len(tx_queue) : tx_queue[k] \in Jobs \ {j}
    BY <1>1, HeadInRange DEF Queued
  <1> QED BY <1>2 DEF IInv, QueueShape, OnlyHeadIsMining, MinersOnHead
-----------------------------------------------------------------------------
(* One lemma per action.                                                   *)

\* Enough to preserve the invariant: the shape of the queue, the job the
\* step is about, and that it keeps the others.
LEMMA StepIsEnough ==
    ASSUME IInv, [Next]_vars, QueueShape', NEW j \in Jobs, JobInv(j)',
           \A k \in Jobs \ {j} : Kept(k)
    PROVE  IInv'
  <1>1. TypeOK'
    BY TypeOKStep DEF IInv
  <1>2. ASSUME NEW k \in Jobs PROVE JobInv(k)'
    BY <1>2, KeptJobs DEF IInv
  <1> QED BY <1>1, <1>2 DEF IInv

\* The counters and the registry hold what their types say.
LEMMA JobTypes ==
    ASSUME TypeOK, NEW j \in Jobs
    PROVE  /\ scheduled[j] \in Nat /\ pushing[j] \in Nat
           /\ solved[j] \in Nat /\ failed[j] \in Nat /\ timed_out[j] \in Nat
           /\ status[j] \in Status /\ status \in [Jobs -> Status]
           /\ Uuid[j] \in Txs /\ tx_jobs[Uuid[j]] \in Jobs \cup {None}
           /\ DOMAIN tx_jobs = Txs /\ None \notin Jobs
  BY JobsAssumption, SentinelsAssumption DEF TypeOK

\* POST /submit-job: the new job enters a fresh registration; with no parents
\* to fetch it joins the queue at once.
LEMMA AddJobStep ==
    ASSUME IInv, [Next]_vars, NEW j \in Jobs, AddJob(j)
    PROVE  IInv' /\ OthersKept(j)
  <1> DEFINE prev == tx_jobs[Uuid[j]]
  <1>1. TypeOK /\ JobInv(j) /\ status[j] = "UNUSED" /\ TypeOK'
    BY TypeOKStep DEF IInv, AddJob
  <1>2. /\ tx_jobs' = [tx_jobs EXCEPT ![Uuid[j]] = j]
        /\ cleanup_timer' = cleanup_timer \ {prev}
        /\ prev # None => status[prev] = "TIMEOUT"
        /\ scheduled' = scheduled /\ pushing' = pushing /\ miners' = miners
        /\ solved' = solved /\ failed' = failed /\ timed_out' = timed_out
    BY DEF AddJob, minerVars, eventVars
  <1>3. ~Queued(j) /\ Untouched(j) /\ parents[j] = "none" /\ prev # j
    BY <1>1, <1>2, JobTypes DEF JobInv, FreshInv
  <1>4. /\ Registered(j)'
        /\ \A k \in Jobs \ {j}, t \in Txs : tx_jobs'[t] = k => tx_jobs[t] = k
        /\ prev \in Jobs => tx_jobs'[Uuid[prev]] # prev
        /\ \A t \in Txs : tx_jobs'[t] = j => t = Uuid[j]
    <2>1. Uuid[j] \in Txs /\ tx_jobs \in [Txs -> Jobs \cup {None}]
      BY JobsAssumption DEF IInv, TypeOK
    <2>2. \A t \in Txs : tx_jobs'[t] = IF t = Uuid[j] THEN j ELSE tx_jobs[t]
      BY <1>2, <2>1
    <2>3. prev \in Jobs => Uuid[prev] = Uuid[j]
      BY <2>1 DEF IInv, JobInv, RegistryInv
    <2>4. \A t \in Txs : tx_jobs[t] # j
      BY <1>1, JobTypes DEF JobInv, RegistryInv, Registered
    <2> QED BY <1>3, <2>1, <2>2, <2>3, <2>4 DEF Registered
  <1>5. ASSUME NEW k \in Jobs \ {j}
        PROVE  /\ k = prev => Finished(k)
               /\ k # prev => (k \in cleanup_timer' <=> k \in cleanup_timer)
               /\ k \in cleanup_timer' => k \in cleanup_timer
    BY <1>1, <1>2, JobTypes DEF Finished, AfterMining
  <1>6. CASE j \in AddParents
    <2>1. /\ status' = [status EXCEPT ![j] = "PENDING"]
          /\ parents' = [parents EXCEPT ![j] = "scheduled"]
          /\ timeout_timer' = timeout_timer \ {prev}
          /\ tx_queue' = tx_queue /\ current_job' = current_job /\ miner_jobs' = miner_jobs
      BY <1>6 DEF AddJob, workVars
    <2>2. /\ status'[j] = "PENDING" /\ parents'[j] = "scheduled"
          /\ \A k \in Jobs \ {j} : status'[k] = status[k] /\ parents'[k] = parents[k]
      BY <1>1, <2>1 DEF TypeOK
    <2>3. QueueShape'
      BY <1>2, <1>3, <2>1, <2>2, QueueUntouched
    <2>4. ASSUME NEW k \in Jobs \ {j} PROVE Kept(k)
      BY <1>2, <1>4, <1>5, <2>1, <2>2 DEF Kept, Queued, Registered
    <2>5. JobInv(j)'
      BY <1>1, <1>2, <1>3, <2>1, <2>2
         DEF JobInv, FreshInv, QueuedInv, CountInv, RegistryInv, Untouched, Queued, Finished,
             AfterMining
    <2> QED BY <2>3, <2>4, <2>5, StepIsEnough DEF OthersKept
  <1>7. CASE j \notin AddParents
    <2>1. Enqueue(j, timeout_timer \ {prev}) /\ parents' = parents
      BY <1>7 DEF AddJob
    <2>2. /\ QueueShape' /\ Queued(j)' /\ status'[j] \in {"ENQUEUED", "MINING"}
          /\ timeout_timer' = (timeout_timer \ {prev}) \cup {j}
          /\ \A k \in Jobs \ {j} :
                /\ status'[k] = status[k] \/ (Queued(k) /\ status'[k] = "MINING")
                /\ Queued(k)' <=> Queued(k)
                /\ \A m \in Miners : k \in miner_jobs'[m] => k \in miner_jobs[m] \/ Queued(k)
      BY <1>2, <1>3, <2>1, JoinQueue
    <2>3. ASSUME NEW k \in Jobs \ {j} PROVE Kept(k)
      BY <1>2, <1>4, <1>5, <2>1, <2>2 DEF Kept, Registered
    <2>4. JobInv(j)'
      BY <1>1, <1>2, <1>3, <2>1, <2>2
         DEF JobInv, FreshInv, QueuedInv, CountInv, RegistryInv, Untouched, Finished, AfterMining
    <2> QED BY <2>2, <2>3, <2>4, StepIsEnough DEF OthersKept
  <1> QED BY <1>6, <1>7

\* The coroutine that fetches parents starts: the queue is untouched.
LEMMA AddParentsStartStep ==
    ASSUME IInv, [Next]_vars, NEW j \in Jobs, AddParentsStart(j)
    PROVE  IInv' /\ OthersKept(j)
  <1>1. TypeOK /\ JobInv(j) /\ parents[j] = "scheduled"
    BY DEF IInv, AddParentsStart
  <1>2. /\ parents' = [parents EXCEPT ![j] = "awaiting"]
        /\ status' = [status EXCEPT ![j] = "GETTING_PARENTS"]
        /\ UNCHANGED <<tx_jobs, tx_queue, timeout_timer, cleanup_timer, scheduled, pushing,
                       current_job, miner_jobs, miners, solved, failed, timed_out>>
    BY DEF AddParentsStart, timerVars, workVars, minerVars, eventVars
  <1>3. /\ status'[j] = "GETTING_PARENTS" /\ parents'[j] = "awaiting"
        /\ \A k \in Jobs \ {j} : status'[k] = status[k] /\ parents'[k] = parents[k]
    BY <1>1, <1>2 DEF TypeOK
  <1>4. ~Queued(j) /\ Untouched(j)
    BY <1>1 DEF JobInv, FreshInv
  <1>5. QueueShape'
    BY <1>2, <1>3, <1>4, QueueUntouched
  <1>6. ASSUME NEW k \in Jobs \ {j} PROVE Kept(k)
    BY <1>2, <1>3 DEF Kept, Queued, Registered
  <1>7. JobInv(j)'
    BY <1>1, <1>2, <1>3, <1>4
       DEF JobInv, FreshInv, QueuedInv, CountInv, RegistryInv, Untouched, Queued, Finished,
           Registered, AfterMining
  <1> QED BY <1>5, <1>6, <1>7, StepIsEnough DEF OthersKept

\* The parents arrive late: the job, even a cancelled one, joins the queue.
LEMMA AddParentsOkStep ==
    ASSUME IInv, [Next]_vars, NEW j \in Jobs, AddParentsOk(j)
    PROVE  IInv' /\ OthersKept(j)
  <1>1. TypeOK /\ JobInv(j) /\ parents[j] = "awaiting"
    BY DEF IInv, AddParentsOk
  <1>2. /\ parents' = [parents EXCEPT ![j] = "none"]
        /\ Enqueue(j, timeout_timer)
        /\ UNCHANGED <<tx_jobs, cleanup_timer, scheduled, pushing, miners, solved, failed, timed_out>>
    BY DEF AddParentsOk, minerVars, eventVars
  <1>3. parents'[j] = "none" /\ \A k \in Jobs \ {j} : parents'[k] = parents[k]
    BY <1>1, <1>2 DEF TypeOK
  <1>4. ~Queued(j) /\ Untouched(j)
    BY <1>1 DEF JobInv, FreshInv
  <1>5. /\ QueueShape' /\ Queued(j)' /\ status'[j] \in {"ENQUEUED", "MINING"}
        /\ timeout_timer' = timeout_timer \cup {j}
        /\ \A k \in Jobs \ {j} :
             /\ status'[k] = status[k] \/ (Queued(k) /\ status'[k] = "MINING")
             /\ Queued(k)' <=> Queued(k)
             /\ \A m \in Miners : k \in miner_jobs'[m] => k \in miner_jobs[m] \/ Queued(k)
    BY <1>2, <1>4, JoinQueue
  <1>6. ASSUME NEW k \in Jobs \ {j} PROVE Kept(k)
    BY <1>2, <1>3, <1>5 DEF Kept, Registered
  <1>7. JobInv(j)'
    BY <1>1, <1>2, <1>3, <1>4, <1>5
       DEF JobInv, FreshInv, QueuedInv, CountInv, RegistryInv, Untouched, Finished, AfterMining
  <1> QED BY <1>5, <1>6, <1>7, StepIsEnough DEF OthersKept

\* The parents never arrive: the job fails with its clean-up armed.
LEMMA AddParentsFailStep ==
    ASSUME IInv, [Next]_vars, NEW j \in Jobs, AddParentsFail(j)
    PROVE  IInv' /\ OthersKept(j)
  <1>1. TypeOK /\ JobInv(j) /\ parents[j] = "awaiting"
    BY DEF IInv, AddParentsFail
  <1>2. /\ parents' = [parents EXCEPT ![j] = "none"]
        /\ status' = [status EXCEPT ![j] = "FAILED"]
        /\ failed' = [failed EXCEPT ![j] = @ + 1]
        /\ cleanup_timer' = cleanup_timer \cup {j}
        /\ UNCHANGED <<tx_jobs, tx_queue, timeout_timer, scheduled, pushing,
                       current_job, miner_jobs, miners, solved, timed_out>>
    BY DEF AddParentsFail, workVars, minerVars
  <1>3. /\ status'[j] = "FAILED" /\ parents'[j] = "none" /\ failed'[j] = failed[j] + 1
        /\ \A k \in Jobs \ {j} : /\ status'[k] = status[k] /\ parents'[k] = parents[k]
                                 /\ failed'[k] = failed[k]
    BY <1>1, <1>2 DEF TypeOK
  <1>4. ~Queued(j) /\ Untouched(j)
    BY <1>1 DEF JobInv, FreshInv
  <1>5. QueueShape'
    BY <1>2, <1>3, <1>4, QueueUntouched
  <1>6. ASSUME NEW k \in Jobs \ {j} PROVE Kept(k)
    BY <1>2, <1>3 DEF Kept, Queued, Registered
  <1>7. JobInv(j)'
    BY <1>1, <1>2, <1>3, <1>4
       DEF JobInv, FreshInv, QueuedInv, CountInv, RegistryInv, Untouched, Queued, Finished,
           Registered, AfterMining
  <1> QED BY <1>5, <1>6, <1>7, StepIsEnough DEF OthersKept

\* POST of cancel-job: it leaves the queue, or had not reached it.
LEMMA CancelJobStep ==
    ASSUME IInv, [Next]_vars, NEW j \in Jobs, CancelJob(j)
    PROVE  IInv' /\ OthersKept(j)
  <1> DEFINE st == [status EXCEPT ![j] = "CANCELLED"]
  <1>1. TypeOK /\ JobInv(j) /\ Registered(j) /\ ~Finished(j)
    BY DEF IInv, CancelJob
  <1>2. /\ tx_jobs' = [tx_jobs EXCEPT ![Uuid[j]] = None]
        /\ UNCHANGED <<timeout_timer, cleanup_timer, parents, scheduled, pushing, miners,
                       solved, timed_out>>
    BY DEF CancelJob, timerVars, coroVars, minerVars
  <1>3. /\ st \in [Jobs -> Status] /\ st[j] = "CANCELLED"
        /\ \A k \in Jobs \ {j} : st[k] = status[k]
    BY <1>1 DEF TypeOK, Status, AfterMining
  <1>4. /\ ~Registered(j)'
        /\ \A k \in Jobs, t \in Txs : tx_jobs'[t] = k => tx_jobs[t] = k
    <2>1. Uuid[j] \in Txs /\ tx_jobs \in [Txs -> Jobs \cup {None}] /\ None \notin Jobs
      BY JobsAssumption, SentinelsAssumption DEF IInv, TypeOK
    <2>2. \A t \in Txs : tx_jobs'[t] = IF t = Uuid[j] THEN None ELSE tx_jobs[t]
      BY <1>2, <2>1
    <2> QED BY <2>1, <2>2 DEF Registered
  <1>5. status[j] \notin {"DONE", "CANCELLED"}
    BY <1>1 DEF Finished, AfterMining
  <1>6. solved[j] = 0 /\ failed[j] + timed_out[j] = 0
    BY <1>1, <1>5, JobTypes DEF JobInv, CountInv
  <1>7. CASE Queued(j)
    <2>1. /\ tx_queue' = Without(tx_queue, j)
          /\ status' = MarkMining(st, Workers(j), Without(tx_queue, j))
          /\ UpdateMinerJobs(Workers(j), Without(tx_queue, j))
          /\ failed' = [failed EXCEPT ![j] = @ + 1]
      BY <1>7 DEF CancelJob
    <2>2. failed'[j] = failed[j] + 1 /\ \A k \in Jobs \ {j} : failed'[k] = failed[k]
      BY <1>1, <2>1 DEF TypeOK
    <2> HIDE DEF st
    <2>3. /\ QueueShape' /\ ~Queued(j)' /\ status'[j] = "CANCELLED"
          /\ \A k \in Jobs \ {j} :
               /\ status'[k] = status[k] \/ (Queued(k) /\ status'[k] = "MINING")
               /\ Queued(k)' <=> Queued(k)
               /\ \A m \in Miners : k \in miner_jobs'[m] => k \in miner_jobs[m] \/ Queued(k)
      BY <1>2, <1>3, <2>1, LeaveQueue
    <2>4. ASSUME NEW k \in Jobs \ {j} PROVE Kept(k)
      BY <1>2, <1>4, <2>2, <2>3 DEF Kept
    <2>5. parents[j] = "none" /\ status[j] # "UNUSED"
      BY <1>1, <1>7 DEF JobInv, FreshInv
    <2>6. JobInv(j)'
      BY <1>1, <1>2, <1>4, <1>6, <2>2, <2>3, <2>5, JobTypes
         DEF JobInv, FreshInv, QueuedInv, CountInv, RegistryInv, Finished, AfterMining
    <2> QED BY <2>3, <2>4, <2>6, StepIsEnough DEF OthersKept
  <1>8. CASE ~Queued(j)
    <2>1. /\ status' = st
          /\ UNCHANGED <<tx_queue, current_job, miner_jobs, failed>>
      BY <1>8 DEF CancelJob, workVars
    <2> HIDE DEF st
    <2>2. QueueShape'
      BY <1>2, <1>3, <1>8, <2>1, QueueUntouched
    <2>3. ASSUME NEW k \in Jobs \ {j} PROVE Kept(k)
      BY <1>2, <1>3, <1>4, <2>1 DEF Kept, Queued
    <2>4. JobInv(j)'
      BY <1>1, <1>2, <1>3, <1>4, <1>6, <1>8, <2>1
         DEF JobInv, FreshInv, QueuedInv, CountInv, RegistryInv, Untouched, Queued, Finished,
             AfterMining
    <2> QED BY <2>2, <2>3, <2>4, StepIsEnough DEF OthersKept
  <1> QED BY <1>7, <1>8

\* A solution starts to be handled: the job leaves the queue and its miners
\* move on, unless it has finished.
LEMMA RunSolutionStep ==
    ASSUME IInv, [Next]_vars, NEW j \in Jobs, RunSolution(j)
    PROVE  IInv' /\ OthersKept(j)
  <1>1. TypeOK /\ JobInv(j) /\ scheduled[j] > 0
    BY DEF IInv, RunSolution
  <1>2. /\ scheduled' = [scheduled EXCEPT ![j] = @ - 1]
        /\ UNCHANGED <<tx_jobs, timeout_timer, parents, miners, failed, timed_out>>
    BY DEF RunSolution, minerVars
  <1>3. \A k \in Jobs \ {j} : scheduled'[k] = scheduled[k]
    BY <1>1, <1>2 DEF TypeOK
  <1>4. parents[j] = "none" /\ status[j] # "UNUSED"
    BY <1>1, JobTypes DEF JobInv, FreshInv, Untouched
  <1>5. CASE Finished(j)
    <2>1. UNCHANGED <<status, tx_queue, cleanup_timer, current_job, miner_jobs, pushing, solved>>
      BY <1>5 DEF RunSolution, workVars
    <2>2. ~Queued(j)
      BY <1>1, <1>5 DEF JobInv, QueuedInv, Finished, AfterMining
    <2>3. QueueShape'
      BY <1>2, <2>1, <2>2, QueueUntouched
    <2>4. ASSUME NEW k \in Jobs \ {j} PROVE Kept(k)
      BY <1>2, <1>3, <2>1 DEF Kept, Queued
    <2>5. JobInv(j)'
      BY <1>1, <1>2, <1>4, <2>1
         DEF JobInv, FreshInv, QueuedInv, CountInv, RegistryInv, Queued, Finished, Registered
    <2> QED BY <2>3, <2>4, <2>5, StepIsEnough DEF OthersKept
  <1>6. CASE ~Finished(j)
    <2> DEFINE moved == MarkMining(status, Workers(j), Without(tx_queue, j))
    <2>1. /\ tx_queue' = Without(tx_queue, j)
          /\ cleanup_timer' = cleanup_timer \cup {j}
          /\ UpdateMinerJobs(Workers(j), Without(tx_queue, j))
          /\ \/ /\ status' = moved /\ pushing' = [pushing EXCEPT ![j] = @ + 1]
                /\ solved' = solved
             \/ /\ status' = [moved EXCEPT ![j] = "DONE"]
                /\ solved' = [solved EXCEPT ![j] = @ + 1] /\ pushing' = pushing
      BY <1>6 DEF RunSolution
    <2>2. status \in [Jobs -> Status] /\ moved \in [Jobs -> Status]
      BY <1>1, MarkMiningChangesHead, WithoutIsTyped DEF TypeOK
    <2> HIDE DEF moved
    <2>3. \A k \in Jobs \ {j} :
             status'[k] = moved[k] /\ pushing'[k] = pushing[k] /\ solved'[k] = solved[k]
      BY <1>1, <2>1, <2>2 DEF TypeOK
    <2>4. \/ status'[j] = moved[j] /\ pushing'[j] = pushing[j] + 1 /\ solved'[j] = solved[j]
          \/ status'[j] = "DONE" /\ solved'[j] = solved[j] + 1 /\ pushing'[j] = pushing[j]
      BY <1>1, <2>1, <2>2 DEF TypeOK
    <2>5. /\ QueueShape' /\ ~Queued(j)' /\ moved[j] = status[j]
          /\ \A k \in Jobs \ {j} :
               /\ status'[k] = status[k] \/ (Queued(k) /\ status'[k] = "MINING")
               /\ Queued(k)' <=> Queued(k)
               /\ \A m \in Miners : k \in miner_jobs'[m] => k \in miner_jobs[m] \/ Queued(k)
      BY <1>2, <2>1, <2>2, <2>3, LeaveQueue DEF moved
    <2>6. ASSUME NEW k \in Jobs \ {j} PROVE Kept(k)
      BY <1>2, <1>3, <2>1, <2>3, <2>5 DEF Kept
    <2>7. failed[j] + timed_out[j] = 0
      BY <1>1, <1>6, JobTypes DEF JobInv, CountInv
    <2>8. JobInv(j)'
      BY <1>1, <1>2, <1>4, <1>6, <2>1, <2>4, <2>5, <2>7, JobTypes
         DEF JobInv, FreshInv, QueuedInv, CountInv, RegistryInv, Finished, Registered, AfterMining
    <2> QED BY <2>5, <2>6, <2>8, StepIsEnough DEF OthersKept
  <1> QED BY <1>5, <1>6

\* A push ends, in one of three ways.
LEMMA PushStep ==
    ASSUME IInv, [Next]_vars, NEW j \in Jobs, PushOk(j) \/ PushFailed(j) \/ PushError(j)
    PROVE  IInv' /\ OthersKept(j)
  <1>1. TypeOK /\ JobInv(j) /\ PushEnds(j) /\ pushing[j] > 0
    BY DEF IInv, PushOk, PushFailed, PushError, PushEnds
  <1>2. /\ pushing' = [pushing EXCEPT ![j] = @ - 1]
        /\ UNCHANGED <<tx_jobs, tx_queue, timeout_timer, cleanup_timer, parents, scheduled,
                       current_job, miner_jobs, miners, timed_out>>
    BY <1>1 DEF PushEnds, timerVars, workVars, minerVars
  <1>3. \/ /\ status' = [status EXCEPT ![j] = "DONE"] /\ failed' = failed
           /\ solved' = [solved EXCEPT ![j] = @ + 1]
        \/ /\ ~Finished(j)
           /\ status' = [status EXCEPT ![j] = "FAILED"] /\ solved' = solved
           /\ failed' = [failed EXCEPT ![j] = @ + 1]
        \/ UNCHANGED <<status, solved, failed>>
    BY DEF PushOk, PushFailed, PushError
  <1>4. \A k \in Jobs \ {j} : /\ status'[k] = status[k] /\ pushing'[k] = pushing[k]
                              /\ solved'[k] = solved[k] /\ failed'[k] = failed[k]
    BY <1>1, <1>2, <1>3 DEF TypeOK
  <1>5. /\ pushing'[j] = pushing[j] - 1
        /\ \/ status'[j] = "DONE" /\ failed'[j] = failed[j] /\ solved'[j] = solved[j] + 1
           \/ /\ ~Finished(j) /\ status'[j] = "FAILED" /\ failed'[j] = failed[j] + 1
              /\ solved'[j] = solved[j]
           \/ status'[j] = status[j] /\ solved'[j] = solved[j] /\ failed'[j] = failed[j]
    BY <1>1, <1>2, <1>3 DEF TypeOK
  <1>6. ~Queued(j) /\ parents[j] = "none" /\ status[j] # "UNUSED"
    BY <1>1, JobTypes DEF JobInv, FreshInv, QueuedInv, Untouched
  <1>7. QueueShape'
    BY <1>2, <1>4, <1>6, QueueUntouched
  <1>8. ASSUME NEW k \in Jobs \ {j} PROVE Kept(k)
    BY <1>2, <1>4 DEF Kept, Queued
  <1>9. JobInv(j)'
    BY <1>1, <1>2, <1>5, <1>6, JobTypes
       DEF JobInv, FreshInv, QueuedInv, CountInv, RegistryInv, Queued, Finished, Registered,
           AfterMining
  <1> QED BY <1>7, <1>8, <1>9, StepIsEnough DEF OthersKept

\* The timeout fires: a job that has not finished leaves the queue.
LEMMA JobTimeoutStep ==
    ASSUME IInv, [Next]_vars, NEW j \in Jobs, JobTimeout(j)
    PROVE  IInv' /\ OthersKept(j)
  <1> DEFINE st == [status EXCEPT ![j] = "TIMEOUT"]
  <1>1. TypeOK /\ JobInv(j) /\ j \in timeout_timer
    BY DEF IInv, JobTimeout
  <1>2. /\ timeout_timer' = timeout_timer \ {j}
        /\ UNCHANGED <<tx_jobs, parents, scheduled, pushing, miners, solved, failed>>
    BY DEF JobTimeout, coroVars, minerVars
  <1>3. parents[j] = "none" /\ status[j] # "UNUSED"
    BY <1>1 DEF JobInv, FreshInv, Untouched
  <1>4. CASE Finished(j)
    <2>1. UNCHANGED <<status, tx_queue, cleanup_timer, current_job, miner_jobs, timed_out>>
      BY <1>4 DEF JobTimeout, workVars
    <2>2. ~Queued(j)
      BY <1>1, <1>4 DEF JobInv, QueuedInv, Finished, AfterMining
    <2>3. QueueShape'
      BY <1>2, <2>1, <2>2, QueueUntouched
    <2>4. ASSUME NEW k \in Jobs \ {j} PROVE Kept(k)
      BY <1>2, <2>1 DEF Kept, Queued
    <2>5. JobInv(j)'
      BY <1>1, <1>2, <1>3, <1>4, <2>1, <2>2
         DEF JobInv, FreshInv, QueuedInv, CountInv, RegistryInv, Queued, Finished, Registered
    <2> QED BY <2>3, <2>4, <2>5, StepIsEnough DEF OthersKept
  <1>5. CASE ~Finished(j)
    <2>1. /\ timed_out' = [timed_out EXCEPT ![j] = @ + 1]
          /\ tx_queue' = Without(tx_queue, j)
          /\ status' = MarkMining(st, Workers(j), Without(tx_queue, j))
          /\ UpdateMinerJobs(Workers(j), Without(tx_queue, j))
          /\ cleanup_timer' = cleanup_timer \cup {j}
      BY <1>5 DEF JobTimeout
    <2>2. /\ st \in [Jobs -> Status] /\ st[j] = "TIMEOUT"
          /\ \A k \in Jobs \ {j} : st[k] = status[k]
      BY <1>1 DEF TypeOK, Status, AfterMining
    <2>3. /\ timed_out'[j] = timed_out[j] + 1
          /\ \A k \in Jobs \ {j} : timed_out'[k] = timed_out[k]
      BY <1>1, <2>1 DEF TypeOK
    <2> HIDE DEF st
    <2>4. /\ QueueShape' /\ ~Queued(j)' /\ status'[j] = "TIMEOUT"
          /\ \A k \in Jobs \ {j} :
               /\ status'[k] = status[k] \/ (Queued(k) /\ status'[k] = "MINING")
               /\ Queued(k)' <=> Queued(k)
               /\ \A m \in Miners : k \in miner_jobs'[m] => k \in miner_jobs[m] \/ Queued(k)
      BY <1>2, <2>1, <2>2, LeaveQueue
    <2>5. ASSUME NEW k \in Jobs \ {j} PROVE Kept(k)
      BY <1>2, <2>1, <2>3, <2>4 DEF Kept
    <2>6. failed[j] + timed_out[j] = 0 /\ solved[j] = 0
      BY <1>1, <1>5, JobTypes DEF JobInv, CountInv, Finished, AfterMining
    <2>7. JobInv(j)'
      BY <1>1, <1>2, <1>3, <2>1, <2>3, <2>4, <2>6, JobTypes
         DEF JobInv, FreshInv, QueuedInv, CountInv, RegistryInv, Finished, Registered, AfterMining
    <2> QED BY <2>4, <2>5, <2>7, StepIsEnough DEF OthersKept
  <1> QED BY <1>4, <1>5

\* The clean-up fires: timers and registration go together.
LEMMA CleanUpStep ==
    ASSUME IInv, [Next]_vars, NEW j \in Jobs, CleanUp(j)
    PROVE  IInv' /\ OthersKept(j)
  <1>1. TypeOK /\ JobInv(j) /\ j \in cleanup_timer
    BY DEF IInv, CleanUp
  <1>2. /\ cleanup_timer' = cleanup_timer \ {j}
        /\ \/ tx_jobs' = [tx_jobs EXCEPT ![Uuid[j]] = None] /\ timeout_timer' = timeout_timer \ {j}
           \/ tx_jobs[Uuid[j]] = None /\ tx_jobs' = tx_jobs /\ timeout_timer' = timeout_timer
        /\ UNCHANGED <<status, tx_queue, parents, scheduled, pushing, current_job, miner_jobs,
                       miners, solved, failed, timed_out>>
    BY DEF CleanUp, coroVars, workVars, minerVars, eventVars
  <1>3. parents[j] = "none" /\ status[j] # "UNUSED" /\ ~Queued(j)
    BY <1>1 DEF JobInv, FreshInv, QueuedInv, Untouched
  <1>4. /\ ~Registered(j)'
        /\ \A k \in Jobs, t \in Txs : tx_jobs'[t] = k => tx_jobs[t] = k
    <2>1. Uuid[j] \in Txs /\ tx_jobs \in [Txs -> Jobs \cup {None}] /\ None \notin Jobs
      BY JobsAssumption, SentinelsAssumption DEF IInv, TypeOK
    <2>2. \A t \in Txs : tx_jobs'[t] = tx_jobs[t] \/ tx_jobs'[t] = None
      BY <1>2, <2>1
    <2>3. tx_jobs'[Uuid[j]] = None
      BY <1>2, <2>1
    <2> QED BY <2>1, <2>2, <2>3 DEF Registered
  <1>5. QueueShape'
    BY <1>2, <1>3, QueueUntouched
  <1>6. ASSUME NEW k \in Jobs \ {j} PROVE Kept(k)
    BY <1>2, <1>4 DEF Kept, Queued
  <1>7. JobInv(j)'
    BY <1>1, <1>2, <1>3, <1>4
       DEF JobInv, FreshInv, QueuedInv, CountInv, RegistryInv, Queued, Finished
  <1> QED BY <1>5, <1>6, <1>7, StepIsEnough DEF OthersKept

\* Steps of miners and of the block template keep every job.
LEMMA MinersStep ==
    ASSUME IInv, [Next]_vars, NEW m,
           \/ MinerReady(m) \/ MinerLost(m) \/ RefreshJob(m) \/ UpdateMinerJob(m)
           \/ TemplateArrives \/ TemplateLost \/ RefuseNewJobs \/ UNCHANGED vars
    PROVE  IInv' /\ \A k \in Jobs : Kept(k)
  <1> USE DEF vars, jobVars, timerVars, coroVars, workVars, minerVars, envVars, eventVars
  <1>1. TypeOK /\ TypeOK'
    BY TypeOKStep DEF IInv
  <1>2. UNCHANGED <<tx_jobs, tx_queue, timeout_timer, cleanup_timer, parents, scheduled,
                    pushing, solved, failed, timed_out>>
    BY DEF MinerReady, MinerLost, RefreshJob, UpdateMinerJob, TemplateArrives, TemplateLost,
           RefuseNewJobs
  <1> DEFINE served(ms) == /\ UpdateMinerJobs(ms, tx_queue)
                           /\ status' = MarkMining(status, ms, tx_queue)
                           /\ miners' \subseteq miners \cup ms
             quiet == /\ status' = status /\ miners' \subseteq miners
                      /\ \A n \in miners' : current_job'[n] = current_job[n]
                      /\ \A n \in Miners : miner_jobs'[n] \subseteq miner_jobs[n]
  <1>3. (\E ms : served(ms)) \/ quiet
    <2>1. CASE MinerReady(m)
      BY <2>1 DEF MinerReady
    <2>2. CASE MinerLost(m)
      <3>1. /\ status' = status /\ miners' = miners \ {m}
            /\ current_job' = [current_job EXCEPT ![m] = None]
            /\ miner_jobs' = [miner_jobs EXCEPT ![m] = {}]
        BY <2>2 DEF MinerLost
      <3> QED BY <1>1, <3>1 DEF TypeOK
    <2>3. CASE RefreshJob(m)
      BY <2>3 DEF RefreshJob
    <2>4. CASE UpdateMinerJob(m)
      BY <2>4 DEF UpdateMinerJob
    <2>5. CASE TemplateArrives
      BY <2>5 DEF TemplateArrives
    <2>6. CASE TemplateLost \/ RefuseNewJobs
      BY <2>6 DEF TemplateLost, RefuseNewJobs
    <2>7. CASE UNCHANGED vars
      BY <2>7
    <2> QED BY <2>1, <2>2, <2>3, <2>4, <2>5, <2>6, <2>7
  <1>4. ASSUME NEW ms, served(ms) PROVE IInv' /\ \A k \in Jobs : Kept(k)
    <2>1. miners' \subseteq Miners
      BY <1>1 DEF TypeOK
    <2>2. /\ QueueShape'
          /\ \A k \in Jobs :
               /\ status'[k] = status[k] \/ (Queued(k) /\ status'[k] = "MINING")
               /\ Queued(k)' <=> Queued(k)
               /\ \A n \in Miners : k \in miner_jobs'[n] => k \in miner_jobs[n] \/ Queued(k)
      BY <1>2, <1>4, <2>1, ServeMiners
    <2>3. ASSUME NEW k \in Jobs PROVE JobInv(k)' /\ Kept(k)
      <3>1. Kept(k)
        BY <1>2, <2>2 DEF Kept
      <3> QED BY <1>1, <3>1, KeptJobs DEF IInv
    <2> QED BY <1>1, <2>2, <2>3 DEF IInv
  <1>5. CASE quiet
    <2>1. QueueShape'
      BY <1>2, <1>5 DEF IInv, QueueShape, OnlyHeadIsMining, MinersOnHead
    <2>2. ASSUME NEW k \in Jobs PROVE JobInv(k)' /\ Kept(k)
      <3>1. Kept(k)
        BY <1>2, <1>5 DEF Kept, Queued
      <3> QED BY <1>1, <3>1, KeptJobs DEF IInv
    <2> QED BY <1>1, <2>1, <2>2 DEF IInv
  <1> QED BY <1>3, <1>4, <1>5

\* A miner submits: only a coroutine is scheduled.
LEMMA SubmitSolutionStep ==
    ASSUME IInv, [Next]_vars, NEW m \in Miners, NEW j \in Jobs, SubmitSolution(m, j)
    PROVE  IInv' /\ OthersKept(j)
  <1>1. TypeOK /\ JobInv(j) /\ j \in miner_jobs[m]
    BY DEF IInv, SubmitSolution
  <1>2. /\ scheduled' = [scheduled EXCEPT ![j] = @ + 1]
        /\ UNCHANGED <<status, tx_jobs, tx_queue, timeout_timer, cleanup_timer, parents, pushing,
                       current_job, miner_jobs, miners, solved, failed, timed_out>>
    BY DEF SubmitSolution, jobVars, timerVars, workVars, minerVars, eventVars
  <1>3. \A k \in Jobs \ {j} : scheduled'[k] = scheduled[k]
    BY <1>1, <1>2 DEF TypeOK
  <1>4. parents[j] = "none" /\ status[j] # "UNUSED"
    BY <1>1 DEF JobInv, FreshInv, Untouched
  <1>5. QueueShape'
    BY <1>2 DEF IInv, QueueShape, OnlyHeadIsMining, MinersOnHead
  <1>6. ASSUME NEW k \in Jobs \ {j} PROVE Kept(k)
    BY <1>2, <1>3 DEF Kept, Queued
  <1>7. JobInv(j)'
    BY <1>1, <1>2, <1>4
       DEF JobInv, FreshInv, QueuedInv, CountInv, RegistryInv, Queued, Finished, Registered
  <1> QED BY <1>5, <1>6, <1>7, StepIsEnough DEF OthersKept
-----------------------------------------------------------------------------
(* The inductive invariant and what follows from it.                       *)

\* The inductive invariant holds at the start.
LEMMA IInvInit == Init => IInv
  <1> SUFFICES ASSUME Init PROVE IInv
    OBVIOUS
  <1>1. TypeOK
    BY TypeOKInit
  <1>2. Range(tx_queue) = {} /\ IsInjective(tx_queue) /\ Len(tx_queue) = 0
    BY DEF Init, Range, IsInjective
  <1>3. ASSUME NEW j \in Jobs PROVE JobInv(j)
    <2>1. \A t \in Txs : tx_jobs[t] # j
      BY SentinelsAssumption DEF Init
    <2>2. ~Registered(j)
      BY <2>1, JobsAssumption DEF Registered
    <2> QED BY <1>2, <2>1, <2>2 DEF Init, JobInv, FreshInv, QueuedInv, CountInv, RegistryInv,
                                    Untouched, Queued, Finished, AfterMining
  <1> QED BY <1>1, <1>2, <1>3 DEF Init, IInv, QueueShape, OnlyHeadIsMining, MinersOnHead

\* Every step keeps the inductive invariant.
LEMMA IInvStep == IInv /\ [Next]_vars => IInv'
  <1> SUFFICES ASSUME IInv, [Next]_vars PROVE IInv'
    OBVIOUS
  <1>1. ASSUME NEW j \in Jobs, JobStep(j) PROVE IInv'
    BY <1>1, AddJobStep, AddParentsStartStep, AddParentsOkStep, AddParentsFailStep,
       CancelJobStep, RunSolutionStep, PushStep, JobTimeoutStep, CleanUpStep DEF JobStep
  <1>2. ASSUME NEW m \in Miners, MinerStep(m) PROVE IInv'
    BY <1>2, MinersStep, SubmitSolutionStep DEF MinerStep
  <1>3. ASSUME TemplateArrives \/ TemplateLost \/ RefuseNewJobs \/ UNCHANGED vars PROVE IInv'
    BY <1>3, MinersStep
  <1> QED BY <1>1, <1>2, <1>3 DEF Next

\* The inductive invariant holds for ever.
THEOREM IInvHolds == Spec => []IInv
  <1>1. Init => IInv
    BY IInvInit
  <1>2. IInv /\ [Next]_vars => IInv'
    BY IInvStep
  <1> QED BY <1>1, <1>2, PTL DEF Spec

\* No job waits twice and the assertions of get_best_job and enqueue_tx_job
\* never fail, however late a coroutine, a timer or a solution comes.
THEOREM QueueAssertionsHold == Spec => []QueueAssertions
  <1>1. IInv => QueueAssertions
    BY DEF IInv, QueueShape, JobInv, FreshInv, QueuedInv, QueueAssertions
  <1> QED BY <1>1, IInvHolds, PTL

\* One transaction is mined at a time, in the order of the queue.
THEOREM OneJobIsMined == Spec => []OnlyHeadIsMining
  <1>1. IInv => OnlyHeadIsMining
    BY DEF IInv, QueueShape
  <1> QED BY <1>1, IInvHolds, PTL

\* While a transaction waits, the whole fleet works on the head of the queue.
THEOREM FleetOnHead == Spec => []MinersOnHead
  <1>1. IInv => MinersOnHead
    BY DEF IInv, QueueShape
  <1> QED BY <1>1, IInvHolds, PTL

\* No job fails or times out twice, in the events and so in the metrics.
THEOREM FailuresAreCountedOnce == Spec => []FailureCountedOnce
  <1>1. IInv => FailureCountedOnce
    BY DEF IInv, JobInv, CountInv, FailureCountedOnce
  <1> QED BY <1>1, IInvHolds, PTL

\* A job reads DONE exactly when a solution of it was announced.
THEOREM DoneMeansAnnounced == Spec => []DoneIsAnnounced
  <1>1. IInv => DoneIsAnnounced
    BY DEF IInv, JobInv, CountInv, DoneIsAnnounced
  <1> QED BY <1>1, IInvHolds, PTL

\* Neither a queued nor a registered job is ever left without the timer, or
\* the coroutine, that will end it.
THEOREM TimersAlwaysCover == Spec => []TimersCover
  <1>1. IInv => TimersCover
    BY DEF IInv, JobInv, QueuedInv, RegistryInv, TimersCover
  <1> QED BY <1>1, IInvHolds, PTL
-----------------------------------------------------------------------------
(* End states.                                                             *)

\* Whoever is served, get_best_job leaves a job that has ended alone.
LEMMA MarkingSparesEnded ==
    ASSUME IInv, NEW q \in Seq(Jobs), Range(q) \subseteq Range(tx_queue),
           NEW st \in [Jobs -> Status], NEW ms, NEW k \in Jobs, Finished(k)
    PROVE  MarkMining(st, ms, q)[k] = st[k]
  <1>1. k \notin Range(q)
    BY DEF IInv, JobInv, QueuedInv, Queued, Finished, AfterMining
  <1> QED BY <1>1, MarkMiningChangesHead

\* What one step may do to the job that has ended.
EndStateKept(k) ==
    /\ status[k] = "DONE" => status'[k] = "DONE"
    /\ status[k] \in {"FAILED", "TIMEOUT"} => status'[k] \in {status[k], "DONE"}

\* Every step leaves end states as EndStatesHold says.
LEMMA EndStatesStep ==
    ASSUME IInv, [Next]_vars, NEW k \in Jobs
    PROVE  EndStateKept(k)
  <1> SUFFICES ASSUME status[k] \in {"DONE", "FAILED", "TIMEOUT"}
               PROVE  status'[k] \in {status[k], "DONE"}
    BY DEF EndStateKept
  <1>1. /\ TypeOK /\ status \in [Jobs -> Status] /\ tx_queue \in Seq(Jobs)
        /\ IsInjective(tx_queue) /\ Finished(k)
        /\ parents[k] = "none" /\ status[k] # "UNUSED" /\ ~Queued(k)
    BY DEF IInv, TypeOK, QueueShape, JobInv, FreshInv, QueuedInv, Finished, AfterMining
  <1>2. ASSUME NEW st \in [Jobs -> Status], NEW ms PROVE MarkMining(st, ms, tx_queue)[k] = st[k]
    BY <1>1, MarkingSparesEnded
  <1>3. ASSUME NEW st \in [Jobs -> Status], NEW ms, NEW j \in Jobs
        PROVE  MarkMining(st, ms, Without(tx_queue, j))[k] = st[k]
    <2>1. /\ Without(tx_queue, j) \in Seq(Jobs)
          /\ Range(Without(tx_queue, j)) = Range(tx_queue) \ {j}
      BY <1>1, WithoutProperties
    <2> QED BY <1>1, <2>1, MarkingSparesEnded
  <1>4. ASSUME NEW j \in Jobs, NEW x \in Status
        PROVE  /\ [status EXCEPT ![j] = x] \in [Jobs -> Status]
               /\ j # k => [status EXCEPT ![j] = x][k] = status[k]
    BY <1>1
  <1>5. {"ENQUEUED", "CANCELLED", "TIMEOUT", "DONE"} \subseteq Status
    BY DEF Status, BeforeMining, AfterMining
  <1>6. ASSUME NEW j \in Jobs \ {k}, NEW armed, Enqueue(j, armed)
        PROVE  status'[k] = status[k]
    <2>1. PICK ms : status' = MarkMining([status EXCEPT ![j] = "ENQUEUED"], ms, Append(tx_queue, j))
      BY <1>6 DEF Enqueue
    <2>2. Append(tx_queue, j) \in Seq(Jobs) /\ k \notin Range(Append(tx_queue, j))
      BY <1>1, AppendNewcomer DEF Queued
    <2>3. /\ [status EXCEPT ![j] = "ENQUEUED"] \in [Jobs -> Status]
          /\ [status EXCEPT ![j] = "ENQUEUED"][k] = status[k]
      BY <1>4, <1>5
    <2>4. ASSUME NEW st \in [Jobs -> Status], NEW q \in Seq(Jobs), k \notin Range(q)
          PROVE  MarkMining(st, ms, q)[k] = st[k]
      BY <2>4, MarkMiningChangesHead
    <2> QED BY <2>1, <2>2, <2>3, <2>4
  <1>7. ASSUME NEW j \in Jobs, AddJob(j) \/ AddParentsStart(j) \/ AddParentsOk(j) \/ AddParentsFail(j)
        PROVE  status'[k] = status[k]
    <2>1. j # k
      BY <1>1, <1>7 DEF AddJob, AddParentsStart, AddParentsOk, AddParentsFail
    <2>2. \/ \E armed : Enqueue(j, armed)
          \/ \E x \in {"PENDING", "GETTING_PARENTS", "FAILED"} : status' = [status EXCEPT ![j] = x]
      BY <1>7 DEF AddJob, AddParentsStart, AddParentsOk, AddParentsFail
    <2> QED BY <1>1, <1>6, <2>1, <2>2
  <1>8. ASSUME NEW j \in Jobs, CancelJob(j) PROVE status'[k] = status[k]
    <2>1. j # k
      BY <1>1, <1>8 DEF CancelJob
    <2>2. \/ status' = [status EXCEPT ![j] = "CANCELLED"]
          \/ status' = MarkMining([status EXCEPT ![j] = "CANCELLED"], Workers(j),
                                  Without(tx_queue, j))
      BY <1>8 DEF CancelJob
    <2> QED BY <1>3, <1>4, <1>5, <2>1, <2>2
  <1>9. ASSUME NEW j \in Jobs, RunSolution(j) PROVE status'[k] \in {status[k], "DONE"}
    <2> DEFINE moved == MarkMining(status, Workers(j), Without(tx_queue, j))
    <2>1. moved \in [Jobs -> Status] /\ moved[k] = status[k]
      BY <1>1, <1>3, MarkMiningChangesHead, WithoutIsTyped
    <2>2. status' \in {status, moved, [moved EXCEPT ![j] = "DONE"]}
      BY <1>9 DEF RunSolution
    <2> HIDE DEF moved
    <2> QED BY <2>1, <2>2
  <1>10. ASSUME NEW j \in Jobs, PushOk(j) \/ PushFailed(j) \/ PushError(j)
         PROVE  status'[k] \in {status[k], "DONE"}
    <2>1. \/ status' = [status EXCEPT ![j] = "DONE"]
          \/ j # k /\ status' = [status EXCEPT ![j] = "FAILED"]
          \/ status' = status
      BY <1>1, <1>10 DEF PushOk, PushFailed, PushError
    <2> QED BY <1>1, <2>1
  <1>11. ASSUME NEW j \in Jobs, JobTimeout(j) PROVE status'[k] = status[k]
    <2>1. \/ status' = status
          \/ /\ j # k
             /\ status' = MarkMining([status EXCEPT ![j] = "TIMEOUT"], Workers(j),
                                     Without(tx_queue, j))
      BY <1>1, <1>11 DEF JobTimeout
    <2> QED BY <1>3, <1>4, <1>5, <2>1
  <1>12. ASSUME \/ \E j \in Jobs : CleanUp(j)
                \/ \E m \in Miners : MinerStep(m)
                \/ TemplateArrives \/ TemplateLost \/ RefuseNewJobs \/ UNCHANGED vars
         PROVE  status'[k] = status[k]
    <2>1. status' = status \/ \E ms : status' = MarkMining(status, ms, tx_queue)
      BY <1>12 DEF CleanUp, MinerStep, MinerReady, MinerLost, RefreshJob, UpdateMinerJob,
                   SubmitSolution, TemplateArrives, TemplateLost, RefuseNewJobs, vars, jobVars
    <2> QED BY <1>1, <1>2, <2>1
  <1> QED BY <1>7, <1>8, <1>9, <1>10, <1>11, <1>12 DEF Next, JobStep

\* DONE is final; a failure or a timeout only gives way to DONE.
THEOREM EndStatesAreKept == Spec => EndStatesHold
  <1>1. IInv /\ [Next]_vars => [\A j \in Jobs :
            /\ status[j] = "DONE" => status'[j] = "DONE"
            /\ status[j] \in {"FAILED", "TIMEOUT"} => status'[j] \in {status[j], "DONE"}]_vars
    BY EndStatesStep DEF EndStateKept
  <1> QED BY <1>1, IInvHolds, PTL DEF Spec, EndStatesHold
-----------------------------------------------------------------------------
(* The manager implements FifoFleet.                                       *)

\* What every miner works on is what FifoFleet says.
LEMMA WorkingIsGathered ==
    ASSUME IInv
    PROVE  [m \in Miners |-> IF m \in miners /\ tx_queue # <<>> THEN current_job[m] ELSE None]
              = Fleet!Gather(tx_queue, miners)
  BY DEF IInv, QueueShape, MinersOnHead, Fleet!Gather, Fleet!HeadOf

\* A step adds or removes one job, or one miner, or neither.
LEMMA OneThingMoves ==
    ASSUME IInv, [Next]_vars
    PROVE  \/ \E j \in Jobs : /\ miners' = miners
                              /\ \/ ~Queued(j) /\ tx_queue' = Append(tx_queue, j)
                                 \/ Queued(j) /\ tx_queue' = Without(tx_queue, j)
           \/ \E m \in Miners : /\ tx_queue' = tx_queue
                                /\ \/ m \notin miners /\ miners' = miners \cup {m}
                                   \/ m \in miners /\ miners' = miners \ {m}
           \/ tx_queue' = tx_queue /\ miners' = miners
  <1> USE DEF jobVars, minerVars
  <1>1. \A j \in Jobs : ~Queued(j) => Without(tx_queue, j) = tx_queue
    BY DEF Queued, Without
  <1>2. ASSUME NEW j \in Jobs, AddJob(j) \/ AddParentsOk(j)
        PROVE  /\ miners' = miners
               /\ tx_queue' = tx_queue \/ (~Queued(j) /\ tx_queue' = Append(tx_queue, j))
    <2>1. status[j] = "UNUSED" \/ parents[j] # "none"
      BY <1>2 DEF AddJob, AddParentsOk
    <2>2. ~Queued(j)
      BY <2>1 DEF IInv, JobInv, FreshInv
    <2> QED BY <1>2, <2>2 DEF AddJob, AddParentsOk, Enqueue
  <1>3. ASSUME NEW j \in Jobs, CancelJob(j) \/ RunSolution(j) \/ JobTimeout(j)
        PROVE  /\ miners' = miners
               /\ tx_queue' = tx_queue \/ tx_queue' = Without(tx_queue, j)
    BY <1>3 DEF CancelJob, RunSolution, JobTimeout
  <1>4. ASSUME NEW j \in Jobs, \/ AddParentsStart(j) \/ AddParentsFail(j) \/ PushOk(j)
                               \/ PushFailed(j) \/ PushError(j) \/ CleanUp(j)
        PROVE  tx_queue' = tx_queue /\ miners' = miners
    BY <1>4 DEF AddParentsStart, AddParentsFail, PushOk, PushFailed, PushError, PushEnds, CleanUp
  <1>5. ASSUME NEW m \in Miners, MinerStep(m)
        PROVE  /\ tx_queue' = tx_queue
               /\ miners' = miners \/ (m \notin miners /\ miners' = miners \cup {m})
                                   \/ (m \in miners /\ miners' = miners \ {m})
    BY <1>5 DEF MinerStep, MinerReady, MinerLost, RefreshJob, UpdateMinerJob, SubmitSolution
  <1>6. ASSUME TemplateArrives \/ TemplateLost \/ RefuseNewJobs \/ UNCHANGED vars
        PROVE  tx_queue' = tx_queue /\ miners' = miners
    BY <1>6 DEF TemplateArrives, TemplateLost, RefuseNewJobs, vars
  <1> QED BY <1>1, <1>2, <1>3, <1>4, <1>5, <1>6 DEF Next, JobStep

\* The queue is first come, first served and the whole fleet works on its
\* head: the manager is an implementation of FifoFleet.
THEOREM ManagerImplementsFleet == Spec => FleetSpec
  <1>1. Init => Fleet!Init
    BY DEF Init, Fleet!Init, Fleet!Gather
  <1>2. IInv /\ IInv' /\ [Next]_vars => [Fleet!Next]_(Fleet!vars)
    <2> SUFFICES ASSUME IInv, IInv', [Next]_vars PROVE [Fleet!Next]_(Fleet!vars)
      OBVIOUS
    <2> DEFINE work == [m \in Miners |-> IF m \in miners /\ tx_queue # <<>>
                                          THEN current_job[m] ELSE None]
    <2>1. work = Fleet!Gather(tx_queue, miners)
      BY WorkingIsGathered
    <2>2. work' = Fleet!Gather(tx_queue', miners')
      <3>1. IInv' => work' = Fleet!Gather(tx_queue', miners')
        BY DEF IInv, QueueShape, MinersOnHead, Fleet!Gather, Fleet!HeadOf
      <3> QED BY <3>1
    <2>3. \A j \in Jobs : /\ Fleet!Without(tx_queue, j) = Without(tx_queue, j)
                          /\ j \in Fleet!Range(tx_queue) <=> Queued(j)
      BY DEF Fleet!Without, Fleet!FirstIndex, Fleet!Range, Without, FirstIndex, Range, Queued
    <2> HIDE DEF work
    <2>4. ASSUME NEW j \in Jobs, miners' = miners,
                 \/ ~Queued(j) /\ tx_queue' = Append(tx_queue, j)
                 \/ Queued(j) /\ tx_queue' = Without(tx_queue, j)
          PROVE  Fleet!Arrive(j) \/ Fleet!Leave(j)
      BY <2>2, <2>3, <2>4 DEF Fleet!Arrive, Fleet!Leave, work
    <2>5. ASSUME NEW m \in Miners, tx_queue' = tx_queue,
                 \/ m \notin miners /\ miners' = miners \cup {m}
                 \/ m \in miners /\ miners' = miners \ {m}
          PROVE  Fleet!Join(m) \/ Fleet!Part(m)
      BY <2>2, <2>5 DEF Fleet!Join, Fleet!Part, work
    <2>6. ASSUME tx_queue' = tx_queue, miners' = miners
          PROVE  UNCHANGED Fleet!vars
      BY <2>1, <2>2, <2>6 DEF Fleet!vars, work
    <2> QED BY <2>4, <2>5, <2>6, OneThingMoves DEF Fleet!Next
  <1> QED BY <1>1, <1>2, IInvHolds, PTL DEF Spec, FleetSpec, Fleet!Spec
-----------------------------------------------------------------------------
(* Nobody overtakes.                                                       *)

\* Job i waits before job j in the queue q.
Ahead(q, i, j) == \E a, b \in 1..Len(q) : a < b /\ q[a] = i /\ q[b] = j

\* A job that waits behind another, or comes after it, stays behind it until
\* one of them leaves the queue.
NoOvertaking ==
    [][\A i, j \in Jobs :
         Queued(i)' /\ Queued(j)' /\ i # j /\ Queued(i) /\ (Queued(j) => Ahead(tx_queue, i, j))
           => Ahead(tx_queue', i, j)]_vars

\* A miner is not taken off a transaction that still waits to be mined.
MinersKeepTheirJob ==
    [][\A m \in miners :
         m \in miners' /\ current_job[m] \in Range(tx_queue) \cap Range(tx_queue')
           => current_job'[m] = current_job[m]]_vars

\* deque.remove lets nobody overtake.
LEMMA WithoutKeepsOrder ==
    ASSUME NEW S, NEW q \in Seq(S), NEW x, IsInjective(q), NEW i, NEW j, i # x, j # x,
           Ahead(q, i, j)
    PROVE  Ahead(Without(q, x), i, j)
  <1>1. CASE x \notin Range(q)
    BY <1>1 DEF Without
  <1>2. CASE x \in Range(q)
    <2> DEFINE f == FirstIndex(q, x)
               w == Without(q, x)
               at(n) == IF n < f THEN n ELSE n - 1
    <2>1. f \in 1..Len(q) /\ q[f] = x
      BY <1>2, FirstIndexIsAPlace
    <2>2. /\ Len(w) = Len(q) - 1
          /\ \A k \in 1..(Len(q) - 1) : w[k] = IF k < f THEN q[k] ELSE q[k + 1]
      BY <1>2, WithoutElements
    <2> HIDE DEF f, w
    <2>3. PICK a, b \in 1..Len(q) : a < b /\ q[a] = i /\ q[b] = j
      BY DEF Ahead
    <2>4. ASSUME NEW n \in 1..Len(q), n # f
          PROVE  at(n) \in 1..Len(w) /\ w[at(n)] = q[n]
      <3>1. CASE n < f
        BY <2>1, <2>2, <3>1
      <3>2. CASE n > f
        <4>1. n - 1 \in 1..(Len(q) - 1) /\ ~(n - 1 < f) /\ (n - 1) + 1 = n
          BY <2>1, <3>2
        <4>2. w[n - 1] = q[n]
          BY <2>2, <4>1
        <4>3. at(n) = n - 1
          BY <2>1, <3>2
        <4> QED BY <2>2, <4>1, <4>2, <4>3
      <3> QED BY <2>1, <2>4, <3>1, <3>2
    <2>5. a # f /\ b # f
      BY <2>1, <2>3
    <2>6. at(a) < at(b)
      BY <2>1, <2>3, <2>5
    <2> QED BY <2>3, <2>4, <2>5, <2>6 DEF Ahead, w
  <1> QED BY <1>1, <1>2

\* enqueue_tx_job puts the newcomer behind everybody.
LEMMA AppendKeepsOrder ==
    ASSUME NEW S, NEW q \in Seq(S), NEW x \in S, NEW i \in Range(q), NEW j,
           Ahead(q, i, j) \/ j = x
    PROVE  Ahead(Append(q, x), i, j)
  <1>1. /\ Len(Append(q, x)) = Len(q) + 1 /\ Append(q, x)[Len(q) + 1] = x
        /\ \A k \in 1..Len(q) : Append(q, x)[k] = q[k]
    BY AppendNewcomer
  <1>2. PICK a \in 1..Len(q) : q[a] = i
    BY DEF Range
  <1>3. CASE Ahead(q, i, j)
    BY <1>1, <1>3 DEF Ahead
  <1>4. CASE j = x
    BY <1>1, <1>2, <1>4 DEF Ahead
  <1> QED BY <1>3, <1>4

\* First come, first served: whatever is cancelled, solved, timed out or added,
\* no job is put before one that waits already.
THEOREM NobodyOvertakes == Spec => NoOvertaking
  <1>1. IInv /\ [Next]_vars
          => [\A i, j \in Jobs :
                Queued(i)' /\ Queued(j)' /\ i # j /\ Queued(i)
                  /\ (Queued(j) => Ahead(tx_queue, i, j)) => Ahead(tx_queue', i, j)]_vars
    <2> SUFFICES ASSUME IInv, [Next]_vars, NEW i \in Jobs, NEW j \in Jobs,
                        Queued(i)', Queued(j)', i # j, Queued(i),
                        Queued(j) => Ahead(tx_queue, i, j)
                 PROVE  Ahead(tx_queue', i, j)
      OBVIOUS
    <2>1. tx_queue \in Seq(Jobs) /\ IsInjective(tx_queue)
      BY DEF IInv, TypeOK, QueueShape
    <2>2. CASE tx_queue' = tx_queue
      BY <2>2 DEF Queued
    <2>3. ASSUME NEW k \in Jobs, ~Queued(k), tx_queue' = Append(tx_queue, k)
          PROVE  Ahead(tx_queue', i, j)
      <3>1. Queued(j) \/ j = k
        BY <2>1, <2>3, AppendNewcomer DEF Queued
      <3> QED BY <2>1, <2>3, <3>1, AppendKeepsOrder DEF Queued
    <2>4. ASSUME NEW k \in Jobs, tx_queue' = Without(tx_queue, k)
          PROVE  Ahead(tx_queue', i, j)
      <3>1. Range(tx_queue') = Range(tx_queue) \ {k}
        BY <2>1, <2>4, WithoutProperties
      <3>2. i # k /\ j # k /\ Queued(j)
        BY <3>1 DEF Queued
      <3> QED BY <2>1, <2>4, <3>2, WithoutKeepsOrder
    <2> QED BY <2>2, <2>3, <2>4, OneThingMoves
  <1> QED BY <1>1, IInvHolds, PTL DEF Spec, NoOvertaking

\* What update_miner_job, stop_mining_tx and the templates do never takes a
\* miner off the job that is being mined.
THEOREM MinersKeepTheirJobs == Spec => MinersKeepTheirJob
  <1>1. IInv /\ IInv' /\ [Next]_vars
          => [\A m \in miners :
                m \in miners' /\ current_job[m] \in Range(tx_queue) \cap Range(tx_queue')
                  => current_job'[m] = current_job[m]]_vars
    <2> SUFFICES ASSUME IInv, IInv', [Next]_vars, NEW m \in miners, m \in miners',
                        current_job[m] \in Range(tx_queue), current_job[m] \in Range(tx_queue')
                 PROVE  current_job'[m] = current_job[m]
      OBVIOUS
    <2>1. tx_queue \in Seq(Jobs) /\ IsInjective(tx_queue) /\ MinersOnHead /\ MinersOnHead'
      BY DEF IInv, TypeOK, QueueShape
    <2>2. tx_queue # <<>> /\ tx_queue' # <<>>
      BY DEF Range
    <2>3. Head(tx_queue) \in Range(tx_queue')
      BY <2>1, <2>2 DEF MinersOnHead
    <2>4. current_job[m] = Head(tx_queue)
      BY <2>1, <2>2 DEF MinersOnHead
    <2>5. current_job'[m] = Head(tx_queue')
      BY <2>1, <2>2 DEF MinersOnHead
    <2>6. ASSUME NEW k \in Jobs, tx_queue' = Append(tx_queue, k)
          PROVE  Head(tx_queue') = Head(tx_queue)
      BY <2>1, <2>2, <2>6, AppendNewcomer
    <2>7. ASSUME NEW k \in Jobs, tx_queue' = Without(tx_queue, k)
          PROVE  Head(tx_queue') = Head(tx_queue)
      <3>1. Range(tx_queue') = Range(tx_queue) \ {k}
        BY <2>1, <2>7, WithoutProperties
      <3>2. Head(tx_queue) # k
        BY <2>2, <2>3, <3>1
      <3> QED BY <2>1, <2>2, <2>7, <3>2, WithoutProperties
    <2> QED BY <2>4, <2>5, <2>6, <2>7, OneThingMoves
  <1> QED BY <1>1, IInvHolds, PTL DEF Spec, MinersKeepTheirJob
-----------------------------------------------------------------------------
(* The manager implements JobRegistry: what clients see of a hash goes     *)
(* forward only, until it is forgotten.  To the invariant this adds that a *)
(* cancelled job is never registered (OnlyVisible).                        *)

\* What a client sees of hash t.
Seen(t) == IF tx_jobs[t] = None THEN None ELSE status[tx_jobs[t]]

\* A status stays as it is or goes forward.
Climbs(s, z) ==
    /\ s \in Registry!Visible /\ z \in Registry!Visible
    /\ z = s \/ Registry!Rank[s] < Registry!Rank[z]

\* Whatever is registered is visible.
OnlyVisible == \A t \in Txs : tx_jobs[t] # None => status[tx_jobs[t]] \in Registry!Visible

\* The ways in which the manager changes a status, but for cancellations.
LEMMA WaysToClimb ==
    /\ \A s \in Registry!Visible : Climbs(s, s) /\ Climbs(s, "DONE")
    /\ \A s \in BeforeMining : Climbs(s, "FAILED") /\ Climbs(s, "TIMEOUT") /\ Climbs(s, "MINING")
    /\ \A s \in {"PENDING", "GETTING_PARENTS"} :
         Climbs(s, "GETTING_PARENTS") /\ Climbs(s, "ENQUEUED")
  <1>1. /\ Registry!Visible = BeforeMining \cup {"FAILED", "TIMEOUT", "DONE"}
        /\ BeforeMining = {"PENDING", "GETTING_PARENTS", "ENQUEUED", "MINING"}
    BY DEF Registry!Visible, Registry!Live, Registry!Unhappy, BeforeMining
  <1>2. /\ Registry!Rank["PENDING"] = 0 /\ Registry!Rank["GETTING_PARENTS"] = 1
        /\ Registry!Rank["ENQUEUED"] = 2 /\ Registry!Rank["MINING"] = 3
        /\ Registry!Rank["FAILED"] = 4 /\ Registry!Rank["TIMEOUT"] = 4
        /\ Registry!Rank["DONE"] = 5
    BY <1>1 DEF Registry!Rank, Registry!Unhappy
  <1> QED BY <1>1, <1>2 DEF Climbs
-----------------------------------------------------------------------------
\* Every step moves the status of a job forward, but for its cancellation.
LEMMA StatusStep ==
    ASSUME IInv, [Next]_vars, NEW k \in Jobs, status[k] \in Registry!Visible, ~CancelJob(k)
    PROVE  Climbs(status[k], status'[k])
  <1>1. /\ TypeOK /\ status \in [Jobs -> Status] /\ tx_queue \in Seq(Jobs)
        /\ IsInjective(tx_queue)
        /\ Queued(k) => status[k] \in {"ENQUEUED", "MINING"}
        /\ parents[k] # "none" => status[k] \in {"PENDING", "GETTING_PARENTS", "CANCELLED"}
    BY DEF IInv, TypeOK, QueueShape, JobInv, FreshInv, QueuedInv
  <1>2. /\ status[k] # "UNUSED" /\ status[k] # "CANCELLED"
        /\ ~Finished(k) => status[k] \in BeforeMining
        /\ {"ENQUEUED", "MINING"} \subseteq BeforeMining
        /\ {"ENQUEUED", "CANCELLED", "TIMEOUT", "DONE", "FAILED"} \subseteq Status
    BY DEF Registry!Visible, Registry!Live, Registry!Unhappy, Finished, AfterMining,
           BeforeMining, Status
  <1>3. ASSUME NEW st \in [Jobs -> Status], NEW q \in Seq(Jobs), NEW ms, st[k] = status[k],
               k \in Range(q) => Queued(k)
        PROVE  Climbs(status[k], MarkMining(st, ms, q)[k])
    BY <1>1, <1>2, <1>3, MarkMiningChangesHead, WaysToClimb
  <1>4. ASSUME NEW j \in Jobs
        PROVE  /\ Without(tx_queue, j) \in Seq(Jobs)
               /\ Range(Without(tx_queue, j)) = Range(tx_queue) \ {j}
    BY <1>1, WithoutProperties
  <1>5. ASSUME NEW j \in Jobs, NEW x \in Status
        PROVE  /\ [status EXCEPT ![j] = x] \in [Jobs -> Status]
               /\ j # k => [status EXCEPT ![j] = x][k] = status[k]
               /\ j = k => [status EXCEPT ![j] = x][k] = x
    BY <1>1
  <1>6. ASSUME NEW j \in Jobs, NEW armed, Enqueue(j, armed), ~Queued(j),
               j = k => status[k] \in {"PENDING", "GETTING_PARENTS"}
        PROVE  Climbs(status[k], status'[k])
    <2> DEFINE st == [status EXCEPT ![j] = "ENQUEUED"]
               q == Append(tx_queue, j)
    <2>1. PICK ms : status' = MarkMining(st, ms, q)
      BY <1>6 DEF Enqueue
    <2>2. /\ q \in Seq(Jobs) /\ Range(q) = Range(tx_queue) \cup {j}
          /\ st \in [Jobs -> Status]
      BY <1>1, <1>2, <1>5, <1>6, AppendNewcomer DEF Queued
    <2>3. CASE j # k
      <3>1. st[k] = status[k] /\ (k \in Range(q) => Queued(k))
        BY <1>2, <1>5, <2>2, <2>3 DEF Queued
      <3> HIDE DEF st, q
      <3> QED BY <1>3, <2>1, <2>2, <3>1
    <2>4. CASE j = k
      <3>1. st[k] = "ENQUEUED"
        BY <1>2, <1>5, <2>4
      <3> HIDE DEF st, q
      <3>2. status'[k] \in {"ENQUEUED", "MINING"}
        BY <2>1, <2>2, <3>1, MarkMiningChangesHead
      <3>3. status[k] \in {"PENDING", "GETTING_PARENTS"} /\ status[k] \in BeforeMining
        BY <1>6, <2>4 DEF BeforeMining
      <3> QED BY <3>2, <3>3, WaysToClimb
    <2> QED BY <2>3, <2>4
  <1>7. ASSUME NEW j \in Jobs, AddJob(j) PROVE Climbs(status[k], status'[k])
    <2>1. j # k /\ ~Queued(j)
      BY <1>2, <1>7 DEF AddJob, IInv, JobInv, FreshInv
    <2>2. (\E armed : Enqueue(j, armed)) \/ status' = [status EXCEPT ![j] = "PENDING"]
      BY <1>7 DEF AddJob
    <2>3. "PENDING" \in Status
      BY DEF Status, BeforeMining
    <2> QED BY <1>5, <1>6, <2>1, <2>2, <2>3, WaysToClimb
  <1>8. ASSUME NEW j \in Jobs, AddParentsStart(j) \/ AddParentsOk(j) \/ AddParentsFail(j)
        PROVE  Climbs(status[k], status'[k])
    <2>1. parents[j] # "none" /\ ~Queued(j)
      BY <1>8 DEF AddParentsStart, AddParentsOk, AddParentsFail, IInv, JobInv, FreshInv
    <2>2. j = k => status[k] \in {"PENDING", "GETTING_PARENTS"} /\ status[k] \in BeforeMining
      BY <1>1, <1>2, <2>1 DEF BeforeMining
    <2>3. \/ \E armed : Enqueue(j, armed)
          \/ \E x \in {"GETTING_PARENTS", "FAILED"} : status' = [status EXCEPT ![j] = x]
      BY <1>8 DEF AddParentsStart, AddParentsOk, AddParentsFail
    <2>4. {"GETTING_PARENTS", "FAILED"} \subseteq Status
      BY DEF Status, BeforeMining, AfterMining
    <2>5. ASSUME NEW x \in {"GETTING_PARENTS", "FAILED"}, status' = [status EXCEPT ![j] = x]
          PROVE  Climbs(status[k], status'[k])
      <3>1. CASE j # k
        BY <1>5, <2>4, <2>5, <3>1, WaysToClimb
      <3>2. CASE j = k
        BY <1>5, <2>2, <2>4, <2>5, <3>2, WaysToClimb
      <3> QED BY <3>1, <3>2
    <2> QED BY <1>6, <2>1, <2>2, <2>3, <2>5
  <1>9. ASSUME NEW j \in Jobs, CancelJob(j) PROVE Climbs(status[k], status'[k])
    <2>1. j # k
      BY <1>9
    <2>2. \/ status' = [status EXCEPT ![j] = "CANCELLED"]
          \/ status' = MarkMining([status EXCEPT ![j] = "CANCELLED"], Workers(j),
                                  Without(tx_queue, j))
      BY <1>9 DEF CancelJob
    <2>3. k \in Range(Without(tx_queue, j)) => Queued(k)
      BY <1>4 DEF Queued
    <2>4. /\ [status EXCEPT ![j] = "CANCELLED"] \in [Jobs -> Status]
          /\ [status EXCEPT ![j] = "CANCELLED"][k] = status[k]
      BY <1>2, <1>5, <2>1
    <2>5. status' = [status EXCEPT ![j] = "CANCELLED"] => Climbs(status[k], status'[k])
      BY <2>4, WaysToClimb
    <2> QED BY <1>3, <1>4, <2>2, <2>3, <2>4, <2>5
  <1>10. ASSUME NEW j \in Jobs, RunSolution(j) PROVE Climbs(status[k], status'[k])
    <2> DEFINE moved == MarkMining(status, Workers(j), Without(tx_queue, j))
    <2>1. k \in Range(Without(tx_queue, j)) => Queued(k)
      BY <1>4 DEF Queued
    <2>2. moved \in [Jobs -> Status] /\ Climbs(status[k], moved[k])
      BY <1>1, <1>3, <1>4, <2>1, MarkMiningChangesHead
    <2>3. status' \in {status, moved, [moved EXCEPT ![j] = "DONE"]}
      BY <1>10 DEF RunSolution
    <2> HIDE DEF moved
    <2>4. status'[k] \in {status[k], moved[k], "DONE"}
      BY <2>2, <2>3
    <2> QED BY <2>2, <2>4, WaysToClimb
  <1>11. ASSUME NEW j \in Jobs, PushOk(j) \/ PushFailed(j) \/ PushError(j)
         PROVE  Climbs(status[k], status'[k])
    <2>1. \/ status' = [status EXCEPT ![j] = "DONE"]
          \/ ~Finished(j) /\ status' = [status EXCEPT ![j] = "FAILED"]
          \/ status' = status
      BY <1>11 DEF PushOk, PushFailed, PushError
    <2>2. status'[k] \in {status[k], "DONE"} \/ (~Finished(k) /\ status'[k] = "FAILED")
      BY <1>2, <1>5, <2>1
    <2> QED BY <1>2, <2>2, WaysToClimb
  <1>12. ASSUME NEW j \in Jobs, JobTimeout(j) PROVE Climbs(status[k], status'[k])
    <2> DEFINE st == [status EXCEPT ![j] = "TIMEOUT"]
               q == Without(tx_queue, j)
    <2>1. \/ status' = status
          \/ ~Finished(j) /\ status' = MarkMining(st, Workers(j), q)
      BY <1>12 DEF JobTimeout
    <2>2. st \in [Jobs -> Status] /\ q \in Seq(Jobs) /\ Range(q) = Range(tx_queue) \ {j}
      BY <1>2, <1>4, <1>5
    <2>3. CASE j # k
      <3>1. st[k] = status[k] /\ (k \in Range(q) => Queued(k))
        BY <1>2, <1>5, <2>2, <2>3 DEF Queued
      <3> HIDE DEF st, q
      <3> QED BY <1>3, <2>1, <2>2, <3>1, WaysToClimb
    <2>4. CASE j = k
      <3>1. st[k] = "TIMEOUT" /\ k \notin Range(q)
        BY <1>2, <1>5, <2>2, <2>4
      <3> HIDE DEF st, q
      <3>2. status'[k] = status[k] \/ (~Finished(k) /\ status'[k] = "TIMEOUT")
        BY <2>1, <2>2, <2>4, <3>1, MarkMiningChangesHead
      <3> QED BY <1>2, <3>2, WaysToClimb
    <2> QED BY <2>3, <2>4
  <1>13. ASSUME \/ \E j \in Jobs : CleanUp(j)
                \/ \E m \in Miners : MinerStep(m)
                \/ TemplateArrives \/ TemplateLost \/ RefuseNewJobs \/ UNCHANGED vars
         PROVE  Climbs(status[k], status'[k])
    <2>1. status' = status \/ \E ms : status' = MarkMining(status, ms, tx_queue)
      BY <1>13 DEF CleanUp, MinerStep, MinerReady, MinerLost, RefreshJob, UpdateMinerJob,
                   SubmitSolution, TemplateArrives, TemplateLost, RefuseNewJobs, vars, jobVars
    <2> QED BY <1>1, <1>3, <2>1, WaysToClimb DEF Queued
  <1> QED BY <1>7, <1>8, <1>9, <1>10, <1>11, <1>12, <1>13 DEF Next, JobStep
-----------------------------------------------------------------------------
\* What one step may do to the registration of a hash: nothing (and then its
\* job is not the one that was cancelled), forget it, or register a new job.
LEMMA RegistrationStep ==
    ASSUME IInv, [Next]_vars, NEW t \in Txs
    PROVE  \/ tx_jobs'[t] = tx_jobs[t] /\ (tx_jobs[t] # None => ~CancelJob(tx_jobs[t]))
           \/ tx_jobs'[t] = None
           \/ /\ tx_jobs[t] # None => status[tx_jobs[t]] = "TIMEOUT"
              /\ tx_jobs'[t] \in Jobs
              /\ status'[tx_jobs'[t]] \in Registry!Fresh
  <1>1. /\ TypeOK /\ tx_jobs \in [Txs -> Jobs \cup {None}] /\ status \in [Jobs -> Status]
        /\ tx_queue \in Seq(Jobs) /\ None \notin Jobs
        /\ \A j \in Jobs : /\ Uuid[j] \in Txs
                           /\ tx_jobs[t] = j => t = Uuid[j]
    BY JobsAssumption, SentinelsAssumption DEF IInv, TypeOK, JobInv, RegistryInv
  <1>2. ASSUME NEW j \in Jobs, CancelJob(j)
        PROVE  \/ tx_jobs'[t] = None
               \/ tx_jobs'[t] = tx_jobs[t] /\ (tx_jobs[t] # None => ~CancelJob(tx_jobs[t]))
    <2>1. tx_jobs' = [tx_jobs EXCEPT ![Uuid[j]] = None]
      BY <1>2 DEF CancelJob
    <2>2. ASSUME tx_jobs[t] # None, CancelJob(tx_jobs[t]) PROVE tx_jobs'[t] = None
      <3>1. PICK i \in Jobs : i = tx_jobs[t]
        BY <1>1, <2>2
      <3>2. tx_jobs' = [tx_jobs EXCEPT ![Uuid[i]] = None]
        BY <2>2, <3>1 DEF CancelJob
      <3> QED BY <1>1, <3>1, <3>2
    <2> QED BY <1>1, <2>1, <2>2
  <1>3. ASSUME NEW j \in Jobs, AddJob(j)
        PROVE  \/ tx_jobs'[t] = tx_jobs[t]
               \/ /\ tx_jobs[t] # None => status[tx_jobs[t]] = "TIMEOUT"
                  /\ tx_jobs'[t] = j /\ status'[j] \in Registry!Fresh
    <2>1. /\ tx_jobs' = [tx_jobs EXCEPT ![Uuid[j]] = j]
          /\ tx_jobs[Uuid[j]] # None => status[tx_jobs[Uuid[j]]] = "TIMEOUT"
          /\ status[j] = "UNUSED"
      BY <1>3 DEF AddJob
    <2>2. status'[j] \in Registry!Fresh
      <3>1. CASE status' = [status EXCEPT ![j] = "PENDING"]
        BY <1>1, <3>1 DEF Registry!Fresh
      <3>2. ASSUME NEW armed, Enqueue(j, armed) PROVE status'[j] \in Registry!Fresh
        <4> DEFINE st == [status EXCEPT ![j] = "ENQUEUED"]
                   q == Append(tx_queue, j)
        <4>1. PICK ms : status' = MarkMining(st, ms, q)
          BY <3>2 DEF Enqueue
        <4>2. st \in [Jobs -> Status] /\ st[j] = "ENQUEUED" /\ q \in Seq(Jobs)
          BY <1>1 DEF Status, BeforeMining
        <4> HIDE DEF st, q
        <4>3. MarkMining(st, ms, q)[j] \in {"ENQUEUED", "MINING"}
          BY <4>2, MarkMiningChangesHead
        <4> QED BY <4>1, <4>3 DEF Registry!Fresh
      <3> QED BY <1>3, <3>1, <3>2 DEF AddJob
    <2> QED BY <1>1, <2>1, <2>2
  <1>4. ASSUME NEW j \in Jobs, CleanUp(j) PROVE tx_jobs'[t] \in {tx_jobs[t], None}
    BY <1>1, <1>4 DEF CleanUp
  <1>5. ASSUME \/ \E j \in Jobs : \/ AddParentsStart(j) \/ AddParentsOk(j) \/ AddParentsFail(j)
                                  \/ RunSolution(j) \/ PushOk(j) \/ PushFailed(j) \/ PushError(j)
                                  \/ JobTimeout(j)
               \/ \E m \in Miners : MinerStep(m)
               \/ TemplateArrives \/ TemplateLost \/ RefuseNewJobs \/ UNCHANGED vars
        PROVE  tx_jobs' = tx_jobs
    BY <1>5 DEF AddParentsStart, AddParentsOk, AddParentsFail, RunSolution, PushOk, PushFailed,
                PushError, PushEnds, JobTimeout, MinerStep, MinerReady, MinerLost, RefreshJob,
                UpdateMinerJob, SubmitSolution, TemplateArrives, TemplateLost, RefuseNewJobs,
                vars, jobVars
  <1>6. (\E j \in Jobs : CancelJob(j)) \/ (tx_jobs[t] # None => ~CancelJob(tx_jobs[t]))
    BY <1>1
  <1> QED BY <1>1, <1>2, <1>3, <1>4, <1>5, <1>6 DEF Next, JobStep

\* One step of the manager is a move that JobRegistry allows, and what is
\* registered stays visible.
LEMMA RegistryStep ==
    ASSUME IInv, OnlyVisible, [Next]_vars, NEW t \in Txs
    PROVE  /\ Registry!Moves(Seen(t), Seen(t)')
           /\ tx_jobs'[t] # None => status'[tx_jobs'[t]] \in Registry!Visible
  <1>1. tx_jobs[t] \in Jobs \cup {None} /\ None \notin Jobs
    BY SentinelsAssumption DEF IInv, TypeOK
  <1>2. Registry!Fresh \subseteq Registry!Visible
    BY DEF Registry!Fresh, Registry!Visible, Registry!Live
  <1>3. ASSUME tx_jobs'[t] = tx_jobs[t], tx_jobs[t] # None, ~CancelJob(tx_jobs[t])
        PROVE  Climbs(Seen(t), Seen(t)') /\ Seen(t)' = status'[tx_jobs'[t]]
    <2>1. PICK k \in Jobs : k = tx_jobs[t]
      BY <1>1, <1>3
    <2>2. Climbs(status[k], status'[k])
      BY <1>3, <2>1, StatusStep DEF OnlyVisible
    <2> QED BY <1>3, <2>1, <2>2 DEF Seen
  <1>4. CASE tx_jobs'[t] = None
    BY <1>4 DEF Seen, Registry!Moves, Registry!Forgotten
  <1>5. CASE tx_jobs'[t] = tx_jobs[t] /\ tx_jobs[t] # None /\ ~CancelJob(tx_jobs[t])
    BY <1>3, <1>5 DEF Climbs, Registry!Moves, Registry!Advanced
  <1>6. CASE /\ tx_jobs[t] # None => status[tx_jobs[t]] = "TIMEOUT"
             /\ tx_jobs'[t] \in Jobs /\ status'[tx_jobs'[t]] \in Registry!Fresh
    BY <1>1, <1>2, <1>6 DEF Seen, Registry!Moves, Registry!Submitted
  <1> QED BY <1>4, <1>5, <1>6, RegistrationStep

\* What is registered is visible, always.
THEOREM OnlyVisibleHolds == Spec => []OnlyVisible
  <1>1. Init => OnlyVisible
    BY DEF Init, OnlyVisible
  <1>2. IInv /\ OnlyVisible /\ [Next]_vars => OnlyVisible'
    BY RegistryStep DEF OnlyVisible
  <1> QED BY <1>1, <1>2, IInvHolds, PTL DEF Spec

\* Clients see every hash go forward until it is forgotten: the manager is an
\* implementation of JobRegistry.
THEOREM ManagerImplementsRegistry == Spec => RegistrySpec
  <1> DEFINE seen == [t \in Txs |-> IF tx_jobs[t] = None THEN None ELSE status[tx_jobs[t]]]
  <1>1. Init => Registry!Init
    BY DEF Init, Registry!Init
  <1>2. IInv /\ OnlyVisible /\ OnlyVisible' /\ [Next]_vars => [Registry!Next]_seen
    <2> SUFFICES ASSUME IInv, OnlyVisible, OnlyVisible', [Next]_vars PROVE Registry!Next
      OBVIOUS
    <2>1. \A t \in Txs : seen[t] = Seen(t) /\ seen'[t] = Seen(t)'
      BY DEF Seen
    <2>2. \A t \in Txs : Registry!Moves(seen[t], seen'[t])
      BY <2>1, RegistryStep
    <2>3. seen' \in [Txs -> Registry!Visible \cup {None}]
      BY DEF OnlyVisible
    <2> QED BY <2>2, <2>3 DEF Registry!Next
  <1> QED BY <1>1, <1>2, IInvHolds, OnlyVisibleHolds, PTL DEF Spec, RegistrySpec, Registry!Spec
-----------------------------------------------------------------------------
(* The life of a job: whatever the other jobs and the miners do meanwhile, *)
(* it only moves along the transitions below.  They name the job alone, so *)
(* a property of one job is proved from them without the queue.            *)

\* What a job is counted by.
Counts(j) == <<scheduled[j], pushing[j], solved[j], failed[j], timed_out[j]>>

\* A step of the job that changes neither its coroutine nor its registration.
Settled(j) == parents'[j] = parents[j] /\ (Registered(j)' <=> Registered(j))

TimersKept(j) ==
    /\ j \in timeout_timer' <=> j \in timeout_timer
    /\ j \in cleanup_timer' <=> j \in cleanup_timer

\* add_job: with parents to fetch, or straight into the queue.
Accepted(j) ==
    /\ status[j] = "UNUSED" /\ ~Queued(j) /\ Registered(j)'
    /\ \/ parents'[j] = "scheduled" /\ status'[j] = "PENDING" /\ ~Queued(j)'
       \/ parents'[j] = "none" /\ Queued(j)'
    /\ j \notin cleanup_timer' /\ Counts(j)' = Counts(j)

\* The add_parents coroutine, whatever the status of its job.
ParentsMove(j) ==
    /\ ~Queued(j) /\ (Registered(j)' <=> Registered(j))
    /\ \/ /\ parents[j] = "scheduled" /\ parents'[j] = "awaiting" /\ ~Queued(j)'
          /\ status'[j] = "GETTING_PARENTS" /\ TimersKept(j) /\ Counts(j)' = Counts(j)
       \/ /\ parents[j] = "awaiting" /\ parents'[j] = "none" /\ Queued(j)'
          /\ Counts(j)' = Counts(j)
       \/ /\ parents[j] = "awaiting" /\ parents'[j] = "none" /\ ~Queued(j)'
          /\ status'[j] = "FAILED"
          /\ Counts(j)' = [Counts(j) EXCEPT ![4] = @ + 1]

\* cancel_job counts a failure if it found the job in the queue.
Cancelled(j) ==
    /\ Registered(j) /\ ~Finished(j) /\ parents'[j] = parents[j]
    /\ status'[j] = "CANCELLED" /\ ~Queued(j)' /\ TimersKept(j)
    /\ Counts(j)' = IF Queued(j) THEN [Counts(j) EXCEPT ![4] = @ + 1] ELSE Counts(j)

\* A solution arrives.
Submitted(j) ==
    /\ scheduled[j] + pushing[j] < MaxInFlight
    /\ Settled(j) /\ TimersKept(j) /\ status'[j] = status[j] /\ (Queued(j)' <=> Queued(j))
    /\ Counts(j)' = [Counts(j) EXCEPT ![1] = @ + 1]

\* A solution is handled: ignored, pushed or final.
Handled(j) ==
    /\ scheduled[j] > 0 /\ Settled(j) /\ ~Queued(j)'
    /\ j \in timeout_timer' <=> j \in timeout_timer
    /\ \/ /\ Finished(j) /\ status'[j] = status[j] /\ TimersKept(j)
          /\ Counts(j)' = [Counts(j) EXCEPT ![1] = @ - 1]
       \/ /\ ~Finished(j) /\ j \in Propagate /\ status'[j] = status[j] /\ j \in cleanup_timer'
          /\ Counts(j)' = [Counts(j) EXCEPT ![1] = @ - 1, ![2] = @ + 1]
       \/ /\ ~Finished(j) /\ j \notin Propagate /\ status'[j] = "DONE" /\ j \in cleanup_timer'
          /\ Counts(j)' = [Counts(j) EXCEPT ![1] = @ - 1, ![3] = @ + 1]

\* A push ends.
Pushed(j) ==
    /\ pushing[j] > 0 /\ Settled(j) /\ TimersKept(j) /\ ~Queued(j)'
    /\ \/ status'[j] = "DONE" /\ Counts(j)' = [Counts(j) EXCEPT ![2] = @ - 1, ![3] = @ + 1]
       \/ /\ ~Finished(j) /\ status'[j] = "FAILED"
          /\ Counts(j)' = [Counts(j) EXCEPT ![2] = @ - 1, ![4] = @ + 1]
       \/ status'[j] = status[j] /\ Counts(j)' = [Counts(j) EXCEPT ![2] = @ - 1]

\* The timeout fires.
TimesOut(j) ==
    /\ j \in timeout_timer /\ j \notin timeout_timer' /\ Settled(j) /\ ~Queued(j)'
    /\ \/ /\ Finished(j) /\ status'[j] = status[j] /\ Counts(j)' = Counts(j)
          /\ j \in cleanup_timer' <=> j \in cleanup_timer
       \/ /\ ~Finished(j) /\ status'[j] = "TIMEOUT" /\ j \in cleanup_timer'
          /\ Counts(j)' = [Counts(j) EXCEPT ![5] = @ + 1]

\* The clean-up fires.
CleanedUp(j) ==
    /\ j \in cleanup_timer /\ j \notin cleanup_timer' /\ ~Registered(j)'
    /\ TimeoutIsShorter => j \notin timeout_timer
    /\ j \in timeout_timer' => j \in timeout_timer
    /\ status'[j] = status[j] /\ parents'[j] = parents[j] /\ ~Queued(j)'
    /\ Counts(j)' = Counts(j)

Life(j) ==
    \/ Accepted(j) \/ ParentsMove(j) \/ Cancelled(j) \/ Submitted(j) \/ Handled(j)
    \/ Pushed(j) \/ TimesOut(j) \/ CleanedUp(j)

\* A step about other jobs takes the hash of job j away only to give it to a
\* new one after a timeout, or to clean up another job of the same hash.
HashKept(j) ==
    Registered(j) => \/ Registered(j)'
                     \/ Finished(j) /\ j \notin cleanup_timer'
                     \/ \E k \in Jobs \ {j} : k \in cleanup_timer /\ Uuid[k] = Uuid[j]

\* The status of the job that leaves the queue is the one its action set.
LEMMA LeaverIsNotMarked ==
    ASSUME IInv, NEW j \in Jobs, NEW st \in [Jobs -> Status], NEW ms
    PROVE  /\ MarkMining(st, ms, Without(tx_queue, j))[j] = st[j]
           /\ j \notin Range(Without(tx_queue, j))
           /\ MarkMining(st, ms, Without(tx_queue, j)) \in [Jobs -> Status]
  <1>1. tx_queue \in Seq(Jobs) /\ IsInjective(tx_queue)
    BY DEF IInv, TypeOK, QueueShape
  <1>2. /\ Without(tx_queue, j) \in Seq(Jobs)
        /\ Range(Without(tx_queue, j)) = Range(tx_queue) \ {j}
    BY <1>1, WithoutProperties
  <1> QED BY <1>2, MarkMiningChangesHead

\* The job an action is about makes one of the transitions.
LEMMA OwnStepIsLife ==
    ASSUME IInv, NEW j \in Jobs, JobStep(j)
    PROVE  Life(j)
  <1> USE DEF timerVars, coroVars, workVars, eventVars
  <1>1. /\ TypeOK /\ JobInv(j) /\ tx_queue \in Seq(Jobs) /\ status \in [Jobs -> Status]
        /\ parents \in [Jobs -> {"none", "scheduled", "awaiting"}]
        /\ scheduled \in [Jobs -> Nat] /\ pushing \in [Jobs -> Nat]
        /\ solved \in [Jobs -> Nat] /\ failed \in [Jobs -> Nat] /\ timed_out \in [Jobs -> Nat]
        /\ tx_jobs \in [Txs -> Jobs \cup {None}] /\ Uuid[j] \in Txs /\ None \notin Jobs
    BY JobsAssumption, SentinelsAssumption DEF IInv, TypeOK
  <1>2. Range(Append(tx_queue, j)) = Range(tx_queue) \cup {j}
    BY <1>1, AppendNewcomer
  <1>3. CASE AddJob(j)
    <2>1. /\ status[j] = "UNUSED" /\ ~Queued(j) /\ parents[j] = "none" /\ Untouched(j)
      BY <1>1, <1>3 DEF AddJob, JobInv, FreshInv
    <2>2. tx_jobs' = [tx_jobs EXCEPT ![Uuid[j]] = j]
      BY <1>3 DEF AddJob
    <2>3. Registered(j)'
      BY <1>1, <2>2 DEF Registered
    <2>4. Counts(j)' = Counts(j) /\ j \notin cleanup_timer'
      BY <1>3, <2>1 DEF AddJob, Counts, Untouched
    <2>5. CASE j \in AddParents
      <3>1. /\ parents' = [parents EXCEPT ![j] = "scheduled"] /\ tx_queue' = tx_queue
            /\ status' = [status EXCEPT ![j] = "PENDING"]
        BY <1>3, <2>5 DEF AddJob
      <3> QED BY <1>1, <2>1, <2>3, <2>4, <3>1 DEF Life, Accepted, Queued
    <2>6. CASE j \notin AddParents
      <3>1. parents' = parents /\ tx_queue' = Append(tx_queue, j)
        BY <1>3, <2>6 DEF AddJob, Enqueue
      <3>2. Queued(j)'
        BY <1>2, <3>1 DEF Queued
      <3> QED BY <2>1, <2>3, <2>4, <3>1, <3>2 DEF Life, Accepted
    <2> QED BY <2>5, <2>6
  <1>4. CASE AddParentsStart(j) \/ AddParentsOk(j) \/ AddParentsFail(j)
    <2>1. ~Queued(j) /\ tx_jobs' = tx_jobs
      BY <1>1, <1>4 DEF AddParentsStart, AddParentsOk, AddParentsFail, JobInv, FreshInv
    <2>2. Registered(j)' <=> Registered(j)
      BY <2>1 DEF Registered
    <2>3. CASE AddParentsStart(j)
      <3>1. /\ parents[j] = "scheduled" /\ parents' = [parents EXCEPT ![j] = "awaiting"]
            /\ status' = [status EXCEPT ![j] = "GETTING_PARENTS"] /\ tx_queue' = tx_queue
            /\ TimersKept(j) /\ Counts(j)' = Counts(j)
        BY <2>3 DEF AddParentsStart, TimersKept, Counts
      <3> QED BY <1>1, <2>1, <2>2, <3>1 DEF Life, ParentsMove, Queued
    <2>4. CASE AddParentsOk(j)
      <3>1. /\ parents[j] = "awaiting" /\ parents' = [parents EXCEPT ![j] = "none"]
            /\ tx_queue' = Append(tx_queue, j) /\ Counts(j)' = Counts(j)
        BY <2>4 DEF AddParentsOk, Enqueue, Counts
      <3> QED BY <1>1, <1>2, <2>1, <2>2, <3>1 DEF Life, ParentsMove, Queued
    <2>5. CASE AddParentsFail(j)
      <3>1. /\ parents[j] = "awaiting" /\ parents' = [parents EXCEPT ![j] = "none"]
            /\ status' = [status EXCEPT ![j] = "FAILED"] /\ tx_queue' = tx_queue
            /\ failed'[j] = failed[j] + 1
            /\ UNCHANGED <<scheduled, pushing, solved, timed_out>>
        BY <1>1, <2>5 DEF AddParentsFail
      <3>2. Counts(j)' = [Counts(j) EXCEPT ![4] = @ + 1]
        BY <3>1 DEF Counts
      <3> QED BY <1>1, <2>1, <2>2, <3>1, <3>2 DEF Life, ParentsMove, Queued
    <2> QED BY <1>4, <2>3, <2>4, <2>5
  <1>5. CASE CancelJob(j)
    <2> DEFINE st == [status EXCEPT ![j] = "CANCELLED"]
    <2>1. st \in [Jobs -> Status] /\ st[j] = "CANCELLED"
      BY <1>1 DEF Status, AfterMining
    <2>2. /\ Registered(j) /\ ~Finished(j) /\ parents' = parents /\ TimersKept(j)
          /\ UNCHANGED <<scheduled, pushing, solved, timed_out>>
      BY <1>5 DEF CancelJob, TimersKept
    <2>3. CASE Queued(j)
      <3>1. /\ tx_queue' = Without(tx_queue, j)
            /\ status' = MarkMining(st, Workers(j), Without(tx_queue, j))
            /\ failed'[j] = failed[j] + 1
        BY <1>1, <1>5, <2>3 DEF CancelJob
      <3> HIDE DEF st
      <3>2. status'[j] = "CANCELLED" /\ ~Queued(j)'
        BY <2>1, <3>1, LeaverIsNotMarked DEF Queued
      <3>3. Counts(j)' = [Counts(j) EXCEPT ![4] = @ + 1]
        BY <2>2, <3>1 DEF Counts
      <3> QED BY <2>2, <2>3, <3>2, <3>3 DEF Life, Cancelled
    <2>4. CASE ~Queued(j)
      <3>1. status' = st /\ tx_queue' = tx_queue /\ failed' = failed
        BY <1>5, <2>4 DEF CancelJob
      <3>2. status'[j] = "CANCELLED" /\ ~Queued(j)' /\ Counts(j)' = Counts(j)
        BY <2>1, <2>2, <2>4, <3>1 DEF Queued, Counts
      <3> QED BY <2>2, <2>4, <3>2 DEF Life, Cancelled
    <2> QED BY <2>3, <2>4
  <1>6. CASE RunSolution(j)
    <2> DEFINE moved == MarkMining(status, Workers(j), Without(tx_queue, j))
    <2>1. /\ scheduled[j] > 0 /\ scheduled'[j] = scheduled[j] - 1
          /\ UNCHANGED <<tx_jobs, timeout_timer, parents, failed, timed_out>>
      BY <1>1, <1>6 DEF RunSolution
    <2>2. Settled(j)
      BY <2>1 DEF Settled, Registered
    <2>3. CASE Finished(j)
      <3>1. UNCHANGED <<status, tx_queue, cleanup_timer, pushing, solved>>
        BY <1>6, <2>3 DEF RunSolution
      <3>2. ~Queued(j)'
        BY <1>1, <2>3, <3>1 DEF JobInv, QueuedInv, Queued, Finished, AfterMining
      <3>3. Counts(j)' = [Counts(j) EXCEPT ![1] = @ - 1]
        BY <2>1, <3>1 DEF Counts
      <3> QED BY <2>1, <2>2, <2>3, <3>1, <3>2, <3>3 DEF Life, Handled, TimersKept
    <2>4. CASE ~Finished(j)
      <3>1. /\ tx_queue' = Without(tx_queue, j) /\ cleanup_timer' = cleanup_timer \cup {j}
            /\ \/ /\ j \in Propagate /\ status' = moved /\ solved' = solved
                  /\ pushing'[j] = pushing[j] + 1
               \/ /\ j \notin Propagate /\ status' = [moved EXCEPT ![j] = "DONE"]
                  /\ solved'[j] = solved[j] + 1 /\ pushing' = pushing
        BY <1>1, <1>6, <2>4 DEF RunSolution
      <3>2. /\ moved[j] = status[j] /\ j \notin Range(Without(tx_queue, j))
            /\ moved \in [Jobs -> Status]
        BY <1>1, LeaverIsNotMarked
      <3> HIDE DEF moved
      <3>3. ~Queued(j)' /\ j \in cleanup_timer'
        BY <3>1, <3>2 DEF Queued
      <3>4. CASE /\ j \in Propagate /\ status' = moved /\ solved' = solved
                 /\ pushing'[j] = pushing[j] + 1
        <4>1. Counts(j)' = [Counts(j) EXCEPT ![1] = @ - 1, ![2] = @ + 1]
          BY <2>1, <3>4 DEF Counts
        <4> QED BY <2>1, <2>2, <2>4, <3>2, <3>3, <3>4, <4>1 DEF Life, Handled
      <3>5. CASE /\ j \notin Propagate /\ status' = [moved EXCEPT ![j] = "DONE"]
                 /\ solved'[j] = solved[j] + 1 /\ pushing' = pushing
        <4>1. Counts(j)' = [Counts(j) EXCEPT ![1] = @ - 1, ![3] = @ + 1]
          BY <2>1, <3>5 DEF Counts
        <4>2. status'[j] = "DONE"
          BY <3>2, <3>5
        <4> QED BY <2>1, <2>2, <2>4, <3>3, <3>5, <4>1, <4>2 DEF Life, Handled
      <3> QED BY <3>1, <3>4, <3>5
    <2> QED BY <2>3, <2>4
  <1>7. CASE PushOk(j) \/ PushFailed(j) \/ PushError(j)
    <2>1. PushEnds(j)
      BY <1>7 DEF PushOk, PushFailed, PushError
    <2>2. /\ pushing[j] > 0 /\ pushing'[j] = pushing[j] - 1
          /\ UNCHANGED <<tx_jobs, tx_queue, timeout_timer, cleanup_timer, parents, scheduled,
                         timed_out>>
      BY <1>1, <2>1 DEF PushEnds
    <2>3. Settled(j) /\ TimersKept(j)
      BY <2>2 DEF Settled, TimersKept, Registered
    <2>4. ~Queued(j)'
      BY <1>1, <2>2 DEF JobInv, QueuedInv, Queued
    <2>5. \/ status'[j] = "DONE" /\ solved'[j] = solved[j] + 1 /\ failed'[j] = failed[j]
          \/ /\ ~Finished(j) /\ status'[j] = "FAILED"
             /\ solved'[j] = solved[j] /\ failed'[j] = failed[j] + 1
          \/ status'[j] = status[j] /\ solved'[j] = solved[j] /\ failed'[j] = failed[j]
      BY <1>1, <1>7 DEF PushOk, PushFailed, PushError
    <2>6. CASE status'[j] = "DONE" /\ solved'[j] = solved[j] + 1 /\ failed'[j] = failed[j]
      <3>1. Counts(j)' = [Counts(j) EXCEPT ![2] = @ - 1, ![3] = @ + 1]
        BY <2>2, <2>6 DEF Counts
      <3> QED BY <2>2, <2>3, <2>4, <2>6, <3>1 DEF Life, Pushed
    <2>7. CASE /\ ~Finished(j) /\ status'[j] = "FAILED"
               /\ solved'[j] = solved[j] /\ failed'[j] = failed[j] + 1
      <3>1. Counts(j)' = [Counts(j) EXCEPT ![2] = @ - 1, ![4] = @ + 1]
        BY <2>2, <2>7 DEF Counts
      <3> QED BY <2>2, <2>3, <2>4, <2>7, <3>1 DEF Life, Pushed
    <2>8. CASE status'[j] = status[j] /\ solved'[j] = solved[j] /\ failed'[j] = failed[j]
      <3>1. Counts(j)' = [Counts(j) EXCEPT ![2] = @ - 1]
        BY <2>2, <2>8 DEF Counts
      <3> QED BY <2>2, <2>3, <2>4, <2>8, <3>1 DEF Life, Pushed
    <2> QED BY <2>5, <2>6, <2>7, <2>8
  <1>8. CASE JobTimeout(j)
    <2> DEFINE st == [status EXCEPT ![j] = "TIMEOUT"]
    <2>1. /\ j \in timeout_timer /\ timeout_timer' = timeout_timer \ {j}
          /\ UNCHANGED <<tx_jobs, parents, scheduled, pushing, solved, failed>>
      BY <1>8 DEF JobTimeout
    <2>2. Settled(j) /\ j \notin timeout_timer'
      BY <2>1 DEF Settled, Registered
    <2>3. CASE Finished(j)
      <3>1. UNCHANGED <<status, tx_queue, cleanup_timer, timed_out>>
        BY <1>8, <2>3 DEF JobTimeout
      <3>2. ~Queued(j)'
        BY <1>1, <2>3, <3>1 DEF JobInv, QueuedInv, Queued, Finished, AfterMining
      <3> QED BY <2>1, <2>2, <2>3, <3>1, <3>2 DEF Life, TimesOut, Counts
    <2>4. CASE ~Finished(j)
      <3>1. /\ tx_queue' = Without(tx_queue, j) /\ cleanup_timer' = cleanup_timer \cup {j}
            /\ status' = MarkMining(st, Workers(j), Without(tx_queue, j))
            /\ timed_out'[j] = timed_out[j] + 1
        BY <1>1, <1>8, <2>4 DEF JobTimeout
      <3>2. st \in [Jobs -> Status] /\ st[j] = "TIMEOUT"
        BY <1>1 DEF Status, AfterMining
      <3> HIDE DEF st
      <3>3. status'[j] = "TIMEOUT" /\ ~Queued(j)' /\ j \in cleanup_timer'
        BY <3>1, <3>2, LeaverIsNotMarked DEF Queued
      <3>4. Counts(j)' = [Counts(j) EXCEPT ![5] = @ + 1]
        BY <2>1, <3>1 DEF Counts
      <3> QED BY <2>1, <2>2, <2>4, <3>3, <3>4 DEF Life, TimesOut
    <2> QED BY <2>3, <2>4
  <1>9. CASE CleanUp(j)
    <2>1. /\ j \in cleanup_timer /\ cleanup_timer' = cleanup_timer \ {j}
          /\ TimeoutIsShorter => j \notin timeout_timer
          /\ j \in timeout_timer' => j \in timeout_timer
          /\ UNCHANGED <<status, tx_queue, parents>> /\ Counts(j)' = Counts(j)
      BY <1>9 DEF CleanUp, Counts
    <2>2. tx_jobs'[Uuid[j]] = None
      BY <1>1, <1>9 DEF CleanUp
    <2>3. ~Registered(j)' /\ ~Queued(j)'
      BY <1>1, <2>1, <2>2 DEF Registered, Queued, JobInv, QueuedInv
    <2> QED BY <2>1, <2>3 DEF Life, CleanedUp
  <1> QED BY <1>3, <1>4, <1>5, <1>6, <1>7, <1>8, <1>9 DEF JobStep

\* Jobs lose their hash to no other step.
LEMMA HashesAreKept ==
    ASSUME IInv, [Next]_vars, NEW j \in Jobs, ~JobStep(j)
    PROVE  HashKept(j)
  <1> SUFFICES ASSUME Registered(j), ~Registered(j)'
               PROVE  \/ Finished(j) /\ j \notin cleanup_timer'
                      \/ \E k \in Jobs \ {j} : k \in cleanup_timer /\ Uuid[k] = Uuid[j]
    BY DEF HashKept
  <1>1. /\ tx_jobs \in [Txs -> Jobs \cup {None}] /\ Uuid \in [Jobs -> Txs] /\ None \notin Jobs
    BY JobsAssumption, SentinelsAssumption DEF IInv, TypeOK
  <1>2. tx_jobs[Uuid[j]] = j /\ tx_jobs'[Uuid[j]] # j
    BY DEF Registered
  <1>3. PICK k \in Jobs : AddJob(k) \/ CancelJob(k) \/ CleanUp(k)
    <2>1. ASSUME NEW k \in Jobs, \/ AddParentsStart(k) \/ AddParentsOk(k) \/ AddParentsFail(k)
                                 \/ RunSolution(k) \/ PushOk(k) \/ PushFailed(k) \/ PushError(k)
                                 \/ JobTimeout(k)
          PROVE  tx_jobs' = tx_jobs
      BY <2>1 DEF AddParentsStart, AddParentsOk, AddParentsFail, RunSolution, PushOk, PushFailed,
                  PushError, PushEnds, JobTimeout
    <2>2. ASSUME \/ \E m \in Miners : MinerStep(m)
                 \/ TemplateArrives \/ TemplateLost \/ RefuseNewJobs \/ UNCHANGED vars
          PROVE  tx_jobs' = tx_jobs
      BY <2>2 DEF MinerStep, MinerReady, MinerLost, RefreshJob, UpdateMinerJob, SubmitSolution,
                  TemplateArrives, TemplateLost, RefuseNewJobs, vars, jobVars
    <2> QED BY <1>2, <2>1, <2>2 DEF Next, JobStep
  <1>4. k # j
    BY <1>3 DEF JobStep
  <1>5. \E v : tx_jobs' = [tx_jobs EXCEPT ![Uuid[k]] = v]
    <2>1. CASE AddJob(k)
      BY <2>1 DEF AddJob
    <2>2. CASE CancelJob(k)
      BY <2>2 DEF CancelJob
    <2>3. CASE CleanUp(k)
      <3>1. tx_jobs' # tx_jobs
        BY <1>2
      <3> QED BY <2>3, <3>1 DEF CleanUp
    <2> QED BY <1>3, <2>1, <2>2, <2>3
  <1>6. Uuid[k] = Uuid[j]
    BY <1>1, <1>2, <1>5
  <1>7. CASE AddJob(k)
    BY <1>1, <1>2, <1>6, <1>7 DEF AddJob, Finished, AfterMining
  <1>8. CASE CancelJob(k)
    BY <1>2, <1>4, <1>6, <1>8 DEF CancelJob, Registered
  <1>9. CASE CleanUp(k)
    BY <1>4, <1>6, <1>9 DEF CleanUp
  <1> QED BY <1>3, <1>7, <1>8, <1>9

\* Every step makes a transition of a job or keeps it.
LEMMA LifeStep ==
    ASSUME IInv, [Next]_vars, NEW j \in Jobs
    PROVE  Life(j) \/ (Kept(j) /\ HashKept(j))
  <1>1. CASE JobStep(j)
    BY <1>1, OwnStepIsLife
  <1>2. ASSUME NEW m \in Miners, SubmitSolution(m, j) PROVE Life(j)
    <2>1. /\ scheduled \in [Jobs -> Nat] /\ scheduled[j] + pushing[j] < MaxInFlight
          /\ scheduled' = [scheduled EXCEPT ![j] = @ + 1]
          /\ UNCHANGED <<status, tx_jobs, tx_queue, timeout_timer, cleanup_timer, parents,
                         pushing, solved, failed, timed_out>>
      BY <1>2 DEF SubmitSolution, IInv, TypeOK, jobVars, timerVars, eventVars
    <2>2. Counts(j)' = [Counts(j) EXCEPT ![1] = @ + 1]
      BY <2>1 DEF Counts
    <2> QED BY <2>1, <2>2 DEF Life, Submitted, Settled, TimersKept, Registered, Queued
  <1>3. CASE ~JobStep(j) /\ ~\E m \in Miners : SubmitSolution(m, j)
    <2>1. HashKept(j)
      BY <1>3, HashesAreKept
    <2>2. ASSUME NEW k \in Jobs \ {j}, JobStep(k) PROVE Kept(j)
      <3>1. OthersKept(k)
        BY <2>2, AddJobStep, AddParentsStartStep, AddParentsOkStep, AddParentsFailStep,
           CancelJobStep, RunSolutionStep, PushStep, JobTimeoutStep, CleanUpStep DEF JobStep
      <3> QED BY <2>2, <3>1 DEF OthersKept
    <2>3. ASSUME NEW m \in Miners, MinerStep(m) PROVE Kept(j)
      <3>1. CASE MinerReady(m) \/ MinerLost(m) \/ RefreshJob(m) \/ UpdateMinerJob(m)
        BY <3>1, MinersStep
      <3>2. ASSUME NEW k \in Jobs, SubmitSolution(m, k) PROVE Kept(j)
        <4>1. k # j
          BY <1>3, <3>2
        <4> QED BY <3>2, <4>1, SubmitSolutionStep DEF OthersKept
      <3> QED BY <2>3, <3>1, <3>2 DEF MinerStep
    <2>4. ASSUME TemplateArrives \/ TemplateLost \/ RefuseNewJobs \/ UNCHANGED vars
          PROVE  Kept(j)
      BY <2>4, MinersStep
    <2>5. Kept(j)
      BY <1>3, <2>2, <2>3, <2>4 DEF Next
    <2> QED BY <2>1, <2>5
  <1> QED BY <1>1, <1>2, <1>3

\* In the words of one job: every step of the manager either is one of the
\* transitions of the job or is about something else.
LifeOfAJob == [][\A j \in Jobs : Life(j) \/ Kept(j)]_vars

\* Every job lives that life.
THEOREM JobsLiveTheirLives == Spec => LifeOfAJob
  <1>1. IInv /\ [Next]_vars => \A j \in Jobs : Life(j) \/ Kept(j)
    BY LifeStep
  <1> QED BY <1>1, IInvHolds, PTL DEF Spec, LifeOfAJob

\* It is not settled yet whether the job will be mined.
Undecided(j) == status[j] = "UNUSED" \/ parents[j] # "none"

\* A job enters the queue at most once: only while it is undecided, which it
\* then never is again.  Neither a push that failed nor late parents queue it
\* a second time (add_job and the add_parents coroutine both enqueue).
QueuedOnce ==
    [][\A j \in Jobs : /\ Undecided(j)' => Undecided(j)
                       /\ Queued(j)' /\ ~Queued(j) => Undecided(j) /\ ~Undecided(j)']_vars

\* A job enters the queue at most once.
THEOREM JobsAreQueuedOnce == Spec => QueuedOnce
  <1>1. IInv /\ IInv' /\ [Next]_vars =>
          \A j \in Jobs : /\ Undecided(j)' => Undecided(j)
                          /\ Queued(j)' /\ ~Queued(j) => Undecided(j) /\ ~Undecided(j)'
    <2> SUFFICES ASSUME IInv, IInv', [Next]_vars, NEW j \in Jobs
                 PROVE  /\ Undecided(j)' => Undecided(j)
                        /\ Queued(j)' /\ ~Queued(j) => Undecided(j) /\ ~Undecided(j)'
      OBVIOUS
    <2>1. Life(j) \/ Kept(j)
      BY LifeStep
    <2>2. Queued(j)' => ~Undecided(j)'
      BY DEF IInv, JobInv, FreshInv, Undecided
    <2>3. Undecided(j)' => Undecided(j)
      BY <2>1 DEF Undecided, Kept, Life, Accepted, ParentsMove, Cancelled, Submitted, Handled,
                  Pushed, TimesOut, CleanedUp, Settled
    <2>4. Queued(j)' /\ ~Queued(j) => Undecided(j)
      BY <2>1 DEF Undecided, Kept, Life, Accepted, ParentsMove, Cancelled, Submitted, Handled,
                  Pushed, TimesOut, CleanedUp, Settled
    <2> QED BY <2>2, <2>3, <2>4
  <1> QED BY <1>1, IInvHolds, PTL DEF Spec, QueuedOnce
-----------------------------------------------------------------------------
(* How often a job can be solved.                                          *)

\* No more solutions are under way than the bound lets in, and from the first
\* outcome on, outcomes and pushes together stay within it.
OutcomeInv(j) ==
    /\ scheduled[j] + pushing[j] <= MaxInFlight
    /\ solved[j] > 0 \/ (failed[j] > 0 /\ pushing[j] > 0) =>
          solved[j] + failed[j] + pushing[j] <= MaxInFlight

\* A job that is solved has at most as many outcomes, solved or failed, as
\* solutions of it were handled at a time: what holds in place of "solved
\* once" and "failed means not solved".  With one at a time both hold.
OutcomesAreBounded ==
    \A j \in Jobs : solved[j] > 0 => solved[j] + failed[j] + pushing[j] <= MaxInFlight

\* A transition of the job keeps its outcomes within the bound.
LEMMA OutcomeStep ==
    ASSUME IInv, [Next]_vars, NEW j \in Jobs, OutcomeInv(j)
    PROVE  OutcomeInv(j)'
  <1>1. Life(j) \/ Kept(j)
    BY LifeStep
  <1>2. /\ scheduled[j] \in Nat /\ pushing[j] \in Nat /\ solved[j] \in Nat
        /\ failed[j] \in Nat /\ timed_out[j] \in Nat /\ MaxInFlight \in Nat
    BY JobTypes, BoundsAssumption DEF IInv
  <1>3. /\ failed[j] + timed_out[j] <= 1
        /\ failed[j] + timed_out[j] > 0 => Finished(j)
        /\ status[j] = "DONE" <=> solved[j] > 0
        /\ pushing[j] > 0 => ~Queued(j)
        /\ status[j] = "UNUSED" \/ parents[j] # "none" =>
              scheduled[j] = 0 /\ pushing[j] = 0 /\ solved[j] = 0 /\ failed[j] = 0
    BY DEF IInv, JobInv, FreshInv, QueuedInv, CountInv, Untouched
  <1>4. ~Finished(j) => solved[j] = 0 /\ failed[j] = 0
    BY <1>2, <1>3 DEF Finished, AfterMining
  <1>5. CASE Kept(j) \/ Accepted(j) \/ TimesOut(j) \/ CleanedUp(j)
    <2>1. /\ scheduled'[j] = scheduled[j] /\ pushing'[j] = pushing[j]
          /\ solved'[j] = solved[j] /\ failed'[j] = failed[j]
      BY <1>5 DEF Kept, Accepted, TimesOut, CleanedUp, Counts
    <2> QED BY <2>1 DEF OutcomeInv
  <1>6. CASE ParentsMove(j)
    <2>1. /\ scheduled'[j] = scheduled[j] /\ pushing'[j] = pushing[j]
          /\ solved'[j] = solved[j] /\ parents[j] # "none"
      BY <1>6 DEF ParentsMove, Counts
    <2> QED BY <1>2, <1>3, <2>1 DEF OutcomeInv
  <1>7. CASE Cancelled(j)
    <2>1. /\ scheduled'[j] = scheduled[j] /\ pushing'[j] = pushing[j] /\ solved'[j] = solved[j]
          /\ failed'[j] = IF Queued(j) THEN failed[j] + 1 ELSE failed[j]
          /\ ~Finished(j)
      BY <1>7 DEF Cancelled, Counts
    <2> QED BY <1>2, <1>3, <1>4, <2>1 DEF OutcomeInv
  <1>8. CASE Submitted(j)
    <2>1. /\ scheduled'[j] = scheduled[j] + 1 /\ pushing'[j] = pushing[j]
          /\ solved'[j] = solved[j] /\ failed'[j] = failed[j]
          /\ scheduled[j] + pushing[j] < MaxInFlight
      BY <1>8 DEF Submitted, Counts
    <2> QED BY <1>2, <2>1 DEF OutcomeInv
  <1>9. CASE Handled(j)
    <2>1. /\ scheduled[j] > 0 /\ scheduled'[j] = scheduled[j] - 1 /\ failed'[j] = failed[j]
          /\ \/ /\ Finished(j) /\ pushing'[j] = pushing[j] /\ solved'[j] = solved[j]
             \/ /\ ~Finished(j) /\ pushing'[j] = pushing[j] + 1 /\ solved'[j] = solved[j]
             \/ /\ ~Finished(j) /\ pushing'[j] = pushing[j] /\ solved'[j] = solved[j] + 1
      BY <1>9 DEF Handled, Counts
    <2> QED BY <1>2, <1>4, <2>1 DEF OutcomeInv
  <1>10. CASE Pushed(j)
    <2>1. /\ pushing[j] > 0 /\ pushing'[j] = pushing[j] - 1 /\ scheduled'[j] = scheduled[j]
          /\ \/ solved'[j] = solved[j] + 1 /\ failed'[j] = failed[j]
             \/ ~Finished(j) /\ solved'[j] = solved[j] /\ failed'[j] = failed[j] + 1
             \/ solved'[j] = solved[j] /\ failed'[j] = failed[j]
      BY <1>10 DEF Pushed, Counts
    <2> QED BY <1>2, <1>3, <1>4, <2>1 DEF OutcomeInv
  <1> QED BY <1>1, <1>5, <1>6, <1>7, <1>8, <1>9, <1>10 DEF Life

\* A job is solved, and fails, at most as often as its solutions overlap.
THEOREM OutcomesStayBounded == Spec => []OutcomesAreBounded
  <1> DEFINE Inv == \A j \in Jobs : OutcomeInv(j)
  <1>1. Init => Inv
    BY BoundsAssumption DEF Init, OutcomeInv
  <1>2. IInv /\ Inv /\ [Next]_vars => Inv'
    BY OutcomeStep
  <1>3. IInv /\ Inv => OutcomesAreBounded
    BY DEF OutcomeInv, OutcomesAreBounded
  <1> QED BY <1>1, <1>2, <1>3, IInvHolds, PTL DEF Spec
-----------------------------------------------------------------------------
(* Timeouts that find their job out of the queue.                          *)

\* A job that has not ended, has its parents and is out of the queue is one
\* whose solution is pushed; its clean-up does not overtake its timeout.
TakenOut(j) ==
    status[j] # "UNUSED" /\ parents[j] = "none" /\ ~Finished(j) /\ ~Queued(j) =>
        /\ j \in Propagate
        /\ TimeoutIsShorter /\ j \in timeout_timer => j \in cleanup_timer

\* A timeout that counts finds its job in the queue, or finds a job that the
\* full node has been asked to accept and whose clean-up is armed: what holds
\* in place of "TxJob timeout but not in queue. This shouldnt happen".
LateTimeoutsOnlyHitPushes ==
    [][\A j \in Jobs : timed_out'[j] > timed_out[j] =>
          \/ Queued(j)
          \/ j \in Propagate /\ (TimeoutIsShorter => j \in cleanup_timer)]_vars

\* A transition of the job keeps that.
LEMMA TakenOutStep ==
    ASSUME IInv, IInv', [Next]_vars, NEW j \in Jobs, TakenOut(j)
    PROVE  TakenOut(j)'
  <1>1. Life(j) \/ Kept(j)
    BY LifeStep
  <1>2. /\ parents[j] # "none" => j \notin timeout_timer
        /\ Queued(j) => status[j] \in {"ENQUEUED", "MINING"} /\ parents[j] = "none"
        /\ Queued(j)' => status'[j] \in {"ENQUEUED", "MINING"}
        /\ status[j] = "UNUSED" => parents[j] = "none"
    BY DEF IInv, JobInv, FreshInv, QueuedInv, Untouched
  <1>3. CASE Kept(j)
    <2>1. Finished(j) => status'[j] = status[j]
      BY <1>2, <1>3 DEF Kept, Finished, AfterMining
    <2>2. ~Queued(j) => status'[j] = status[j]
      BY <1>3 DEF Kept
    <2>3. CASE Finished(j)
      BY <1>2, <2>1, <2>3 DEF TakenOut, Finished
    <2>4. CASE ~Finished(j)
      BY <1>3, <2>2, <2>4 DEF TakenOut, Kept, Finished
    <2> QED BY <2>3, <2>4
  <1>4. CASE Accepted(j)
    BY <1>4 DEF Accepted, TakenOut
  <1>5. CASE ParentsMove(j)
    BY <1>5 DEF ParentsMove, TakenOut, Finished, AfterMining
  <1>6. CASE Cancelled(j)
    BY <1>6 DEF Cancelled, TakenOut, Finished, AfterMining
  <1>7. CASE Submitted(j)
    BY <1>7 DEF Submitted, TakenOut, TimersKept, Settled, Finished
  <1>8. CASE Handled(j)
    BY <1>8 DEF Handled, TakenOut, Finished, AfterMining
  <1>9. CASE Pushed(j)
    <2>1. ~Queued(j) /\ status[j] # "UNUSED" /\ parents[j] = "none"
      BY <1>9, JobTypes DEF Pushed, IInv, JobInv, FreshInv, QueuedInv, Untouched
    <2> QED BY <1>9, <2>1 DEF Pushed, TakenOut, TimersKept, Settled, Finished, AfterMining
  <1>10. CASE TimesOut(j)
    BY <1>10 DEF TimesOut, TakenOut, Finished, AfterMining
  <1>11. CASE CleanedUp(j)
    <2>1. ~Queued(j) /\ status[j] # "UNUSED" /\ parents[j] = "none"
      BY <1>11 DEF CleanedUp, IInv, JobInv, FreshInv, QueuedInv, Untouched
    <2> QED BY <1>11, <2>1 DEF CleanedUp, TakenOut, Finished
  <1> QED BY <1>1, <1>3, <1>4, <1>5, <1>6, <1>7, <1>8, <1>9, <1>10, <1>11 DEF Life

\* The only jobs that time out outside the queue are those being pushed.
THEOREM LateTimeoutsHitPushes == Spec => LateTimeoutsOnlyHitPushes
  <1> DEFINE Inv == \A j \in Jobs : TakenOut(j)
  <1>1. Init => Inv
    BY DEF Init, TakenOut
  <1>2. IInv /\ IInv' /\ Inv /\ [Next]_vars => Inv'
    BY TakenOutStep
  <1>3. IInv /\ Inv /\ [Next]_vars =>
          \A j \in Jobs : timed_out'[j] > timed_out[j] =>
             \/ Queued(j)
             \/ j \in Propagate /\ (TimeoutIsShorter => j \in cleanup_timer)
    <2> SUFFICES ASSUME IInv, Inv, [Next]_vars, NEW j \in Jobs, timed_out'[j] > timed_out[j],
                        ~Queued(j)
                 PROVE  j \in Propagate /\ (TimeoutIsShorter => j \in cleanup_timer)
      OBVIOUS
    <2>1. Life(j) \/ Kept(j)
      BY LifeStep
    <2>2. timed_out[j] \in Nat
      BY JobTypes DEF IInv
    <2>3. TimesOut(j) /\ ~Finished(j)
      BY <2>1, <2>2 DEF Kept, Life, Accepted, ParentsMove, Cancelled, Submitted, Handled, Pushed,
                        TimesOut, CleanedUp, Counts
    <2>4. status[j] # "UNUSED" /\ parents[j] = "none" /\ j \in timeout_timer
      BY <2>3 DEF TimesOut, IInv, JobInv, FreshInv, Untouched
    <2> QED BY <2>3, <2>4 DEF TakenOut
  <1> QED BY <1>1, <1>2, <1>3, IInvHolds, PTL DEF Spec, LateTimeoutsOnlyHitPushes
-----------------------------------------------------------------------------
(* What cancellations and clean-ups leave alone (JobHistory).              *)

\* Unless a job of its transaction was let go: a job that has not ended has
\* its hash, a clean-up that is armed is one of the job that has the hash,
\* and nothing goes on for a cancelled one.
OwnHash(j) ==
    Uuid[j] \notin let_go =>
      /\ status[j] # "UNUSED" /\ ~Finished(j) => Registered(j)
      /\ j \in cleanup_timer => Registered(j)
      /\ status[j] = "CANCELLED" => parents[j] = "none" /\ pushing[j] = 0 /\ ~Queued(j)

\* The history variable only records.
LEMMA HistoryStepIsStep ==
    ASSUME [HistoryNext]_historyVars
    PROVE  /\ [Next]_vars
           /\ \A j \in Jobs : Uuid[j] \in let_go \/ LetGo(j) => Uuid[j] \in let_go'
  <1>1. CASE HistoryNext
    BY <1>1 DEF HistoryNext
  <1>2. CASE UNCHANGED historyVars
    <2>1. UNCHANGED vars /\ let_go' = let_go
      BY <1>2 DEF historyVars
    <2>2. UNCHANGED <<status, cleanup_timer>>
      BY <2>1 DEF vars, jobVars, timerVars
    <2> QED BY <2>1, <2>2 DEF LetGo, Finished, AfterMining
  <1> QED BY <1>1, <1>2

\* A cancelled job for which nothing goes on stays as it is.
LEMMA CancelledStep ==
    ASSUME IInv, IInv', [Next]_vars, NEW j \in Jobs,
           status[j] = "CANCELLED", parents[j] = "none", pushing[j] = 0
    PROVE  status'[j] = "CANCELLED" /\ parents'[j] = "none" /\ pushing'[j] = 0 /\ ~Queued(j)'
  <1>1. Life(j) \/ Kept(j)
    BY LifeStep
  <1>2. Finished(j) /\ ~Queued(j) /\ (status'[j] = "CANCELLED" => ~Queued(j)')
    BY DEF IInv, JobInv, QueuedInv, Finished, AfterMining
  <1>3. CASE Kept(j)
    BY <1>2, <1>3 DEF Kept
  <1>4. CASE Submitted(j)
    BY <1>2, <1>4 DEF Submitted, Settled, Counts
  <1>5. CASE Handled(j)
    <2>1. status'[j] = status[j] /\ Settled(j) /\ pushing'[j] = pushing[j]
      BY <1>2, <1>5 DEF Handled, Counts
    <2> QED BY <1>2, <2>1 DEF Settled
  <1>6. CASE TimesOut(j)
    BY <1>2, <1>6 DEF TimesOut, Settled, Counts
  <1>7. CASE CleanedUp(j)
    BY <1>2, <1>7 DEF CleanedUp, Counts
  <1>8. ~(Accepted(j) \/ ParentsMove(j) \/ Cancelled(j) \/ Pushed(j))
    BY <1>2 DEF Accepted, ParentsMove, Cancelled, Pushed
  <1> QED BY <1>1, <1>2, <1>3, <1>4, <1>5, <1>6, <1>7, <1>8 DEF Life

\* A step keeps the hashes of a transaction of which no job was let go.
LEMMA OwnHashStep ==
    ASSUME IInv, IInv', [HistoryNext]_historyVars, \A k \in Jobs : OwnHash(k),
           NEW j \in Jobs, Uuid[j] \notin let_go'
    PROVE  /\ OwnHash(j)'
           /\ Registered(j) /\ ~Finished(j) => Registered(j)' \/ status'[j] = "CANCELLED"
  <1>1. /\ [Next]_vars
        /\ Uuid[j] \notin let_go /\ ~LetGo(j)
    BY HistoryStepIsStep
  <1>2. Life(j) \/ (Kept(j) /\ HashKept(j))
    BY <1>1, LifeStep
  <1>3. /\ parents[j] # "none" => j \notin timeout_timer /\ j \notin cleanup_timer /\ pushing[j] = 0
        /\ Queued(j) => /\ status[j] \in {"ENQUEUED", "MINING"} /\ parents[j] = "none"
                        /\ j \notin cleanup_timer /\ pushing[j] = 0
        /\ Queued(j)' => status'[j] \in {"ENQUEUED", "MINING"} /\ j \notin cleanup_timer'
        /\ parents'[j] # "none" => j \notin cleanup_timer'
        /\ status[j] = "UNUSED" => /\ parents[j] = "none" /\ pushing[j] = 0
                                   /\ j \notin cleanup_timer /\ j \notin timeout_timer
    BY JobTypes DEF IInv, JobInv, FreshInv, QueuedInv, Untouched
  <1>4. /\ status[j] # "UNUSED" /\ ~Finished(j) => Registered(j)
        /\ j \in cleanup_timer => Registered(j)
        /\ status[j] = "CANCELLED" => parents[j] = "none" /\ pushing[j] = 0 /\ ~Queued(j)
    BY <1>1 DEF OwnHash
  <1>5. ~\E k \in Jobs \ {j} : k \in cleanup_timer /\ Uuid[k] = Uuid[j] /\ Registered(j)
    BY <1>1 DEF OwnHash, Registered
  <1> DEFINE Goal ==
        /\ status'[j] # "UNUSED" /\ ~Finished(j)' => Registered(j)'
        /\ j \in cleanup_timer' => Registered(j)'
        /\ status'[j] = "CANCELLED" => parents'[j] = "none" /\ pushing'[j] = 0 /\ ~Queued(j)'
        /\ Registered(j) /\ ~Finished(j) => Registered(j)' \/ status'[j] = "CANCELLED"
  <1> SUFFICES Goal
    BY DEF OwnHash
  <1>6. CASE Kept(j) /\ HashKept(j)
    <2>1. Registered(j) => Registered(j)' \/ (Finished(j) /\ j \notin cleanup_timer')
      BY <1>5, <1>6 DEF HashKept
    <2>2. Finished(j) => ~Queued(j) /\ status'[j] = status[j]
      BY <1>3, <1>6 DEF Kept, Finished, AfterMining
    <2>3. j \in cleanup_timer' => j \in cleanup_timer
      BY <1>6 DEF Kept
    <2>4. status'[j] = status[j] \/ (~Finished(j) /\ status[j] # "UNUSED")
      BY <1>3, <1>6 DEF Kept, Finished, AfterMining
    <2>5. parents'[j] = parents[j] /\ pushing'[j] = pushing[j] /\ (Queued(j)' <=> Queued(j))
      BY <1>6 DEF Kept
    <2>6. status'[j] = "CANCELLED" <=> status[j] = "CANCELLED"
      BY <1>3, <1>6 DEF Kept
    <2> QED BY <1>4, <2>1, <2>2, <2>3, <2>4, <2>5, <2>6 DEF Finished
  <1>7. CASE Accepted(j)
    BY <1>3, <1>7 DEF Accepted, Finished, AfterMining
  <1>8. CASE ParentsMove(j)
    <2>1. status[j] # "UNUSED" /\ parents[j] # "none" /\ Registered(j)
      <3>1. parents[j] # "none" /\ status[j] # "UNUSED"
        BY <1>3, <1>8 DEF ParentsMove
      <3>2. status[j] \in {"PENDING", "GETTING_PARENTS", "CANCELLED"}
        BY <3>1 DEF IInv, JobInv, FreshInv
      <3> QED BY <1>4, <3>1, <3>2 DEF Finished, AfterMining
    <2> QED BY <1>3, <1>4, <1>8, <2>1 DEF ParentsMove, Finished, AfterMining
  <1>9. CASE Cancelled(j)
    <2>1. Queued(j)
      BY <1>1, <1>9 DEF Cancelled, LetGo
    <2>2. pushing'[j] = pushing[j]
      BY <1>9 DEF Cancelled, Counts
    <2> QED BY <1>3, <1>9, <2>1, <2>2 DEF Cancelled, TimersKept, Finished, AfterMining
  <1>10. CASE Submitted(j)
    <2>1. pushing'[j] = pushing[j]
      BY <1>10 DEF Submitted, Counts
    <2> QED BY <1>4, <1>10, <2>1 DEF Submitted, Settled, TimersKept, Finished
  <1>11. CASE Handled(j)
    <2>1. scheduled[j] > 0 => parents[j] = "none" /\ status[j] # "UNUSED"
      BY JobTypes DEF IInv, JobInv, FreshInv, Untouched
    <2>2. status'[j] = "CANCELLED" => pushing'[j] = pushing[j] /\ Finished(j)
      BY <1>11 DEF Handled, Counts, Finished, AfterMining
    <2> QED BY <1>3, <1>4, <1>11, <2>1, <2>2
         DEF Handled, Settled, TimersKept, Finished, AfterMining
  <1>12. CASE Pushed(j)
    BY <1>4, <1>12 DEF Pushed, Settled, TimersKept, Finished, AfterMining
  <1>13. CASE TimesOut(j)
    <2>1. pushing'[j] = pushing[j] /\ status[j] # "UNUSED"
      BY <1>3, <1>13 DEF TimesOut, Counts
    <2> QED BY <1>4, <1>13, <2>1 DEF TimesOut, Settled, Finished, AfterMining
  <1>14. CASE CleanedUp(j)
    <2>1. pushing'[j] = pushing[j] /\ ~Queued(j)
      BY <1>3, <1>14 DEF CleanedUp, Counts
    <2>2. status[j] # "UNUSED" /\ parents[j] = "none" /\ Finished(j)
      BY <1>1, <1>3, <1>14, <2>1 DEF CleanedUp, LetGo
    <2> QED BY <1>4, <1>14, <2>1, <2>2 DEF CleanedUp, Finished
  <1> QED BY <1>2, <1>6, <1>7, <1>8, <1>9, <1>10, <1>11, <1>12, <1>13, <1>14 DEF Life

\* The invariant of the histories.
LEMMA OwnHashHolds == HistorySpec => [](IInv /\ \A j \in Jobs : OwnHash(j))
  <1> DEFINE Inv == \A j \in Jobs : OwnHash(j)
  <1>1. HistoryInit => Init /\ Inv
    BY DEF HistoryInit, Init, OwnHash, Finished, AfterMining
  <1>2. [HistoryNext]_historyVars => [Next]_vars
    BY HistoryStepIsStep
  <1>3. IInv /\ IInv' /\ Inv /\ [HistoryNext]_historyVars => Inv'
    <2> SUFFICES ASSUME IInv, IInv', Inv, [HistoryNext]_historyVars, NEW j \in Jobs
                 PROVE  OwnHash(j)'
      OBVIOUS
    <2>1. CASE Uuid[j] \in let_go'
      BY <2>1 DEF OwnHash
    <2>2. CASE Uuid[j] \notin let_go'
      BY <2>2, OwnHashStep
    <2> QED BY <2>1, <2>2
  <1> QED BY <1>1, <1>2, <1>3, IInvHolds, PTL DEF HistorySpec, Spec

\* A job that has not ended keeps its hash until it is cancelled, unless a job
\* of its transaction was cancelled, or cleaned up, while under way.
THEOREM LiveJobsKeepTheirHash == HistorySpec => LiveJobKeepsHash
  <1> DEFINE Inv == \A j \in Jobs : OwnHash(j)
  <1>1. IInv /\ IInv' /\ Inv /\ [HistoryNext]_historyVars =>
          \A j \in Jobs : Registered(j) /\ ~Finished(j) =>
             Registered(j)' \/ status'[j] = "CANCELLED" \/ Uuid[j] \in let_go'
    BY OwnHashStep
  <1> QED BY <1>1, OwnHashHolds, PTL DEF HistorySpec, LiveJobKeepsHash

\* CANCELLED is final, under the same condition.
THEOREM CancelledJobsStayCancelled == HistorySpec => CancelledIsFinal
  <1> DEFINE Inv == \A j \in Jobs : OwnHash(j)
  <1>1. IInv /\ IInv' /\ Inv /\ [HistoryNext]_historyVars =>
          \A j \in Jobs : status[j] = "CANCELLED" /\ Uuid[j] \notin let_go =>
             status'[j] = "CANCELLED" /\ ~Queued(j)'
    <2> SUFFICES ASSUME IInv, IInv', Inv, [HistoryNext]_historyVars, NEW j \in Jobs,
                        status[j] = "CANCELLED", Uuid[j] \notin let_go
                 PROVE  status'[j] = "CANCELLED" /\ ~Queued(j)'
      OBVIOUS
    <2>1. [Next]_vars
      BY HistoryStepIsStep
    <2>2. parents[j] = "none" /\ pushing[j] = 0
      BY DEF OwnHash
    <2> QED BY <2>1, <2>2, CancelledStep
  <1> QED BY <1>1, OwnHashHolds, PTL DEF HistorySpec, CancelledIsFinal
-----------------------------------------------------------------------------
(* RunService: it runs the manager faithfully, so that all that is proved  *)
(* of the manager holds in the service, and a graceful shutdown leaves     *)
(* behind no job that was queued when it began.                            *)

\* A step of the service is a step of the manager, or none.
LEMMA ServiceStepIsManagerStep == [ServiceNext]_allVars => [Next]_vars
  <1> SUFFICES ASSUME ServiceNext PROVE [Next]_vars
    BY DEF allVars
  <1>1. CASE ManagerStep
    BY <1>1 DEF ManagerStep, Next, MinerStep
  <1>2. ASSUME NEW m \in Miners, ConnectionMade(m) \/ Subscribe(m) \/ ConnectionLost(m)
        PROVE  MinerReady(m) \/ MinerLost(m) \/ UNCHANGED vars
    BY <1>2 DEF ConnectionMade, Subscribe, ConnectionLost
  <1>3. ASSUME NEW s \in Signals, SignalArrives(s) \/ DrainEnds(s) \/ CloseServer(s) \/ StopLoop(s)
        PROVE  RefuseNewJobs \/ UNCHANGED vars
    BY <1>3 DEF SignalArrives, DrainEnds, CloseServer, StopLoop, ManagerShutdown
  <1> QED BY <1>1, <1>2, <1>3 DEF ServiceNext, Next, MinerStep

\* The service is an implementation of the manager's specification: what the
\* shutdown and the connections add changes nothing for the manager.
THEOREM ServiceRunsManager == ServiceSpec => ManagerSpec
  <1>1. ServiceInit => Init
    BY DEF ServiceInit
  <1>2. [ServiceNext]_allVars => [Next]_vars
    BY ServiceStepIsManagerStep
  <1> QED BY <1>1, <1>2, PTL DEF ServiceSpec, ManagerSpec, Spec

\* So the service keeps what the manager promises: one fleet on the head of one
\* queue that nobody overtakes in, statuses that clients see go forward only,
\* each failure counted once, and a timer or coroutine for every job.
COROLLARY ServiceKeepsManagerPromises ==
    ServiceSpec => /\ FleetSpec /\ RegistrySpec /\ EndStatesHold
                   /\ NoOvertaking /\ MinersKeepTheirJob
                   /\ [](QueueAssertions /\ TimersCover /\ FailureCountedOnce /\ DoneIsAnnounced)
  BY ServiceRunsManager, ManagerImplementsFleet, ManagerImplementsRegistry, EndStatesAreKept,
     NobodyOvertakes, MinersKeepTheirJobs, QueueAssertionsHold, TimersAlwaysCover,
     FailuresAreCountedOnce, DoneMeansAnnounced, PTL DEF ManagerSpec

\* What the connections of the service are to its manager.
ConnectionsAreTyped ==
    /\ shutdown \in [Signals -> {"none", "draining", "drained", "closed", "stopped"}]
    /\ miners \subseteq connected
    /\ connected \subseteq Miners
    /\ refuse_new_miners \subseteq connected
    /\ closing \subseteq refuse_new_miners

\* Every step of the service keeps that.
LEMMA ConnectionsStayTyped ==
    ASSUME TypeOK, ConnectionsAreTyped, [ServiceNext]_allVars
    PROVE  ConnectionsAreTyped'
  <1> USE DEF ConnectionsAreTyped, serviceVars, minerVars
  <1>1. CASE ManagerStep
    <2>1. UNCHANGED serviceVars
      BY <1>1 DEF ManagerStep
    <2>2. miners' = miners
      BY <1>1 DEF ManagerStep, JobStep, AddJob, AddParentsStart, AddParentsOk, AddParentsFail,
                  CancelJob, RunSolution, PushOk, PushFailed, PushError, PushEnds, JobTimeout,
                  CleanUp, RefreshJob, UpdateMinerJob, SubmitSolution, TemplateArrives,
                  TemplateLost
    <2> QED BY <2>1, <2>2
  <1>2. ASSUME NEW m \in Miners, ConnectionMade(m) PROVE ConnectionsAreTyped'
    BY <1>2 DEF ConnectionMade, vars
  <1>3. ASSUME NEW m \in Miners, Subscribe(m) PROVE ConnectionsAreTyped'
    BY <1>3 DEF Subscribe, MinerReady
  <1>4. ASSUME NEW m \in Miners, ConnectionLost(m) PROVE ConnectionsAreTyped'
    <2>1. m \notin miners'
      BY <1>4 DEF ConnectionLost, MinerLost, vars
    <2>2. miners' \subseteq miners
      BY <1>4 DEF ConnectionLost, MinerLost, vars
    <2> QED BY <1>4, <2>1, <2>2 DEF ConnectionLost
  <1>5. ASSUME NEW s \in Signals, SignalArrives(s) \/ DrainEnds(s) PROVE ConnectionsAreTyped'
    BY <1>5 DEF SignalArrives, DrainEnds, ManagerShutdown, RefuseNewJobs
  <1>6. ASSUME NEW s \in Signals, CloseServer(s) \/ StopLoop(s) PROVE ConnectionsAreTyped'
    BY <1>6 DEF CloseServer, StopLoop, vars
  <1>7. CASE UNCHANGED allVars
    BY <1>7 DEF allVars, vars
  <1> QED BY <1>1, <1>2, <1>3, <1>4, <1>5, <1>6, <1>7 DEF ServiceNext

\* In the service only an open connection mines, and one that closes can no
\* longer subscribe.
THEOREM ServiceTypesHold == ServiceSpec => []ServiceTypeOK
  <1>1. ServiceInit => ConnectionsAreTyped
    BY DEF ServiceInit, Init, ConnectionsAreTyped
  <1>2. TypeOK /\ ConnectionsAreTyped /\ [ServiceNext]_allVars => ConnectionsAreTyped'
    BY ConnectionsStayTyped
  <1>3. TypeOK /\ ConnectionsAreTyped <=> ServiceTypeOK
    BY DEF ServiceTypeOK, ConnectionsAreTyped
  <1> QED BY <1>1, <1>2, <1>3, ServiceRunsManager, TypeCorrect, PTL DEF ServiceSpec, ManagerSpec

\* What a drain relies on: only jobs with add_parents have a coroutine that
\* enqueues them later, and from a signal on no job is accepted.
DrainInv == /\ \A j \in Jobs : parents[j] # "none" => j \in AddParents
            /\ \A s \in Signals : Drained(s) => refuse_new_jobs
            /\ DOMAIN shutdown = Signals
            /\ OnlyLateParentsAreLeft

\* A step of a coroutine of add_parents, or a new job, starts or ends one.
LEMMA ParentsComeFromAddJob ==
    ASSUME TypeOK, [Next]_vars, NEW j \in Jobs, parents'[j] # "none"
    PROVE  parents[j] # "none" \/ j \in AddParents
  <1> USE DEF vars, jobVars, timerVars, coroVars, workVars, minerVars, envVars, eventVars
  <1>1. ASSUME NEW k \in Jobs, JobStep(k)
        PROVE  \/ parents' = parents
               \/ \E v : /\ parents' = [parents EXCEPT ![k] = v]
                         /\ v = "none" \/ k \in AddParents \/ parents[k] # "none"
    <2>1. CASE AddJob(k)
      BY <2>1 DEF AddJob
    <2>2. CASE AddParentsStart(k)
      <3>1. parents[k] # "none" /\ parents' = [parents EXCEPT ![k] = "awaiting"]
        BY <2>2 DEF AddParentsStart
      <3> QED BY <3>1
    <2>3. CASE AddParentsOk(k) \/ AddParentsFail(k)
      BY <2>3 DEF AddParentsOk, AddParentsFail
    <2>4. CASE \/ CancelJob(k) \/ RunSolution(k) \/ PushOk(k) \/ PushFailed(k) \/ PushError(k)
               \/ JobTimeout(k) \/ CleanUp(k)
      BY <2>4 DEF CancelJob, RunSolution, PushOk, PushFailed, PushError, PushEnds,
                  JobTimeout, CleanUp
    <2> QED BY <1>1, <2>1, <2>2, <2>3, <2>4 DEF JobStep
  <1>2. ASSUME \/ \E m \in Miners : MinerStep(m)
               \/ TemplateArrives \/ TemplateLost \/ RefuseNewJobs \/ UNCHANGED vars
        PROVE  parents' = parents
    BY <1>2 DEF MinerStep, MinerReady, MinerLost, RefreshJob, UpdateMinerJob, SubmitSolution,
                TemplateArrives, TemplateLost, RefuseNewJobs
  <1>3. \A k \in Jobs : \A v : [parents EXCEPT ![k] = v][j] = IF j = k THEN v ELSE parents[j]
    BY DEF TypeOK
  <1> QED BY <1>1, <1>2, <1>3 DEF Next

\* While jobs are refused, a job enters the queue only when its parents come.
LEMMA QueueGrowsWithParents ==
    ASSUME IInv, [Next]_vars, refuse_new_jobs, NEW k \in Range(tx_queue')
    PROVE  k \in Range(tx_queue) \/ (k \in Jobs /\ parents[k] # "none")
  <1>1. tx_queue \in Seq(Jobs) /\ IsInjective(tx_queue)
    BY DEF IInv, TypeOK, QueueShape
  <1>2. ASSUME NEW j \in Jobs PROVE Range(Without(tx_queue, j)) \subseteq Range(tx_queue)
    BY <1>1, WithoutProperties
  <1>3. ASSUME NEW j \in Jobs, AddParentsOk(j)
        PROVE  parents[j] # "none" /\ tx_queue' = Append(tx_queue, j)
    BY <1>3 DEF AddParentsOk, Enqueue
  <1>4. ASSUME NEW j \in Jobs, CancelJob(j) \/ RunSolution(j) \/ JobTimeout(j)
        PROVE  tx_queue' = tx_queue \/ tx_queue' = Without(tx_queue, j)
    BY <1>4 DEF CancelJob, RunSolution, JobTimeout
  <1>5. ASSUME NEW j \in Jobs, \/ AddJob(j) \/ AddParentsStart(j) \/ AddParentsFail(j) \/ PushOk(j)
                               \/ PushFailed(j) \/ PushError(j) \/ CleanUp(j)
        PROVE  tx_queue' = tx_queue
    BY <1>5 DEF AddJob, AddParentsStart, AddParentsFail, PushOk, PushFailed, PushError, PushEnds,
                CleanUp
  <1>6. ASSUME \/ \E m \in Miners : MinerStep(m)
               \/ TemplateArrives \/ TemplateLost \/ RefuseNewJobs \/ UNCHANGED vars
        PROVE  tx_queue' = tx_queue
    BY <1>6 DEF MinerStep, MinerReady, MinerLost, RefreshJob, UpdateMinerJob, SubmitSolution,
                TemplateArrives, TemplateLost, RefuseNewJobs, vars, jobVars
  <1>7. \A j \in Jobs : Range(Append(tx_queue, j)) = Range(tx_queue) \cup {j}
    BY <1>1, AppendNewcomer
  <1>8. \/ tx_queue' = tx_queue
        \/ \E j \in Jobs : \/ tx_queue' = Without(tx_queue, j)
                           \/ parents[j] # "none" /\ tx_queue' = Append(tx_queue, j)
    <2>1. ASSUME NEW j \in Jobs, JobStep(j)
          PROVE  \/ tx_queue' = tx_queue \/ tx_queue' = Without(tx_queue, j)
                 \/ parents[j] # "none" /\ tx_queue' = Append(tx_queue, j)
      BY <2>1, <1>3, <1>4, <1>5 DEF JobStep
    <2> QED BY <2>1, <1>6 DEF Next
  <1>9. CASE tx_queue' = tx_queue
    BY <1>9
  <1>10. ASSUME NEW j \in Jobs, tx_queue' = Without(tx_queue, j)
         PROVE  k \in Range(tx_queue)
    BY <1>10, <1>2
  <1>11. ASSUME NEW j \in Jobs, parents[j] # "none", tx_queue' = Append(tx_queue, j)
         PROVE  k \in Range(tx_queue) \/ k = j
    BY <1>11, <1>7
  <1> QED BY <1>8, <1>9, <1>10, <1>11

\* Every step of the service keeps what a drain relies on.
LEMMA DrainInvStep == IInv /\ DrainInv /\ [ServiceNext]_allVars => DrainInv'
  <1> SUFFICES ASSUME IInv, DrainInv, [ServiceNext]_allVars PROVE DrainInv'
    OBVIOUS
  <1>1. [Next]_vars
    BY ServiceStepIsManagerStep
  <1>2. \A j \in Jobs : parents'[j] # "none" => j \in AddParents
    BY <1>1, ParentsComeFromAddJob DEF DrainInv, IInv
  <1>3. \/ UNCHANGED shutdown /\ UNCHANGED refuse_new_jobs
        \/ \E s \in Signals : /\ shutdown' = [shutdown EXCEPT ![s] = "draining"]
                              /\ refuse_new_jobs'
        \/ \E s \in Signals : /\ shutdown' = [shutdown EXCEPT ![s] = "drained"]
                              /\ refuse_new_jobs' /\ tx_queue = <<>> /\ tx_queue' = tx_queue
        \/ \E s \in Signals : /\ \E p : shutdown' = [shutdown EXCEPT ![s] = p]
                              /\ Drained(s) /\ UNCHANGED refuse_new_jobs
    <2>1. CASE UNCHANGED allVars
      BY <2>1 DEF allVars, vars, envVars, serviceVars
    <2>2. CASE ManagerStep
      BY <2>2 DEF ManagerStep, JobStep, AddJob, AddParentsStart, AddParentsOk, AddParentsFail,
                  CancelJob, RunSolution, PushOk, PushFailed, PushError, PushEnds, JobTimeout,
                  CleanUp, RefreshJob, UpdateMinerJob, SubmitSolution, TemplateArrives,
                  TemplateLost, envVars, serviceVars
    <2>3. CASE \E m \in Miners : ConnectionMade(m) \/ Subscribe(m) \/ ConnectionLost(m)
      BY <2>3 DEF ConnectionMade, Subscribe, ConnectionLost, MinerReady, MinerLost, vars,
                  envVars, serviceVars
    <2>4. CASE \E s \in Signals : SignalArrives(s) \/ DrainEnds(s)
      BY <2>4 DEF SignalArrives, DrainEnds, ManagerShutdown, RefuseNewJobs, jobVars
    <2>5. CASE \E s \in Signals : CloseServer(s) \/ StopLoop(s)
      BY <2>5 DEF CloseServer, StopLoop, Drained, vars, envVars
    <2> QED BY <2>1, <2>2, <2>3, <2>4, <2>5 DEF ServiceNext
  <1>4. \/ \A s \in Signals : Drained(s)' => \E t \in Signals : Drained(t)
        \/ tx_queue = <<>> /\ tx_queue' = tx_queue
    BY <1>3 DEF Drained, DrainInv
  <1>5. DOMAIN shutdown' = Signals
    BY <1>3 DEF DrainInv
  <1>6. \A s \in Signals : Drained(s)' => refuse_new_jobs'
    BY <1>3 DEF Drained, DrainInv
  <1>7. OnlyLateParentsAreLeft'
    <2> SUFFICES ASSUME NEW s \in Signals, Drained(s)', NEW k \in Range(tx_queue')
                 PROVE  k \in AddParents
      BY DEF OnlyLateParentsAreLeft
    <2>1. CASE tx_queue = <<>> /\ tx_queue' = tx_queue
      BY <2>1 DEF Range
    <2>2. CASE \E t \in Signals : Drained(t)
      BY <2>2, <1>1, QueueGrowsWithParents DEF DrainInv, OnlyLateParentsAreLeft
    <2> QED BY <1>4, <2>1, <2>2
  <1> QED BY <1>2, <1>5, <1>6, <1>7 DEF DrainInv

\* A graceful shutdown leaves no job behind that was in the queue when it
\* began: those still queued got their parents after it.
THEOREM ShutdownLeavesOnlyLateParents == ServiceSpec => []OnlyLateParentsAreLeft
  <1>1. ServiceInit => DrainInv
    BY DEF ServiceInit, Init, DrainInv, OnlyLateParentsAreLeft, Drained, Range
  <1>2. IInv /\ DrainInv /\ [ServiceNext]_allVars => DrainInv'
    BY DrainInvStep
  <1>3. DrainInv => OnlyLateParentsAreLeft
    BY DEF DrainInv
  <1> QED BY <1>1, <1>2, <1>3, ServiceRunsManager, IInvHolds, PTL DEF ServiceSpec, ManagerSpec
=============================================================================
