------------------------- MODULE RunDevServiceProofs -------------------------
(***************************************************************************)
(* Proofs about the dev mode: RunDevService implements DevMiningManager,   *)
(* which implements JobRegistry; cancelled tasks end and registered jobs   *)
(* are not left to themselves; a shutdown by one signal cuts nothing off.  *)
(* For any jobs and transactions, any submissions of the same transaction, *)
(* and any signals.                                                        *)
(***************************************************************************)
EXTENDS RunDevService, TLAPS

Statuses == AfterMining \cup {"PENDING", "GETTING_PARENTS", "MINING"}
Places == Active \cup {"none", "ended", "over"}

\* The types of the state that the invariants are about.
Types ==
    /\ status \in [Jobs -> Statuses]
    /\ task \in [Jobs -> Places]
    /\ tx_jobs \in [Txs -> Jobs \cup {None}] /\ tasks \in [Txs -> Jobs \cup {None}]
    /\ \A j \in Jobs, x \in Txs : tx_jobs[x] = j \/ tasks[x] = j => TxOf[j] = x /\ task[j] # "none"
    /\ cancelling \in SUBSET Jobs /\ gathered \in SUBSET Jobs
    /\ \A j \in Jobs : j \in gathered => task[j] # "none"
    /\ cleanups \in SUBSET Jobs
    /\ \A j \in Jobs : j \in cleanups => task[j] \in {"ended", "over"} /\ status[j] \in AfterMining
    /\ refuse_new_jobs \in BOOLEAN /\ started \in {"started", "stopping", "stopped"}

\* A registered job was not cancelled.
NoneCancelled == \A j \in Jobs : tx_jobs[TxOf[j]] = j => status[j] # "CANCELLED"

\* The status of a job says where its task is, unless it was cancelled.
InStep ==
    \A j \in Jobs :
      /\ task[j] = "none" => status[j] = "PENDING"
      /\ task[j] = "new" => status[j] \in {"PENDING", "CANCELLED"}
      /\ task[j] = "parents" => status[j] \in {"GETTING_PARENTS", "CANCELLED"}
      /\ task[j] \in {"solving", "pushing"} => status[j] \in {"MINING", "CANCELLED"}

\* A job of the transaction was cancelled with its task.
Messy(x) == \E k \in Jobs : TxOf[k] = x /\ k \in cancelling /\ status[k] \in AfterMining

\* Until then, whatever is under way for a transaction is what is registered.
Neat(j) ==
    /\ task[j] \in Active \cup {"ended"} =>
         tx_jobs[TxOf[j]] = j /\ (tasks[TxOf[j]] = j \/ j \in cancelling)
    /\ j \in cleanups => tx_jobs[TxOf[j]] = j
NeatUntilMessy == \A j \in Jobs : ~Messy(TxOf[j]) => Neat(j)

\* A manager that stops accepts nothing, and has cancelled all that it knows.
StopCovers ==
    /\ started # "started" => refuse_new_jobs
    /\ started = "stopping" => \A j \in Jobs : tasks[TxOf[j]] = j => j \in cancelling
    /\ started = "stopped" => \A j \in Jobs : j \in gathered => task[j] \notin Active

DevInv == Types /\ NoneCancelled /\ InStep /\ NeatUntilMessy /\ StopCovers
-----------------------------------------------------------------------------
(* The manager.                                                            *)

\* A step of the coroutine of job j: it leaves the others and the registry be.
Moves(j) ==
    /\ \A k \in Jobs \ {j} : status'[k] = status[k] /\ task'[k] = task[k]
                             /\ (k \in cleanups' <=> k \in cleanups)
    /\ UNCHANGED <<tx_jobs, cancelling, refuse_new_jobs, started, gathered>>

\* The invariant holds at the start.
LEMMA DevInvInit == DevInit => DevInv
  <1> SUFFICES ASSUME DevInit PROVE DevInv
    OBVIOUS
  <1>1. /\ \A j \in Jobs : status[j] = "PENDING" /\ task[j] = "none" /\ TxOf[j] \in Txs
        /\ \A x \in Txs : tx_jobs[x] = None /\ tasks[x] = None
        /\ None \notin Jobs /\ gathered = {} /\ cancelling = {} /\ cleanups = {}
        /\ started = "started"
    BY DevAssumption DEF DevInit
  <1>2. Types
    <2>1. /\ status \in [Jobs -> Statuses] /\ task \in [Jobs -> Places]
          /\ tx_jobs \in [Txs -> Jobs \cup {None}] /\ tasks \in [Txs -> Jobs \cup {None}]
          /\ refuse_new_jobs \in BOOLEAN
      BY DEF DevInit, Statuses, Places
    <2> QED BY <1>1, <2>1 DEF Types
  <1>3. NoneCancelled /\ InStep
    BY <1>1 DEF NoneCancelled, InStep
  <1>4. NeatUntilMessy
    BY <1>1 DEF NeatUntilMessy, Neat, Active
  <1>5. StopCovers
    BY <1>1 DEF StopCovers
  <1> QED BY <1>2, <1>3, <1>4, <1>5 DEF DevInv

\* What the coroutine of a job does.
LEMMA CoroutineKeeps ==
    ASSUME DevInv, NEW j \in Jobs,
           TaskStarts(j) \/ ParentsArrive(j) \/ SolveEnds(j) \/ PushEnds(j) \/ TaskCancelled(j)
    PROVE  DevInv'
  <1>1. Types /\ NoneCancelled /\ InStep /\ NeatUntilMessy /\ StopCovers
    BY DEF DevInv
  <1>2. /\ task[j] \in Active /\ Moves(j) /\ tasks' = tasks
        /\ status' = [status EXCEPT ![j] = status'[j]] /\ task' = [task EXCEPT ![j] = task'[j]]
        /\ status'[j] \in Statuses
        /\ task'[j] \in {"parents", "solving", "pushing", "ended"}
        /\ cleanups' \in {cleanups, cleanups \cup {j}}
        /\ j \in cleanups' => task'[j] = "ended" /\ status'[j] \in AfterMining
    BY <1>1 DEF TaskStarts, ParentsArrive, SolveEnds, PushEnds, TaskCancelled, Running, Await, Fail,
                Solved, Types, Moves, Active, Statuses, Places, AfterMining, registries, counters, service
  <1>3. /\ status'[j] = "CANCELLED" => status[j] = "CANCELLED"
        /\ task'[j] = "parents" => status'[j] = "GETTING_PARENTS"
        /\ task'[j] = "solving" => status'[j] = "MINING"
        /\ task'[j] = "pushing" => task[j] = "solving" /\ status'[j] = status[j]
        /\ j \in cancelling => status'[j] = status[j]
    BY <1>1 DEF TaskStarts, ParentsArrive, SolveEnds, PushEnds, TaskCancelled, Running, Await, Fail,
                Solved, Types, Active, AfterMining
  <1>4. Types'
    BY <1>1, <1>2 DEF Types, Moves, Active, Places
  <1>5. NoneCancelled' /\ InStep'
    BY <1>1, <1>2, <1>3 DEF NoneCancelled, InStep, Moves, Types, Active
  <1>6. \A x \in Txs : Messy(x) => Messy(x)'
    BY <1>1, <1>2, <1>3 DEF Messy, Moves
  <1>7. NeatUntilMessy'
    <2> SUFFICES ASSUME NEW k \in Jobs, ~Messy(TxOf[k])' PROVE Neat(k)'
      BY DEF NeatUntilMessy
    <2>1. TxOf[k] \in Txs /\ TxOf'[k] = TxOf[k]
      BY DevAssumption
    <2>2. Neat(k)
      BY <1>1, <1>6, <2>1 DEF NeatUntilMessy
    <2> QED BY <1>1, <1>2, <2>2 DEF Neat, Moves, Active
  <1>8. StopCovers'
    BY <1>1, <1>2 DEF StopCovers, Moves, Types, Active
  <1> QED BY <1>4, <1>5, <1>7, <1>8 DEF DevInv

\* A job is submitted.
LEMMA AddKeeps ==
    ASSUME DevInv, NEW j \in Jobs, AddJob(j)
    PROVE  DevInv'
  <1>1. Types /\ NoneCancelled /\ InStep /\ NeatUntilMessy /\ StopCovers /\ TxOf \in [Jobs -> Txs]
    BY DevAssumption DEF DevInv
  <1>2. /\ task[j] = "none" /\ tx_jobs[TxOf[j]] = None /\ ~refuse_new_jobs
        /\ tx_jobs' = [tx_jobs EXCEPT ![TxOf[j]] = j] /\ tasks' = [tasks EXCEPT ![TxOf[j]] = j]
        /\ task' = [task EXCEPT ![j] = "new"]
        /\ UNCHANGED <<status, cancelling, cleanups, refuse_new_jobs, started, gathered>>
    BY DEF AddJob, service
  <1>3. j \notin gathered /\ j \notin cleanups /\ None \notin Jobs /\ status[j] = "PENDING"
    BY <1>1, <1>2, DevAssumption DEF Types, InStep
  <1>4. Types'
    BY <1>1, <1>2, <1>3 DEF Types, Places, Active
  <1>5. NoneCancelled' /\ InStep'
    BY <1>1, <1>2, <1>3 DEF NoneCancelled, InStep, Types
  <1>6. NeatUntilMessy'
    <2> SUFFICES ASSUME NEW k \in Jobs, ~Messy(TxOf[k])' PROVE Neat(k)'
      BY DEF NeatUntilMessy
    <2>1. Neat(k)
      BY <1>1, <1>2 DEF NeatUntilMessy, Messy
    <2>2. CASE k = j
      BY <1>1, <1>2, <1>3, <2>2 DEF Neat, Types
    <2>3. CASE k # j
      <3>1. TxOf[k] # TxOf[j] \/ (task[k] \notin Active \cup {"ended"} /\ k \notin cleanups)
        BY <1>2, <1>3, <2>1 DEF Neat
      <3> QED BY <1>1, <1>2, <2>1, <2>3, <3>1 DEF Neat, Types
    <2> QED BY <2>2, <2>3
  <1>7. StopCovers'
    BY <1>1, <1>2 DEF StopCovers
  <1> QED BY <1>4, <1>5, <1>6, <1>7 DEF DevInv

\* A job is cancelled.
LEMMA CancelKeeps ==
    ASSUME DevInv, NEW j \in Jobs, CancelJob(j)
    PROVE  DevInv'
  <1>1. Types /\ NoneCancelled /\ InStep /\ NeatUntilMessy /\ StopCovers /\ TxOf \in [Jobs -> Txs]
        /\ None \notin Jobs
    BY DevAssumption DEF DevInv
  <1>2. /\ tx_jobs[TxOf[j]] = j /\ status[j] \notin AfterMining
        /\ cancelling' = cancelling \cup ({tasks[TxOf[j]]} \ {None})
        /\ tasks' = [tasks EXCEPT ![TxOf[j]] = None] /\ tx_jobs' = [tx_jobs EXCEPT ![TxOf[j]] = None]
        /\ status' = [status EXCEPT ![j] = "CANCELLED"]
        /\ UNCHANGED <<task, cleanups, refuse_new_jobs, started, gathered>>
    BY DEF CancelJob, service
  <1>3. task[j] # "none" /\ tasks[TxOf[j]] \in Jobs \cup {None}
    BY <1>1, <1>2 DEF Types
  <1>4. Types'
    BY <1>1, <1>2, <1>3 DEF Types, Statuses, AfterMining
  <1>5. NoneCancelled' /\ InStep'
    BY <1>1, <1>2, <1>3 DEF NoneCancelled, InStep, Types
  <1>6. \A x \in Txs : Messy(x) => Messy(x)'
    BY <1>1, <1>2 DEF Messy, Types, AfterMining
  <1>7. NeatUntilMessy'
    <2> SUFFICES ASSUME NEW k \in Jobs, ~Messy(TxOf[k])' PROVE Neat(k)'
      BY DEF NeatUntilMessy
    <2>1. Neat(k) /\ ~Messy(TxOf[k])
      BY <1>1, <1>6 DEF NeatUntilMessy
    <2>2. CASE TxOf[k] # TxOf[j]
      BY <1>1, <1>2, <2>1, <2>2 DEF Neat, Types
    <2>3. CASE TxOf[k] = TxOf[j]
      <3>1. k # j => task'[k] \notin Active \cup {"ended"} /\ k \notin cleanups'
        BY <1>2, <2>1, <2>3 DEF Neat
      <3>2. ASSUME k = j, task[j] \in Active \cup {"ended"} PROVE FALSE
        <4>1. j \in cancelling' /\ status'[j] \in AfterMining
          BY <1>1, <1>2, <2>1, <3>2 DEF Neat, Types, AfterMining
        <4> QED BY <2>3, <4>1 DEF Messy
      <3>3. j \notin cleanups \/ k # j
        <4>1. ASSUME k = j, j \in cleanups PROVE FALSE
          <5>1. status[j] \in AfterMining
            BY <1>1, <4>1 DEF Types
          <5> QED BY <1>2, <5>1
        <4> QED BY <4>1
      <3> QED BY <1>2, <3>1, <3>2, <3>3 DEF Neat
    <2> QED BY <2>2, <2>3
  <1>8. StopCovers'
    BY <1>1, <1>2 DEF StopCovers, Types
  <1> QED BY <1>4, <1>5, <1>7, <1>8 DEF DevInv

\* The end of a task is noticed; its job is forgotten.
LEMMA EndKeeps ==
    ASSUME DevInv, NEW j \in Jobs, DoneCallback(j) \/ CleanUp(j)
    PROVE  DevInv'
  <1>1. Types /\ NoneCancelled /\ InStep /\ NeatUntilMessy /\ StopCovers /\ TxOf \in [Jobs -> Txs]
        /\ None \notin Jobs
    BY DevAssumption DEF DevInv
  <1>2. UNCHANGED <<status, cancelling, refuse_new_jobs, started, gathered>>
    BY DEF DoneCallback, CleanUp, service
  <1>3. \A x \in Txs : Messy(x)' <=> Messy(x)
    BY <1>2 DEF Messy
  <1>4. CASE DoneCallback(j)
    <2>1. /\ task[j] = "ended" /\ task' = [task EXCEPT ![j] = "over"]
          /\ tasks' = [tasks EXCEPT ![TxOf[j]] = None] /\ UNCHANGED <<tx_jobs, cleanups>>
      BY <1>4 DEF DoneCallback
    <2>2. Types' /\ NoneCancelled' /\ InStep' /\ StopCovers'
      BY <1>1, <1>2, <2>1 DEF Types, NoneCancelled, InStep, StopCovers, Places, Active
    <2>3. ASSUME NEW k \in Jobs, ~Messy(TxOf[k])' PROVE Neat(k)'
      <3>1. Neat(k) /\ (TxOf[k] = TxOf[j] => Neat(j))
        BY <1>1, <1>3, <2>3 DEF NeatUntilMessy
      <3>2. CASE k = j
        BY <1>1, <2>1, <3>1, <3>2 DEF Neat, Types, Active
      <3>3. CASE k # j /\ TxOf[k] = TxOf[j]
        BY <1>1, <2>1, <3>1, <3>3 DEF Neat, Types
      <3>4. CASE TxOf[k] # TxOf[j]
        BY <1>1, <1>2, <2>1, <3>1, <3>4 DEF Neat, Types
      <3> QED BY <3>2, <3>3, <3>4
    <2> QED BY <2>2, <2>3 DEF DevInv, NeatUntilMessy
  <1>5. CASE CleanUp(j)
    <2>1. /\ task[j] = "over" /\ j \in cleanups /\ cleanups' = cleanups \ {j}
          /\ tx_jobs' = [tx_jobs EXCEPT ![TxOf[j]] = None] /\ UNCHANGED <<tasks, task>>
      BY <1>5 DEF CleanUp
    <2>2. Types' /\ NoneCancelled' /\ InStep' /\ StopCovers'
      BY <1>1, <1>2, <2>1 DEF Types, NoneCancelled, InStep, StopCovers
    <2>3. ASSUME NEW k \in Jobs, ~Messy(TxOf[k])' PROVE Neat(k)'
      <3>1. Neat(k) /\ (TxOf[k] = TxOf[j] => Neat(j))
        BY <1>1, <1>3, <2>3 DEF NeatUntilMessy
      <3>2. CASE k = j
        BY <1>1, <2>1, <3>1, <3>2 DEF Neat, Active
      <3>3. CASE k # j /\ TxOf[k] = TxOf[j]
        BY <1>1, <2>1, <3>1, <3>3 DEF Neat
      <3>4. CASE TxOf[k] # TxOf[j]
        BY <1>1, <1>2, <2>1, <3>1, <3>4 DEF Neat, Types
      <3> QED BY <3>2, <3>3, <3>4
    <2> QED BY <2>2, <2>3 DEF DevInv, NeatUntilMessy
  <1> QED BY <1>4, <1>5

\* The service shuts down.
LEMMA StopKeeps ==
    ASSUME DevInv, ManagerShutdown \/ (refuse_new_jobs /\ Stop) \/ StopEnds \/ UNCHANGED devVars
    PROVE  DevInv'
  <1>1. Types /\ NoneCancelled /\ InStep /\ NeatUntilMessy /\ StopCovers /\ TxOf \in [Jobs -> Txs]
        /\ None \notin Jobs
    BY DevAssumption DEF DevInv
  <1>2. UNCHANGED <<status, tx_jobs, task, cleanups>>
    BY DEF ManagerShutdown, Stop, StopEnds, devVars, registries
  <1>3. cancelling \subseteq cancelling' /\ \A x \in Txs : Messy(x) => Messy(x)'
    BY <1>2 DEF ManagerShutdown, Stop, StopEnds, devVars, Messy
  <1>4. Types' /\ StopCovers' /\ \A j \in Jobs : tasks[TxOf[j]] = j
                                                  => tasks'[TxOf[j]] = j \/ j \in cancelling'
    <2>1. CASE ManagerShutdown
      BY <1>1, <1>2, <2>1 DEF ManagerShutdown, registries, Types, StopCovers
    <2>2. CASE refuse_new_jobs /\ Stop
      BY <1>1, <1>2, <2>2 DEF Stop, registries, Types, StopCovers
    <2>3. CASE StopEnds
      BY <1>1, <1>2, <2>3 DEF StopEnds, Types, StopCovers
    <2>4. CASE UNCHANGED devVars
      BY <1>1, <1>2, <2>4 DEF devVars, Types, StopCovers
    <2> QED BY <2>1, <2>2, <2>3, <2>4
  <1>5. NoneCancelled' /\ InStep'
    BY <1>1, <1>2 DEF NoneCancelled, InStep
  <1>6. NeatUntilMessy'
    <2> SUFFICES ASSUME NEW k \in Jobs, ~Messy(TxOf[k])' PROVE Neat(k)'
      BY DEF NeatUntilMessy
    <2>1. Neat(k)
      BY <1>1, <1>3 DEF NeatUntilMessy
    <2> QED BY <1>2, <1>3, <1>4, <2>1 DEF Neat
  <1> QED BY <1>4, <1>5, <1>6 DEF DevInv

\* The invariant holds always.
THEOREM DevInvHolds == DevSpec => []DevInv
  <1>1. DevInv /\ [DevNext]_devVars => DevInv'
    BY CoroutineKeeps, AddKeeps, CancelKeeps, EndKeeps, StopKeeps DEF DevNext, JobStep
  <1> QED BY <1>1, DevInvInit, PTL DEF DevSpec

\* Nothing is mined for nobody.
THEOREM CancelledTasksEnd == DevSpec => []CancelledTaskEnds
  <1>1. DevInv => CancelledTaskEnds
    <2> SUFFICES ASSUME DevInv, NEW j \in Jobs, status[j] = "CANCELLED", Running(j)
                 PROVE  Resubmitted(j)
      BY DEF CancelledTaskEnds
    <2>1. Messy(TxOf[j])
      BY DEF DevInv, NoneCancelled, NeatUntilMessy, Neat, Running
    <2> QED BY <2>1 DEF Messy, Resubmitted, Running
  <1> QED BY <1>1, DevInvHolds, PTL

\* The registered task is one of the registered job, if any; and a job whose
\* task was cancelled has a clean-up only if a stop of the manager, after which
\* nothing is submitted, cancelled the task too late.
CleanUpsAreOwn ==
    /\ \A x \in Txs : tasks[x] # None => tx_jobs[x] \in {tasks[x], None}
    /\ \A k \in cleanups \cap cancelling : refuse_new_jobs /\ tx_jobs[TxOf[k]] \in {k, None}

\* Every step keeps that.
LEMMA CleanUpsStayOwn == DevInv /\ CleanUpsAreOwn /\ [DevNext]_devVars => CleanUpsAreOwn'
  <1> SUFFICES ASSUME DevInv, CleanUpsAreOwn, [DevNext]_devVars PROVE CleanUpsAreOwn'
    OBVIOUS
  <1>1. Types /\ TxOf \in [Jobs -> Txs] /\ None \notin Jobs
    BY DevAssumption DEF DevInv
  <1>2. /\ \A x \in Txs : tasks[x] # None => tx_jobs[x] \in {tasks[x], None}
        /\ \A k \in cleanups \cap cancelling :
              k \in Jobs /\ refuse_new_jobs /\ tx_jobs[TxOf[k]] \in {k, None}
        /\ tx_jobs \in [Txs -> Jobs \cup {None}] /\ tasks \in [Txs -> Jobs \cup {None}]
    BY <1>1 DEF CleanUpsAreOwn, Types
  <1>3. ASSUME NEW j \in Jobs,
               \/ TaskStarts(j) \/ ParentsArrive(j) \/ SolveEnds(j) \/ PushEnds(j) \/ TaskCancelled(j)
        PROVE  CleanUpsAreOwn'
    <2>1. /\ UNCHANGED <<tx_jobs, tasks, cancelling, refuse_new_jobs>>
          /\ cleanups' = cleanups \/ (j \notin cancelling /\ cleanups' = cleanups \cup {j})
      BY <1>3 DEF TaskStarts, ParentsArrive, SolveEnds, PushEnds, TaskCancelled, Running, Await,
                  Fail, Solved, registries, counters, service
    <2> QED BY <1>2, <2>1 DEF CleanUpsAreOwn
  <1>4. ASSUME NEW j \in Jobs, AddJob(j) PROVE CleanUpsAreOwn'
    <2>1. /\ ~refuse_new_jobs /\ UNCHANGED <<cancelling, cleanups>>
          /\ tx_jobs' = [tx_jobs EXCEPT ![TxOf[j]] = j] /\ tasks' = [tasks EXCEPT ![TxOf[j]] = j]
      BY <1>4 DEF AddJob
    <2> QED BY <1>1, <1>2, <2>1 DEF CleanUpsAreOwn
  <1>5. ASSUME NEW j \in Jobs, CancelJob(j) PROVE CleanUpsAreOwn'
    <2>1. /\ tx_jobs[TxOf[j]] = j /\ status[j] \notin AfterMining
          /\ cancelling' = cancelling \cup ({tasks[TxOf[j]]} \ {None})
          /\ tasks' = [tasks EXCEPT ![TxOf[j]] = None]
          /\ tx_jobs' = [tx_jobs EXCEPT ![TxOf[j]] = None]
          /\ UNCHANGED <<cleanups, refuse_new_jobs>>
      BY <1>5 DEF CancelJob, service
    <2>2. j \notin cleanups /\ tasks[TxOf[j]] \in {j, None}
      BY <1>1, <1>2, <2>1 DEF Types
    <2>3. cleanups' \cap cancelling' \subseteq cleanups \cap cancelling
      BY <2>1, <2>2
    <2> QED BY <1>1, <1>2, <2>1, <2>3 DEF CleanUpsAreOwn
  <1>6. ASSUME NEW j \in Jobs, DoneCallback(j) \/ CleanUp(j) PROVE CleanUpsAreOwn'
    <2>1. /\ UNCHANGED <<cancelling, refuse_new_jobs>> /\ cleanups' \subseteq cleanups
          /\ tasks' \in {tasks, [tasks EXCEPT ![TxOf[j]] = None]}
          /\ tx_jobs' \in {tx_jobs, [tx_jobs EXCEPT ![TxOf[j]] = None]}
      BY <1>6 DEF DoneCallback, CleanUp, service
    <2> QED BY <1>1, <1>2, <2>1 DEF CleanUpsAreOwn
  <1>7. CASE refuse_new_jobs /\ Stop
    <2>1. /\ UNCHANGED <<tx_jobs, tasks, cleanups, refuse_new_jobs>>
          /\ cancelling' = cancelling \cup {j \in Jobs : tasks[TxOf[j]] = j}
      BY <1>7 DEF Stop, registries
    <2>2. ASSUME NEW k \in Jobs, tasks[TxOf[k]] = k PROVE tx_jobs[TxOf[k]] \in {k, None}
      BY <1>1, <1>2, <2>2
    <2> QED BY <1>2, <1>7, <2>1, <2>2 DEF CleanUpsAreOwn
  <1>8. CASE ManagerShutdown \/ StopEnds \/ UNCHANGED devVars
    <2>1. /\ UNCHANGED <<tx_jobs, cleanups, cancelling>>
          /\ refuse_new_jobs => refuse_new_jobs'
          /\ tasks' = tasks \/ tasks' = [x \in Txs |-> None]
      BY <1>8 DEF ManagerShutdown, StopEnds, devVars, registries
    <2> QED BY <1>2, <2>1 DEF CleanUpsAreOwn
  <1> QED BY <1>3, <1>4, <1>5, <1>6, <1>7, <1>8 DEF DevNext, JobStep

\* A job that has not ended keeps its hash until it is cancelled: what takes it
\* away otherwise is the clean-up of a job whose cancellation missed its task.
THEOREM DevJobsKeepTheirHash == DevSpec => DevJobKeepsHash
  <1>1. DevInit => CleanUpsAreOwn
    BY DEF DevInit, CleanUpsAreOwn
  <1>2. DevInv /\ CleanUpsAreOwn /\ [DevNext]_devVars =>
          \A j \in Jobs : tx_jobs[TxOf[j]] = j /\ status[j] \notin AfterMining =>
            \/ tx_jobs'[TxOf[j]] = j \/ status'[j] = "CANCELLED"
            \/ \E first \in cancelling \ {j}, second \in cleanups \ cancelling :
                 TxOf[first] = TxOf[j] /\ TxOf[second] = TxOf[j]
    <2> SUFFICES ASSUME DevInv, CleanUpsAreOwn, [DevNext]_devVars, NEW j \in Jobs,
                        tx_jobs[TxOf[j]] = j, status[j] \notin AfterMining,
                        tx_jobs'[TxOf[j]] # j, status'[j] # "CANCELLED"
                 PROVE  \E first \in cancelling \ {j}, second \in cleanups \ cancelling :
                           TxOf[first] = TxOf[j] /\ TxOf[second] = TxOf[j]
      OBVIOUS
    <2>1. Types /\ TxOf \in [Jobs -> Txs] /\ None \notin Jobs
      BY DevAssumption DEF DevInv
    <2>2. PICK k \in Jobs : AddJob(k) \/ CancelJob(k) \/ CleanUp(k)
      BY DEF DevNext, JobStep, TaskStarts, ParentsArrive, SolveEnds, PushEnds, TaskCancelled,
             DoneCallback, Await, Fail, Solved, ManagerShutdown, Stop, StopEnds, devVars, registries
    <2>3. ~AddJob(k) /\ ~CancelJob(k)
      BY <2>1 DEF AddJob, CancelJob, Types
    <2>4. k \in cleanups /\ TxOf[k] = TxOf[j] /\ status[k] \in AfterMining
      BY <2>1, <2>2, <2>3 DEF CleanUp, Types
    <2>5. k \notin cancelling
      BY <2>1, <2>4 DEF CleanUpsAreOwn
    <2>6. Messy(TxOf[k])
      BY <2>1, <2>4 DEF DevInv, NeatUntilMessy, Neat
    <2>7. PICK first \in cancelling : TxOf[first] = TxOf[j] /\ status[first] \in AfterMining
      BY <2>4, <2>6 DEF Messy
    <2> QED BY <2>4, <2>5, <2>7
  <1> QED BY <1>1, <1>2, DevInvHolds, CleanUpsStayOwn, PTL DEF DevSpec, DevJobKeepsHash

\* What a client sees of hash x.
Seen(x) == IF tx_jobs[x] = None THEN None ELSE status[tx_jobs[x]]

\* A status goes forward, or stays.
LEMMA RanksClimb ==
    /\ Registry!Visible = {"PENDING", "GETTING_PARENTS", "ENQUEUED", "MINING", "FAILED",
                           "TIMEOUT", "DONE"}
    /\ Registry!Fresh = {"PENDING", "ENQUEUED", "MINING"}
    /\ Registry!Rank["PENDING"] = 0 /\ Registry!Rank["GETTING_PARENTS"] = 1
    /\ Registry!Rank["MINING"] = 3 /\ Registry!Rank["FAILED"] = 4
    /\ Registry!Rank["DONE"] = 5
  <1>1. Registry!Visible = {"PENDING", "GETTING_PARENTS", "ENQUEUED", "MINING", "FAILED",
                            "TIMEOUT", "DONE"}
    BY DEF Registry!Visible, Registry!Live, Registry!Unhappy
  <1> QED BY <1>1 DEF Registry!Rank, Registry!Unhappy, Registry!Fresh

\* Each hash moves as it may.
LEMMA SeenMoves ==
    ASSUME DevInv, [DevNext]_devVars, NEW x \in Txs
    PROVE  Seen(x)' \in Registry!Visible \cup {None} /\ Registry!Moves(Seen(x), Seen(x)')
  <1>1. /\ Types /\ NoneCancelled /\ InStep /\ TxOf \in [Jobs -> Txs] /\ None \notin Jobs
    BY DevAssumption DEF DevInv
  <1>2. ASSUME NEW y \in Txs, tx_jobs[y] # None
        PROVE  tx_jobs[y] \in Jobs /\ status[tx_jobs[y]] \in Registry!Visible
    BY RanksClimb, <1>1, <1>2 DEF Types, NoneCancelled, Statuses, AfterMining
  <1>3. ASSUME NEW j \in Jobs,
               \/ TaskStarts(j) \/ ParentsArrive(j) \/ SolveEnds(j) \/ PushEnds(j) \/ TaskCancelled(j)
        PROVE  /\ tx_jobs' = tx_jobs
               /\ \A k \in Jobs \ {j} : status'[k] = status[k]
               /\ status[j] = "CANCELLED"
                  \/ (status'[j] \in Registry!Visible
                      /\ (status'[j] = status[j] \/ Registry!Rank[status[j]] < Registry!Rank[status'[j]]))
    <2>1. tx_jobs' = tx_jobs /\ status' = [status EXCEPT ![j] = status'[j]]
      BY <1>1, <1>3 DEF TaskStarts, ParentsArrive, SolveEnds, PushEnds, TaskCancelled, Await, Fail,
                        Solved, registries, Types
    <2>2. \/ status'[j] = status[j]
          \/ status[j] = "CANCELLED"
          \/ status[j] = "PENDING" /\ status'[j] \in {"GETTING_PARENTS", "MINING"}
          \/ status[j] = "GETTING_PARENTS" /\ status'[j] \in {"MINING", "FAILED"}
          \/ status[j] = "MINING" /\ status'[j] \in {"DONE", "FAILED"}
      BY <1>1, <1>3 DEF TaskStarts, ParentsArrive, SolveEnds, PushEnds, TaskCancelled, Await, Fail,
                        Solved, Types, InStep
    <2>3. status[j] \in Statuses
      BY <1>1 DEF Types
    <2>4. status[j] = "CANCELLED"
          \/ (status'[j] \in Registry!Visible
              /\ (status'[j] = status[j] \/ Registry!Rank[status[j]] < Registry!Rank[status'[j]]))
      <3>1. CASE status[j] = "CANCELLED"
        BY <3>1
      <3>2. CASE status'[j] = status[j] /\ status[j] # "CANCELLED"
        BY RanksClimb, <2>3, <3>2 DEF Statuses, AfterMining
      <3>3. CASE status[j] = "PENDING" /\ status'[j] \in {"GETTING_PARENTS", "MINING"}
        BY RanksClimb, <3>3
      <3>4. CASE status[j] = "GETTING_PARENTS" /\ status'[j] \in {"MINING", "FAILED"}
        BY RanksClimb, <3>4
      <3>5. CASE status[j] = "MINING" /\ status'[j] \in {"DONE", "FAILED"}
        BY RanksClimb, <3>5
      <3> QED BY <2>2, <3>1, <3>2, <3>3, <3>4, <3>5
    <2>5. \A k \in Jobs \ {j} : status'[k] = status[k]
      BY <1>1, <2>1 DEF Types
    <2> QED BY <2>1, <2>4, <2>5
  <1>4. ASSUME NEW j \in Jobs, AddJob(j)
        PROVE  /\ tx_jobs[TxOf[j]] = None /\ tx_jobs' = [tx_jobs EXCEPT ![TxOf[j]] = j]
               /\ status' = status /\ status[j] = "PENDING"
    BY <1>1, <1>4 DEF AddJob, InStep
  <1>5. ASSUME NEW j \in Jobs, CancelJob(j) \/ CleanUp(j)
        PROVE  /\ tx_jobs' = [tx_jobs EXCEPT ![TxOf[j]] = None]
               /\ \A y \in Txs \ {TxOf[j]} :
                      tx_jobs[y] # None => status'[tx_jobs[y]] = status[tx_jobs[y]]
    BY <1>1, <1>5 DEF CancelJob, CleanUp, Types
  <1>6. ASSUME NEW j \in Jobs, DoneCallback(j) PROVE UNCHANGED <<tx_jobs, status>>
    BY <1>6 DEF DoneCallback
  <1>7. ASSUME ManagerShutdown \/ Stop \/ StopEnds \/ UNCHANGED devVars
        PROVE  UNCHANGED <<tx_jobs, status>>
    BY <1>7 DEF ManagerShutdown, Stop, StopEnds, registries, devVars
  <1>8. CASE UNCHANGED <<tx_jobs, status>>
    BY <1>2, <1>8 DEF Seen, Registry!Moves
  <1>9. ASSUME NEW j \in Jobs,
                \/ TaskStarts(j) \/ ParentsArrive(j) \/ SolveEnds(j) \/ PushEnds(j) \/ TaskCancelled(j)
         PROVE  /\ Seen(x)' \in Registry!Visible \cup {None}
                /\ Registry!Moves(Seen(x), Seen(x)')
    <2>1. CASE tx_jobs[x] = j
      <3>1. status[j] # "CANCELLED" /\ status[j] \in Registry!Visible
        BY <1>1, <1>2, <2>1 DEF Types, NoneCancelled
      <3>2. Seen(x) = status[j] /\ Seen(x)' = status'[j]
        BY <1>1, <1>3, <1>9, <2>1 DEF Seen
      <3> QED BY <1>3, <1>9, <3>1, <3>2 DEF Seen, Registry!Moves, Registry!Advanced
    <2>2. CASE tx_jobs[x] # j
      <3>1. Seen(x)' = Seen(x)
        BY <1>2, <1>3, <1>9, <2>2 DEF Seen
      <3> QED BY <1>2, <3>1 DEF Seen, Registry!Moves
    <2> QED BY <2>1, <2>2
  <1>10. ASSUME NEW j \in Jobs, AddJob(j)
         PROVE  /\ Seen(x)' \in Registry!Visible \cup {None}
                /\ Registry!Moves(Seen(x), Seen(x)')
    <2>1. CASE x = TxOf[j]
      <3>1. Seen(x) = None /\ Seen(x)' = "PENDING"
        BY <1>1, <1>4, <1>10, <2>1 DEF Seen, Types
      <3> QED BY RanksClimb, <3>1 DEF Seen, Registry!Moves, Registry!Submitted
    <2>2. CASE x # TxOf[j]
      <3>1. Seen(x)' = Seen(x)
        BY <1>1, <1>4, <1>10, <2>2 DEF Seen, Types
      <3> QED BY <1>2, <3>1 DEF Seen, Registry!Moves
    <2> QED BY <2>1, <2>2
  <1>11. ASSUME NEW j \in Jobs, CancelJob(j) \/ CleanUp(j)
         PROVE  /\ Seen(x)' \in Registry!Visible \cup {None}
                /\ Registry!Moves(Seen(x), Seen(x)')
    <2>1. CASE x = TxOf[j]
      BY <1>1, <1>5, <1>11, <2>1 DEF Seen, Types, Registry!Moves, Registry!Forgotten
    <2>2. CASE x # TxOf[j]
      <3>1. Seen(x)' = Seen(x)
        BY <1>1, <1>5, <1>11, <2>2 DEF Seen, Types
      <3> QED BY <1>2, <3>1 DEF Seen, Registry!Moves
    <2> QED BY <2>1, <2>2
  <1> QED BY <1>6, <1>7, <1>8, <1>9, <1>10, <1>11 DEF DevNext, JobStep

\* What clients see of a hash goes forward until it is forgotten.
THEOREM DevManagerImplementsRegistry == DevSpec => DevRegistrySpec
  <1> DEFINE seen == [x \in Txs |-> IF tx_jobs[x] = None THEN None ELSE status[tx_jobs[x]]]
  <1>1. DevInit => Registry!Init
    BY DEF DevInit, Registry!Init
  <1>2. DevInv /\ [DevNext]_devVars => [Registry!Next]_seen
    <2> SUFFICES ASSUME DevInv, [DevNext]_devVars PROVE Registry!Next
      OBVIOUS
    <2>1. \A x \in Txs : seen[x] = Seen(x) /\ seen'[x] = Seen(x)'
      BY DEF Seen
    <2>2. \A x \in Txs : Registry!Moves(seen[x], seen'[x])
      BY <2>1, SeenMoves
    <2>3. seen' \in [Txs -> Registry!Visible \cup {None}]
      BY <2>1, SeenMoves
    <2> QED BY <2>2, <2>3 DEF Registry!Next
  <1> QED BY <1>1, <1>2, DevInvHolds, PTL DEF DevSpec, DevRegistrySpec, Registry!Spec

\* The registries of jobs and of tasks do not disagree on a transaction, and a
\* task that was cancelled had started.
RegistriesAgree ==
    /\ \A x \in Txs : tx_jobs[x] \in Jobs /\ tasks[x] \in Jobs => tx_jobs[x] = tasks[x]
    /\ \A j \in Jobs : j \in cancelling => task[j] # "none"

\* A registered job is worked on, or waits for its clean-up; but a solver that
\* raises ends the task of its job and leaves the job as it is.
RegisteredIsCovered ==
    started = "started" =>
      \A j \in Jobs : tx_jobs[TxOf[j]] = j =>
        /\ j \notin cancelling
        /\ j \in Unsolvable \cup cleanups \/ Running(j)

CoverInv == RegistriesAgree /\ RegisteredIsCovered

\* What the coroutine of a job does ends in a clean-up.
LEMMA CoroutineCovers ==
    ASSUME DevInv, CoverInv, NEW j \in Jobs,
           TaskStarts(j) \/ ParentsArrive(j) \/ SolveEnds(j) \/ PushEnds(j) \/ TaskCancelled(j)
    PROVE  CoverInv'
  <1>1. Types /\ RegistriesAgree /\ RegisteredIsCovered
    BY DEF DevInv, CoverInv
  <1>2. /\ UNCHANGED <<tx_jobs, tasks, cancelling, started>>
        /\ task' = [task EXCEPT ![j] = task'[j]] /\ task'[j] # "none"
        /\ cleanups \subseteq cleanups'
        /\ task'[j] \in Active \/ j \in cleanups' \cup Unsolvable \/ j \in cancelling
    BY <1>1 DEF TaskStarts, ParentsArrive, SolveEnds, PushEnds, TaskCancelled, Running, Await, Fail,
                Solved, Types, Active, registries, service
  <1>3. RegistriesAgree'
    BY <1>1, <1>2 DEF RegistriesAgree, Types
  <1>4. RegisteredIsCovered'
    <2> SUFFICES ASSUME started = "started", NEW k \in Jobs, tx_jobs[TxOf[k]] = k
                 PROVE  k \notin cancelling /\ (k \in Unsolvable \cup cleanups' \/ Running(k)')
      BY <1>2 DEF RegisteredIsCovered
    <2>1. k \notin cancelling /\ (k \in Unsolvable \cup cleanups \/ Running(k))
      BY <1>1 DEF RegisteredIsCovered
    <2>2. CASE k = j
      BY <1>2, <2>1, <2>2 DEF Running
    <2>3. CASE k # j
      <3>1. task'[k] = task[k]
        BY <1>1, <1>2, <2>3 DEF Types
      <3> QED BY <1>2, <2>1, <3>1 DEF Running
    <2> QED BY <2>2, <2>3
  <1> QED BY <1>3, <1>4 DEF CoverInv

\* So do the API, the callbacks and the clean-ups.
LEMMA ApiCovers ==
    ASSUME DevInv, CoverInv, NEW j \in Jobs,
           AddJob(j) \/ CancelJob(j) \/ DoneCallback(j) \/ CleanUp(j)
    PROVE  CoverInv'
  <1>1. Types /\ RegistriesAgree /\ RegisteredIsCovered /\ TxOf \in [Jobs -> Txs] /\ None \notin Jobs
    BY DevAssumption DEF DevInv, CoverInv
  <1>2. started' = started
    BY DEF AddJob, CancelJob, DoneCallback, CleanUp, service
  <1>3. CASE AddJob(j)
    <2>1. /\ task[j] = "none" /\ tx_jobs[TxOf[j]] = None
          /\ tx_jobs' = [tx_jobs EXCEPT ![TxOf[j]] = j] /\ tasks' = [tasks EXCEPT ![TxOf[j]] = j]
          /\ task' = [task EXCEPT ![j] = "new"] /\ UNCHANGED <<cancelling, cleanups>>
      BY <1>3 DEF AddJob
    <2>2. RegistriesAgree'
      BY <1>1, <2>1 DEF RegistriesAgree, Types
    <2>3. Running(j)' /\ j \notin cancelling
      BY <1>1, <2>1 DEF RegistriesAgree, Types, Running, Active
    <2>4. ASSUME NEW k \in Jobs, tx_jobs'[TxOf[k]] = k, k # j
          PROVE  tx_jobs[TxOf[k]] = k /\ task'[k] = task[k]
      BY <1>1, <2>1, <2>4 DEF Types
    <2>5. RegisteredIsCovered'
      BY <1>1, <1>2, <2>1, <2>3, <2>4 DEF RegisteredIsCovered, Running
    <2> QED BY <2>2, <2>5 DEF CoverInv
  <1>4. CASE CancelJob(j)
    <2>1. /\ tx_jobs[TxOf[j]] = j /\ cancelling' = cancelling \cup ({tasks[TxOf[j]]} \ {None})
          /\ tasks' = [tasks EXCEPT ![TxOf[j]] = None]
          /\ tx_jobs' = [tx_jobs EXCEPT ![TxOf[j]] = None] /\ UNCHANGED <<task, cleanups>>
      BY <1>4 DEF CancelJob
    <2>2. tasks[TxOf[j]] \in {None, j} /\ task[j] # "none"
      BY <1>1, <2>1 DEF RegistriesAgree, Types
    <2>3. RegistriesAgree'
      BY <1>1, <2>1, <2>2 DEF RegistriesAgree, Types
    <2>4. RegisteredIsCovered'
      <3> SUFFICES ASSUME started = "started", NEW k \in Jobs, tx_jobs'[TxOf[k]] = k
                   PROVE  k \notin cancelling' /\ (k \in Unsolvable \cup cleanups \/ Running(k)')
        BY <1>2, <2>1 DEF RegisteredIsCovered
      <3>1. k # j /\ tx_jobs[TxOf[k]] = k
        BY <1>1, <2>1 DEF Types
      <3>2. k \notin cancelling'
        BY <1>1, <2>1, <2>2, <3>1 DEF RegisteredIsCovered
      <3> QED BY <1>1, <2>1, <3>1, <3>2 DEF RegisteredIsCovered, Running
    <2> QED BY <2>3, <2>4 DEF CoverInv
  <1>5. CASE DoneCallback(j)
    <2>1. /\ task[j] = "ended" /\ task' = [task EXCEPT ![j] = "over"]
          /\ tasks' = [tasks EXCEPT ![TxOf[j]] = None]
          /\ UNCHANGED <<tx_jobs, cancelling, cleanups>>
      BY <1>5 DEF DoneCallback
    <2>2. RegistriesAgree' /\ ~Running(j)
      BY <1>1, <2>1 DEF RegistriesAgree, Types, Running, Active
    <2>3. \A k \in Jobs : Running(k) => Running(k)'
      BY <1>1, <2>1, <2>2 DEF Types, Running
    <2>4. RegisteredIsCovered'
      BY <1>1, <1>2, <2>1, <2>3 DEF RegisteredIsCovered
    <2> QED BY <2>2, <2>4 DEF CoverInv
  <1>6. CASE CleanUp(j)
    <2>1. /\ cleanups' = cleanups \ {j} /\ tx_jobs' = [tx_jobs EXCEPT ![TxOf[j]] = None]
          /\ UNCHANGED <<tasks, task, cancelling>>
      BY <1>6 DEF CleanUp
    <2>2. RegistriesAgree'
      BY <1>1, <2>1 DEF RegistriesAgree, Types
    <2>3. \A k \in Jobs : tx_jobs'[TxOf[k]] = k => k # j /\ tx_jobs[TxOf[k]] = k
      BY <1>1, <2>1 DEF Types
    <2>4. RegisteredIsCovered'
      BY <1>1, <1>2, <2>1, <2>3 DEF RegisteredIsCovered, Running
    <2> QED BY <2>2, <2>4 DEF CoverInv
  <1> QED BY <1>3, <1>4, <1>5, <1>6

\* While the service runs no registered job is left to itself, whatever was
\* cancelled and submitted again, unless its solver raised: the safety that
\* EveryDevJobIsForgotten rests on.
THEOREM RegisteredJobsAreCovered == DevSpec => []RegisteredIsCovered
  <1>1. DevInit => CoverInv
    BY DevAssumption DEF DevInit, CoverInv, RegistriesAgree, RegisteredIsCovered
  <1>2. ASSUME DevInv, CoverInv, ManagerShutdown \/ Stop \/ StopEnds \/ UNCHANGED devVars
        PROVE  CoverInv'
    <2>1. Types /\ RegistriesAgree /\ RegisteredIsCovered
      BY <1>2 DEF DevInv, CoverInv
    <2>2. CASE ManagerShutdown
      BY <2>1, <2>2 DEF ManagerShutdown, CoverInv, RegistriesAgree, RegisteredIsCovered, Running,
                        registries
    <2>3. CASE Stop
      <3>1. /\ started' = "stopping" /\ UNCHANGED <<tx_jobs, tasks, task>>
            /\ cancelling' = cancelling \cup {k \in Jobs : tasks[TxOf[k]] = k}
        BY <2>3 DEF Stop, registries
      <3>2. \A k \in Jobs : tasks[TxOf[k]] = k => task[k] # "none"
        BY <2>1, DevAssumption DEF Types
      <3> QED BY <2>1, <3>1, <3>2 DEF CoverInv, RegistriesAgree, RegisteredIsCovered
    <2>4. CASE StopEnds
      <3>1. \A x \in Txs : tasks'[x] \notin Jobs
        BY <2>4, DevAssumption DEF StopEnds
      <3> QED BY <2>1, <2>4, <3>1 DEF StopEnds, CoverInv, RegistriesAgree, RegisteredIsCovered
    <2>5. CASE UNCHANGED devVars
      BY <2>1, <2>5 DEF devVars, CoverInv, RegistriesAgree, RegisteredIsCovered, Running
    <2> QED BY <1>2, <2>2, <2>3, <2>4, <2>5
  <1>3. DevInv /\ CoverInv /\ [DevNext]_devVars => CoverInv'
    BY <1>2, CoroutineCovers, ApiCovers DEF DevNext, JobStep
  <1>4. CoverInv => RegisteredIsCovered
    BY DEF CoverInv
  <1> QED BY <1>1, <1>3, <1>4, DevInvHolds, PTL DEF DevSpec

\* The state of the manager stays in its types.
THEOREM DevTypesHold == DevSpec => []DevTypeOK
  <1> DEFINE Counted == txs_solved \in Nat /\ txs_failed \in Nat
  <1>1. DevInit => Counted
    BY DEF DevInit
  <1>2. Counted /\ [DevNext]_devVars => Counted'
    <2> SUFFICES ASSUME Counted, [DevNext]_devVars PROVE Counted'
      OBVIOUS
    <2>1. ASSUME NEW j \in Jobs, JobStep(j) PROVE Counted'
      BY <2>1 DEF JobStep, AddJob, CancelJob, TaskStarts, ParentsArrive, SolveEnds, PushEnds,
                  TaskCancelled, DoneCallback, CleanUp, Await, Fail, Solved, counters
    <2>2. ASSUME ManagerShutdown \/ Stop \/ StopEnds \/ UNCHANGED devVars PROVE Counted'
      BY <2>2 DEF ManagerShutdown, Stop, StopEnds, devVars, counters
    <2> QED BY <2>1, <2>2 DEF DevNext
  <1>3. DevInv /\ Counted => DevTypeOK
    <2> SUFFICES ASSUME Types, Counted PROVE DevTypeOK
      BY DEF DevInv
    <2>1. \A x \in Txs : /\ tx_jobs[x] \in {j \in Jobs : TxOf[j] = x} \cup {None}
                         /\ tasks[x] \in {j \in Jobs : TxOf[j] = x} \cup {None}
      BY DEF Types
    <2>2. cleanups \in SUBSET {j \in Jobs : task[j] \in {"ended", "over"}}
      BY DEF Types
    <2> QED BY <2>1, <2>2 DEF DevTypeOK, Types, Statuses, Places
  <1> QED BY <1>1, <1>2, <1>3, DevInvHolds, PTL DEF DevSpec
-----------------------------------------------------------------------------
(* The service.                                                            *)

ShutdownTypes ==
    /\ shutdown \in [Signals -> {"none", "miner", "manager", "backend", "over", "raised"}]
    /\ loop_running \in BOOLEAN

\* The block miner is stopped after the manager refuses jobs.
MinerStopsLater ==
    /\ ~running => refuse_new_jobs
    /\ \A s \in Signals : shutdown[s] = "miner" => ~running

\* Signal s is the only one so far.
Alone(s) == \A r \in Signals \ {s} : shutdown[r] = "none"

TasksEnded == \A j \in Jobs : j \in gathered => task[j] \notin Active

\* How far a shutdown alone has come says what is over.
CleanSoFar(s) ==
    /\ shutdown[s] = "none" => running
    /\ shutdown[s] = "manager" => loop \notin Alive /\ started # "started"
    /\ shutdown[s] \in {"backend", "over"} => loop \notin Alive /\ TasksEnded
    /\ ~loop_running => shutdown[s] = "over"
CleanWhenAlone == \A s \in Signals : Alone(s) => CleanSoFar(s)

ShutdownInv == ShutdownTypes /\ MinerStopsLater /\ CleanWhenAlone

\* The invariant holds at the start.
LEMMA ShutdownInit == ServiceInit => ShutdownInv
  BY DEF ServiceInit, MinerInit, ShutdownInv, ShutdownTypes, MinerStopsLater, CleanWhenAlone,
         CleanSoFar

\* What the manager does by itself.
LEMMA ManagerStepKeeps ==
    ASSUME DevInv, ShutdownInv, ManagerStep
    PROVE  DevNext /\ ShutdownInv'
  <1>1. PICK j \in Jobs : JobStep(j)
    BY DEF ManagerStep
  <1>2. UNCHANGED <<running, loop, shutdown, loop_running>>
    BY DEF ManagerStep, blockVars
  <1>3. UNCHANGED <<refuse_new_jobs, started, gathered>>
    BY <1>1 DEF JobStep, AddJob, CancelJob, TaskStarts, ParentsArrive, SolveEnds, PushEnds,
                TaskCancelled, DoneCallback, CleanUp, Await, Fail, Solved, service
  <1>4. TasksEnded => TasksEnded'
    <2> SUFFICES ASSUME TasksEnded, NEW k \in Jobs, k \in gathered
                 PROVE  task'[k] \notin Active
      BY <1>3 DEF TasksEnded
    <2>1. task[k] \notin Active /\ task[k] # "none" /\ task \in [Jobs -> Places]
      BY DEF TasksEnded, DevInv, Types
    <2>2. CASE AddJob(j)
      BY <2>1, <2>2 DEF AddJob
    <2>3. CASE CancelJob(j) \/ CleanUp(j)
      BY <2>1, <2>3 DEF CancelJob, CleanUp
    <2>4. CASE DoneCallback(j)
      BY <2>1, <2>4 DEF DoneCallback, Active
    <2>5. CASE TaskStarts(j) \/ ParentsArrive(j) \/ SolveEnds(j) \/ PushEnds(j) \/ TaskCancelled(j)
      <3>1. task[j] \in Active /\ task' = [task EXCEPT ![j] = task'[j]]
        BY <2>1, <2>5 DEF TaskStarts, ParentsArrive, SolveEnds, PushEnds, TaskCancelled, Await, Fail,
                          Solved, Active
      <3> QED BY <2>1, <3>1
    <2> QED BY <1>1, <2>2, <2>3, <2>4, <2>5 DEF JobStep
  <1>5. ShutdownInv'
    BY <1>2, <1>3, <1>4 DEF ShutdownInv, ShutdownTypes, MinerStopsLater, CleanWhenAlone, CleanSoFar,
                            Alone
  <1> QED BY <1>1, <1>5 DEF DevNext

\* What the loop of the block miner does: it stays over once it is.
LEMMA BlockStepKeeps ==
    ASSUME ShutdownInv, BlockStep
    PROVE  UNCHANGED devVars /\ ShutdownInv'
  <1>1. UNCHANGED <<devVars, running, shutdown, loop_running>> /\ loop \in Alive
    BY DEF BlockStep, LoopStep, Probe, MineOneBlock, Rest, LoopCancelled, Goes, Alive, Mining, Probing
  <1>2. UNCHANGED <<refuse_new_jobs, started, gathered, task>>
    BY <1>1 DEF devVars
  <1> QED BY <1>1, <1>2 DEF ShutdownInv, ShutdownTypes, MinerStopsLater, CleanWhenAlone, CleanSoFar,
                            Alone, TasksEnded

\* manager.stop is only awaited by a service that refuses jobs.
LEMMA AwaitIsAStep ==
    ASSUME DevInv, NEW s \in Signals, ShutdownTypes, refuse_new_jobs, AwaitManagerStop(s)
    PROVE  /\ [DevNext]_devVars /\ UNCHANGED <<refuse_new_jobs, task>>
           /\ \/ shutdown' = [shutdown EXCEPT ![s] = "manager"] /\ started' # "started"
              \/ shutdown' = [shutdown EXCEPT ![s] = "backend"] /\ TasksEnded'
  <1>1. CASE started = "stopped"
    <2>1. UNCHANGED <<devVars, refuse_new_jobs, task, gathered>>
          /\ shutdown' = [shutdown EXCEPT ![s] = "backend"]
      BY <1>1 DEF AwaitManagerStop, devVars
    <2> QED BY <1>1, <2>1 DEF DevInv, StopCovers, TasksEnded
  <1>2. CASE started # "stopped"
    BY <1>2 DEF AwaitManagerStop, Stop, DevNext
  <1> QED BY <1>1, <1>2

\* A shutdown goes on: a step of the manager's specification or none, and no
\* shutdown but that one moves.
LEMMA ShutdownStepMoves ==
    ASSUME DevInv, ShutdownInv, NEW s \in Signals, loop_running, ShutdownStep(s)
    PROVE  /\ [DevNext]_devVars /\ ShutdownTypes' /\ MinerStopsLater'
           /\ shutdown'[s] # "none" /\ \A r \in Signals \ {s} : shutdown'[r] = shutdown[r]
           /\ Alone(s) => CleanSoFar(s)'
  <1>1. ShutdownTypes /\ MinerStopsLater /\ (Alone(s) => CleanSoFar(s))
    BY DEF ShutdownInv, CleanWhenAlone
  <1>2. CASE Signal(s) /\ running
    <2>1. /\ ManagerShutdown /\ refuse_new_jobs' = TRUE /\ running' = FALSE
          /\ shutdown' = [shutdown EXCEPT ![s] = "miner"] /\ loop_running' = loop_running
      BY <1>2 DEF Signal, ManagerShutdown, StopMiner
    <2> QED BY <1>1, <2>1 DEF DevNext, ShutdownTypes, MinerStopsLater, CleanSoFar
  <1>3. CASE Signal(s) /\ ~running
    <2>1. /\ shutdown[s] = "none" /\ AwaitManagerStop(s) /\ refuse_new_jobs
          /\ UNCHANGED <<running, loop, loop_running>>
      BY <1>1, <1>3 DEF Signal, blockVars, MinerStopsLater
    <2> QED BY <1>1, <1>3, <2>1, AwaitIsAStep DEF ShutdownTypes, MinerStopsLater, CleanSoFar
  <1>4. CASE MinerStopped(s) /\ loop = "ended"
    <2>1. /\ shutdown[s] = "miner" /\ AwaitManagerStop(s) /\ refuse_new_jobs
          /\ UNCHANGED <<running, loop, loop_running>>
      BY <1>1, <1>4 DEF MinerStopped, blockVars, MinerStopsLater
    <2>2. loop \notin Alive
      BY <1>4 DEF Alive, Mining, Probing
    <2> QED BY <1>1, <2>1, <2>2, AwaitIsAStep DEF ShutdownTypes, MinerStopsLater, CleanSoFar
  <1>5. CASE MinerStopped(s) /\ loop # "ended"
    <2>1. /\ shutdown' = [shutdown EXCEPT ![s] = "raised"]
          /\ UNCHANGED <<devVars, refuse_new_jobs, running, loop_running>>
      BY <1>5 DEF MinerStopped, blockVars, devVars
    <2> QED BY <1>1, <2>1 DEF ShutdownTypes, MinerStopsLater, CleanSoFar
  <1>6. CASE ManagerStopped(s)
    <2>1. /\ shutdown[s] = "manager" /\ shutdown' = [shutdown EXCEPT ![s] = "backend"]
          /\ [DevNext]_devVars /\ UNCHANGED <<refuse_new_jobs, running, loop, loop_running>>
      BY <1>6 DEF ManagerStopped, blockVars, devVars, StopEnds, DevNext
    <2>2. TasksEnded'
      BY <1>6 DEF ManagerStopped, StopEnds, devVars, DevInv, StopCovers, TasksEnded
    <2> QED BY <1>1, <2>1, <2>2 DEF ShutdownTypes, MinerStopsLater, CleanSoFar
  <1>7. CASE BackendStopped(s)
    <2>1. /\ shutdown[s] = "backend" /\ shutdown' = [shutdown EXCEPT ![s] = "over"]
          /\ loop_running' = FALSE
          /\ UNCHANGED <<devVars, refuse_new_jobs, gathered, task, running, loop>>
      BY <1>7 DEF BackendStopped, blockVars, devVars
    <2> QED BY <1>1, <2>1 DEF ShutdownTypes, MinerStopsLater, CleanSoFar, TasksEnded
  <1> QED BY <1>2, <1>3, <1>4, <1>5, <1>6, <1>7 DEF ShutdownStep

\* Each step of the service is a step of the manager, or none.
LEMMA ServiceStep ==
    ASSUME DevInv, ShutdownInv, [ServiceNext]_serviceVars
    PROVE  [DevNext]_devVars /\ ShutdownInv'
  <1>1. CASE ManagerStep
    BY <1>1, ManagerStepKeeps
  <1>2. CASE BlockStep
    BY <1>2, BlockStepKeeps
  <1>3. ASSUME NEW s \in Signals, loop_running, ShutdownStep(s)
        PROVE  [DevNext]_devVars /\ ShutdownInv'
    <2>1. /\ [DevNext]_devVars /\ ShutdownTypes' /\ MinerStopsLater'
          /\ shutdown'[s] # "none" /\ \A r \in Signals \ {s} : shutdown'[r] = shutdown[r]
          /\ Alone(s) => CleanSoFar(s)'
      BY <1>3, ShutdownStepMoves
    <2>2. \A r \in Signals \ {s} : ~Alone(r)'
      BY <2>1 DEF Alone
    <2>3. Alone(s)' => Alone(s)
      BY <2>1 DEF Alone
    <2> QED BY <2>1, <2>2, <2>3 DEF ShutdownInv, CleanWhenAlone
  <1>4. CASE UNCHANGED serviceVars
    BY <1>4 DEF serviceVars, devVars, blockVars, ShutdownInv, ShutdownTypes, MinerStopsLater,
                CleanWhenAlone, CleanSoFar, Alone, TasksEnded
  <1> QED BY <1>1, <1>2, <1>3, <1>4 DEF ServiceNext

\* The service's invariant holds always.
THEOREM ShutdownInvHolds == ServiceSpec => [](DevInv /\ ShutdownInv)
  <1>1. ServiceInit => DevInv /\ ShutdownInv
    BY DevInvInit, ShutdownInit DEF ServiceInit
  <1>2. DevInv /\ [DevNext]_devVars => DevInv'
    BY CoroutineKeeps, AddKeeps, CancelKeeps, EndKeeps, StopKeeps DEF DevNext, JobStep
  <1>3. DevInv /\ ShutdownInv /\ [ServiceNext]_serviceVars => (DevInv /\ ShutdownInv)'
    BY <1>2, ServiceStep
  <1> QED BY <1>1, <1>3, PTL DEF ServiceSpec

\* The service implements the manager's specification, whatever the order of
\* the signals and of the ends of their awaits.
THEOREM ServiceImplementsManager == ServiceSpec => DevManagerSpec
  <1>1. ServiceInit => DevInit
    BY DEF ServiceInit
  <1>2. DevInv /\ ShutdownInv /\ [ServiceNext]_serviceVars => [DevNext]_devVars
    BY ServiceStep
  <1> QED BY <1>1, <1>2, ShutdownInvHolds, PTL DEF ServiceSpec, DevManagerSpec, DevSpec

\* What the manager promises, the service does: clients see what the registry
\* allows, nothing is mined for nobody, and no registered job is left to itself.
COROLLARY ServiceKeepsPromises ==
    ServiceSpec => DevRegistrySpec /\ [](CancelledTaskEnds /\ RegisteredIsCovered)
  BY ServiceImplementsManager, DevManagerImplementsRegistry, CancelledTasksEnd,
     RegisteredJobsAreCovered, PTL DEF DevManagerSpec

\* The state of the service stays in its types.
THEOREM ServiceTypesHold == ServiceSpec => []ServiceTypeOK
  <1>1. ServiceInit => MinerTypeOK
    <2> SUFFICES ASSUME MinerInit PROVE MinerTypeOK
      BY DEF ServiceInit
    <2>1. running = TRUE /\ loop_cancelled = FALSE /\ loop \in Alive /\ blocks_found = 0
      BY DEF MinerInit, Alive
    <2>2. blocks_found \in 0..MaxBlocks
      BY <2>1, MinerAssumption
    <2> QED BY <2>1, <2>2 DEF MinerTypeOK
  <1>2. MinerTypeOK /\ [ServiceNext]_serviceVars => MinerTypeOK'
    <2> SUFFICES ASSUME MinerTypeOK, [ServiceNext]_serviceVars PROVE MinerTypeOK'
      OBVIOUS
    <2>1. CASE UNCHANGED blockVars
      BY <2>1 DEF blockVars, MinerTypeOK
    <2>2. CASE BlockStep
      BY <2>2 DEF BlockStep, LoopStep, Probe, MineOneBlock, Rest, LoopCancelled, Goes, MinerTypeOK,
                  Alive, Mining, Probing
    <2>3. CASE StopMiner
      BY <2>3 DEF StopMiner, MinerTypeOK
    <2>4. ASSUME NEW s \in Signals, ShutdownStep(s) PROVE StopMiner \/ UNCHANGED blockVars
      BY <2>4 DEF ShutdownStep, Signal, MinerStopped, ManagerStopped, BackendStopped
    <2>5. ManagerStep \/ UNCHANGED serviceVars => UNCHANGED blockVars
      BY DEF ManagerStep, serviceVars
    <2> QED BY <2>1, <2>2, <2>3, <2>4, <2>5 DEF ServiceNext
  <1>3. DevTypeOK /\ MinerTypeOK /\ ShutdownInv => ServiceTypeOK
    BY DEF ServiceTypeOK, ShutdownInv, ShutdownTypes
  <1> QED BY <1>1, <1>2, <1>3, ServiceImplementsManager, DevTypesHold, ShutdownInvHolds, PTL
          DEF ServiceSpec, DevManagerSpec

\* A shutdown by one signal cuts nothing off.
THEOREM OneSignalCutsNothing == ServiceSpec => []OneSignalIsClean
  <1>1. DevInv /\ ShutdownInv => OneSignalIsClean
    BY DEF DevInv, Types, ShutdownInv, CleanWhenAlone, CleanSoFar, Alone, TasksEnded,
           OneSignalIsClean
  <1> QED BY <1>1, ShutdownInvHolds, PTL
=============================================================================
