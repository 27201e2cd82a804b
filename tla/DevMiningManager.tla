-------------------------- MODULE DevMiningManager --------------------------
(***************************************************************************)
(* txstratum/dev/manager.py: the manager of the dev mode mines each        *)
(* transaction by itself.  A job is a coroutine that gets parents, solves  *)
(* in a thread and pushes; between its awaits the API may cancel the job,  *)
(* submit its transaction again, and the service may stop.                 *)
(*                                                                         *)
(* The registry of jobs (tx_jobs) and that of tasks (_tasks) are keyed by  *)
(* the hash of the transaction, which later jobs of it share.  A cancelled *)
(* task ends at its next step of the event loop, and its done callback     *)
(* runs later still.                                                       *)
(***************************************************************************)
EXTENDS Naturals, FiniteSets

CONSTANTS Jobs, Txs,
          TxOf,         \* the transaction of each job
          WithParents,  \* jobs with add_parents
          Propagated,   \* jobs with propagate
          Unsolvable,   \* jobs whose solve_tx may raise
          None

ASSUME DevAssumption ==
    /\ TxOf \in [Jobs -> Txs]
    /\ WithParents \subseteq Jobs /\ Propagated \subseteq Jobs /\ Unsolvable \subseteq Jobs
    /\ None \notin Jobs

VARIABLES
    status,       \* job.status
    tx_jobs,      \* tx_jobs: the job registered for each transaction
    tasks,        \* _tasks: the job whose task is registered
    task,         \* where the task of each job is
    cancelling,   \* tasks with task.cancel() called
    cleanups,     \* jobs with a clean-up scheduled
    txs_solved, txs_failed,
    refuse_new_jobs,
    started,      \* "started", "stopping" or "stopped"
    gathered      \* the tasks that the last call of stop waits for

devVars == <<status, tx_jobs, tasks, task, cancelling, cleanups, txs_solved, txs_failed,
             refuse_new_jobs, started, gathered>>
registries == <<tx_jobs, tasks>>
counters == <<txs_solved, txs_failed>>
service == <<refuse_new_jobs, started, gathered>>

AfterMining == {"DONE", "FAILED", "CANCELLED"}
Active == {"new", "parents", "solving", "pushing"}
Running(j) == task[j] \in Active /\ j \notin cancelling

DevInit ==
    /\ status = [j \in Jobs |-> "PENDING"]
    /\ tx_jobs = [x \in Txs |-> None]
    /\ tasks = [x \in Txs |-> None]
    /\ task = [j \in Jobs |-> "none"]
    /\ cancelling = {}
    /\ cleanups = {}
    /\ txs_solved = 0
    /\ txs_failed = 0
    /\ refuse_new_jobs = FALSE
    /\ started = "started"
    /\ gathered = {}
-----------------------------------------------------------------------------
(* The API.                                                                *)

\* Mutant of AddJob: a job that failed is replaced like one that timed out.
AddJobRetries(j) ==
    /\ task[j] = "none"
    /\ ~refuse_new_jobs
    /\ tx_jobs[TxOf[j]] \in {None} \cup {k \in Jobs : status[k] = "FAILED"}
    /\ tx_jobs' = [tx_jobs EXCEPT ![TxOf[j]] = j]
    /\ tasks' = [tasks EXCEPT ![TxOf[j]] = j]
    /\ task' = [task EXCEPT ![j] = "new"]
    /\ UNCHANGED <<status, cancelling, cleanups, counters, service>>

\* add_job: refused when its transaction is registered.  No job of this
\* manager is ever TIMEOUT, the status that would let it be replaced.
AddJob(j) ==
    /\ task[j] = "none"
    /\ ~refuse_new_jobs
    /\ tx_jobs[TxOf[j]] = None
    /\ tx_jobs' = [tx_jobs EXCEPT ![TxOf[j]] = j]
    /\ tasks' = [tasks EXCEPT ![TxOf[j]] = j]
    /\ task' = [task EXCEPT ![j] = "new"]
    /\ UNCHANGED <<status, cancelling, cleanups, counters, service>>

\* Mutant of CancelJob: its task is not cancelled.
CancelJobOnly(j) ==
    /\ tx_jobs[TxOf[j]] = j
    /\ status[j] \notin AfterMining
    /\ tasks' = [tasks EXCEPT ![TxOf[j]] = None]
    /\ status' = [status EXCEPT ![j] = "CANCELLED"]
    /\ tx_jobs' = [tx_jobs EXCEPT ![TxOf[j]] = None]
    /\ UNCHANGED <<task, cancelling, cleanups, counters, service>>

\* Mutant of CancelJob: a clean-up is scheduled, as at every other end of a job.
CancelJobCleaned(j) ==
    /\ tx_jobs[TxOf[j]] = j
    /\ status[j] \notin AfterMining
    /\ cancelling' = cancelling \cup ({tasks[TxOf[j]]} \ {None})
    /\ cleanups' = cleanups \cup {j}
    /\ tasks' = [tasks EXCEPT ![TxOf[j]] = None]
    /\ status' = [status EXCEPT ![j] = "CANCELLED"]
    /\ tx_jobs' = [tx_jobs EXCEPT ![TxOf[j]] = None]
    /\ UNCHANGED <<task, counters, service>>

\* cancel_job of a job the API found.  The task it cancels is the one that is
\* registered for the transaction, if any.
CancelJob(j) ==
    /\ tx_jobs[TxOf[j]] = j
    /\ status[j] \notin AfterMining
    /\ cancelling' = cancelling \cup ({tasks[TxOf[j]]} \ {None})
    /\ tasks' = [tasks EXCEPT ![TxOf[j]] = None]
    /\ status' = [status EXCEPT ![j] = "CANCELLED"]
    /\ tx_jobs' = [tx_jobs EXCEPT ![TxOf[j]] = None]
    /\ UNCHANGED <<task, cleanups, counters, service>>
-----------------------------------------------------------------------------
(* The coroutine of a job, from one await to the next.                     *)

Await(j, at, now) ==
    /\ status' = [status EXCEPT ![j] = now]
    /\ task' = [task EXCEPT ![j] = at]
    /\ UNCHANGED <<registries, cancelling, cleanups, counters, service>>

\* Mutant of Fail: no clean-up is scheduled.
FailKept(j) ==
    /\ status' = [status EXCEPT ![j] = "FAILED"]
    /\ txs_failed' = txs_failed + 1
    /\ task' = [task EXCEPT ![j] = "ended"]
    /\ UNCHANGED <<registries, cancelling, cleanups, txs_solved, service>>

\* Every way to fail: status, counter, clean-up, return.
Fail(j) ==
    /\ status' = [status EXCEPT ![j] = "FAILED"]
    /\ txs_failed' = txs_failed + 1
    /\ cleanups' = cleanups \cup {j}
    /\ task' = [task EXCEPT ![j] = "ended"]
    /\ UNCHANGED <<registries, cancelling, txs_solved, service>>

\* The end of _mine_job, whatever the status has become.
Solved(j) ==
    /\ status' = [status EXCEPT ![j] = "DONE"]
    /\ txs_solved' = txs_solved + 1
    /\ cleanups' = cleanups \cup {j}
    /\ task' = [task EXCEPT ![j] = "ended"]
    /\ UNCHANGED <<registries, cancelling, txs_failed, service>>

\* The task starts: _mine_with_parents or _mine_job.
TaskStarts(j) ==
    /\ task[j] = "new" /\ Running(j)
    /\ IF j \in WithParents THEN Await(j, "parents", "GETTING_PARENTS")
       ELSE Await(j, "solving", "MINING")

\* The full node gives parents, or not.
ParentsArrive(j) ==
    /\ task[j] = "parents" /\ Running(j)
    /\ Await(j, "solving", "MINING") \/ Fail(j)

\* Mutant of SolveEnds: a thread that finds nothing returns with no mark.
SolveEndsUnmarked(j) ==
    /\ task[j] = "solving" /\ Running(j)
    /\ \/ IF j \in Propagated THEN Await(j, "pushing", status[j]) ELSE Solved(j)
       \/ Await(j, "ended", status[j])

\* The thread ends: with a nonce, without one, or with an exception, which
\* ends the task and leaves the job as it is.
SolveEnds(j) ==
    /\ task[j] = "solving" /\ Running(j)
    /\ \/ IF j \in Propagated THEN Await(j, "pushing", status[j]) ELSE Solved(j)
       \/ Fail(j)
       \/ j \in Unsolvable /\ Await(j, "ended", status[j])

\* The full node takes the transaction, or not.
PushEnds(j) ==
    /\ task[j] = "pushing" /\ Running(j)
    /\ Solved(j) \/ Fail(j)

\* CancelledError at the await; nothing catches it.
TaskCancelled(j) ==
    /\ task[j] \in Active /\ j \in cancelling
    /\ task' = [task EXCEPT ![j] = "ended"]
    /\ UNCHANGED <<status, registries, cancelling, cleanups, counters, service>>

\* The done callback of add_job forgets the task of the transaction, whichever
\* it is by now.
DoneCallback(j) ==
    /\ task[j] = "ended"
    /\ task' = [task EXCEPT ![j] = "over"]
    /\ tasks' = [tasks EXCEPT ![TxOf[j]] = None]
    /\ UNCHANGED <<status, tx_jobs, cancelling, cleanups, counters, service>>

\* _cleanup_job, TX_CLEAN_UP_INTERVAL (five minutes) after the task ended: its
\* done callback has run by then.
CleanUp(j) ==
    /\ j \in cleanups /\ task[j] = "over"
    /\ cleanups' = cleanups \ {j}
    /\ tx_jobs' = [tx_jobs EXCEPT ![TxOf[j]] = None]
    /\ UNCHANGED <<status, tasks, task, cancelling, counters, service>>
-----------------------------------------------------------------------------
(* shutdown and stop.                                                      *)

ManagerShutdown ==
    /\ refuse_new_jobs' = TRUE
    /\ UNCHANGED <<status, registries, task, cancelling, cleanups, counters, started,
                   gathered>>

\* stop, up to its gather; two signals may have two of them under way.
Stop ==
    /\ started # "stopped"
    /\ started' = "stopping"
    /\ gathered' = {j \in Jobs : tasks[TxOf[j]] = j}
    /\ cancelling' = cancelling \cup gathered'
    /\ UNCHANGED <<status, registries, task, cleanups, counters, refuse_new_jobs>>

\* stop, once every task it cancelled has ended.
StopEnds ==
    /\ started = "stopping"
    /\ \A j \in gathered : task[j] \notin Active
    /\ started' = "stopped"
    /\ tasks' = [x \in Txs |-> None]
    /\ UNCHANGED <<status, tx_jobs, task, cancelling, cleanups, counters, refuse_new_jobs,
                   gathered>>

JobStep(j) ==
    \/ AddJob(j) \/ CancelJob(j)
    \/ TaskStarts(j) \/ ParentsArrive(j) \/ SolveEnds(j) \/ PushEnds(j)
    \/ TaskCancelled(j) \/ DoneCallback(j) \/ CleanUp(j)

DevNext ==
    \/ \E j \in Jobs : JobStep(j)
    \/ ManagerShutdown
    \/ refuse_new_jobs /\ Stop
    \/ StopEnds

DevSpec == DevInit /\ [][DevNext]_devVars

-----------------------------------------------------------------------------
(* Properties.                                                             *)

\* The state space.
DevTypeOK ==
    /\ status \in [Jobs -> AfterMining \cup {"PENDING", "GETTING_PARENTS", "MINING"}]
    /\ \A x \in Txs : /\ tx_jobs[x] \in {j \in Jobs : TxOf[j] = x} \cup {None}
                      /\ tasks[x] \in {j \in Jobs : TxOf[j] = x} \cup {None}
    /\ DOMAIN tx_jobs = Txs /\ DOMAIN tasks = Txs
    /\ task \in [Jobs -> Active \cup {"none", "ended", "over"}]
    /\ cancelling \in SUBSET Jobs /\ gathered \in SUBSET Jobs
    /\ cleanups \in SUBSET {j \in Jobs : task[j] \in {"ended", "over"}}
    /\ txs_solved \in Nat /\ txs_failed \in Nat
    /\ refuse_new_jobs \in BOOLEAN
    /\ started \in {"started", "stopping", "stopped"}

\* Another job of the same transaction was cancelled.
Resubmitted(j) ==
    \E k \in Jobs \ {j} : TxOf[k] = TxOf[j] /\ k \in cancelling /\ status[k] \in AfterMining

\* What clients see of a hash is what they see with the other manager (cli.py
\* runs either behind the same API): it only goes forward until it is
\* forgotten, although tasks outlive their cancellation and clean-ups of other
\* jobs of the same transaction come later.
Registry == INSTANCE JobRegistry WITH
    visible <- [x \in Txs |-> IF tx_jobs[x] = None THEN None ELSE status[tx_jobs[x]]]
DevRegistrySpec == Registry!Spec

\* Nothing is mined for nobody: the task of a job that was cancelled ends,
\* unless another job of its transaction was cancelled before it, whose done
\* callback forgets the task of this one.
CancelledTaskEnds ==
    \A j \in Jobs : status[j] = "CANCELLED" /\ Running(j)
      => Resubmitted(j)

\* The clean-up of an old job, which pops by hash minutes later, leaves the
\* newer job of its transaction alone: a job that has not ended keeps its
\* registration until it is cancelled.  The exception takes three jobs: the
\* done callback of one that was cancelled made the cancellation of the next
\* one miss its task, which went on and scheduled a clean-up.
DevJobKeepsHash ==
    [][\A j \in Jobs : tx_jobs[TxOf[j]] = j /\ status[j] \notin AfterMining =>
         \/ tx_jobs'[TxOf[j]] = j \/ status'[j] = "CANCELLED"
         \/ \E first \in cancelling \ {j}, second \in cleanups \ cancelling :
              TxOf[first] = TxOf[j] /\ TxOf[second] = TxOf[j]]_devVars

\* Every job that was submitted ends, and is forgotten, or the service stops.
EveryDevJobEnds ==
    \A j \in Jobs \ Unsolvable : task[j] # "none" ~> status[j] \in AfterMining \/ started # "started"
EveryDevJobIsForgotten ==
    \A j \in Jobs \ Unsolvable : tx_jobs[TxOf[j]] = j ~> tx_jobs[TxOf[j]] # j \/ started # "started"
=============================================================================
