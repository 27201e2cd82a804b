-------------------------- MODULE TxMiningManager --------------------------
(***************************************************************************)
(* The transaction side of txstratum/manager.py: the life of a TxJob from  *)
(* the API to its end state, and the work handed to the miners meanwhile.  *)
(*                                                                         *)
(* The program is a single asyncio loop, so an action is what runs between *)
(* two awaits: an API handler, a timer callback, the part of a coroutine   *)
(* before its await and each continuation after it, a periodic task, a     *)
(* message of a miner.  Everything else is interleaving.                   *)
(*                                                                         *)
(* A member of Jobs is one TxJob object (one accepted POST /submit-job);   *)
(* two jobs with the same Uuid carry the same transaction.                 *)
(***************************************************************************)
EXTENDS Deque

CONSTANTS Jobs,             \* TxJob objects the API may create
          Txs,              \* transaction hashes
          Uuid,             \* the hash of each job's transaction
          AddParents,       \* the jobs submitted with add_parents=true
          Propagate,        \* the jobs submitted with propagate=true
          Miners,           \* stratum connections, each may come and go
          MaxInFlight,      \* bound: solutions of one job handled at a time
          TimeoutIsShorter, \* does every timeout run out before a clean-up?
          Block,            \* the current job is a MinerBlockJob
          None              \* Python's None

ASSUME JobsAssumption ==
    /\ Uuid \in [Jobs -> Txs]
    /\ AddParents \subseteq Jobs
    /\ Propagate \subseteq Jobs
ASSUME SentinelsAssumption == None \notin Jobs /\ Block \notin Jobs /\ None # Block
ASSUME BoundsAssumption == MaxInFlight \in Nat /\ TimeoutIsShorter \in BOOLEAN

VARIABLES
    status,          \* TxJob.status; "UNUSED" before the API creates the job
    tx_jobs,         \* the registry: the job of a transaction hash, or None
    tx_queue,        \* the deque of jobs to be mined
    timeout_timer,   \* jobs whose _timeout_timer is running
    cleanup_timer,   \* jobs whose _cleanup_timer is running
    parents,         \* the add_parents coroutine of each job
    scheduled,       \* _submit_tx_solution coroutines not started yet
    pushing,         \* _submit_tx_solution coroutines awaiting the full node
    miners,          \* connections that are ready to mine
    current_job,     \* protocol.current_job: None, Block or the TxJob it wraps
    miner_jobs,      \* protocol.jobs: the TxJobs a miner may still answer
    refresh_task,    \* connections whose refresh_job task is alive
    block_template,  \* is there a block template?
    refuse_new_jobs, \* set when the service is shutting down
    solved, failed, timed_out \* events published for each job

jobVars   == <<status, tx_jobs, tx_queue>>
timerVars == <<timeout_timer, cleanup_timer>>
coroVars  == <<parents, scheduled, pushing>>
workVars  == <<current_job, miner_jobs>>
minerVars == <<miners, refresh_task>>
envVars   == <<block_template, refuse_new_jobs>>
eventVars == <<solved, failed, timed_out>>
vars == <<jobVars, timerVars, coroVars, workVars, minerVars, envVars, eventVars>>

AfterMining == {"DONE", "FAILED", "TIMEOUT", "CANCELLED"}
BeforeMining == {"PENDING", "GETTING_PARENTS", "ENQUEUED", "MINING"}
Status == AfterMining \cup BeforeMining \cup {"UNUSED"}

Finished(j) == status[j] \in AfterMining
Registered(j) == tx_jobs[Uuid[j]] = j
Queued(j) == j \in Range(tx_queue)

Init ==
    /\ status = [j \in Jobs |-> "UNUSED"]
    /\ tx_jobs = [t \in Txs |-> None]
    /\ tx_queue = <<>>
    /\ timeout_timer = {}
    /\ cleanup_timer = {}
    /\ parents = [j \in Jobs |-> "none"]
    /\ scheduled = [j \in Jobs |-> 0]
    /\ pushing = [j \in Jobs |-> 0]
    /\ miners = {}
    /\ current_job = [m \in Miners |-> None]
    /\ miner_jobs = [m \in Miners |-> {}]
    /\ refresh_task = {}
    /\ block_template = FALSE
    /\ refuse_new_jobs = FALSE
    /\ solved = [j \in Jobs |-> 0]
    /\ failed = [j \in Jobs |-> 0]
    /\ timed_out = [j \in Jobs |-> 0]
-----------------------------------------------------------------------------
(* Handing work to the miners.                                             *)

\* Mutant of BestJob: the newest job instead of the oldest.
BestJobNewest(q, current) ==
    IF q # <<>> THEN q[Len(q)] ELSE IF block_template THEN Block ELSE current

\* get_best_job: the head of the queue, else a block; with no template there
\* is nothing to send and the miner keeps what it has.
BestJob(q, current) ==
    IF q # <<>> THEN Head(q) ELSE IF block_template THEN Block ELSE current

\* update_miner_job for each of the miners ms, when the queue is q.
UpdateMinerJobs(ms, q) ==
    /\ current_job' = [m \in Miners |->
                         IF m \in ms THEN BestJob(q, current_job[m])
                         ELSE current_job[m]]
    /\ miner_jobs' = [m \in Miners |->
                         IF m \in ms /\ q # <<>> THEN miner_jobs[m] \cup {Head(q)}
                         ELSE miner_jobs[m]]

\* What get_best_job does to the statuses st when it serves the miners ms.
MarkMining(st, ms, q) ==
    IF q # <<>> /\ ms # {} THEN [st EXCEPT ![Head(q)] = "MINING"] ELSE st

\* The miners stop_mining_tx moves away from job j.
Workers(j) == {m \in miners : current_job[m] = j}
-----------------------------------------------------------------------------
(* The API and the queue.                                                  *)

\* Mutant of Enqueue: the timeout is not armed.
EnqueueUntimed(j, armed) ==
    LET q == Append(tx_queue, j)
        ms == IF tx_queue = <<>> THEN miners ELSE {}
    IN  /\ tx_queue' = q
        /\ status' = MarkMining([status EXCEPT ![j] = "ENQUEUED"], ms, q)
        /\ timeout_timer' = armed
        /\ UpdateMinerJobs(ms, q)

\* enqueue_tx_job; the API gives every job a timeout, so the timer is armed.
\* Only a job that finds the queue empty makes the miners change their work.
Enqueue(j, armed) ==
    LET q == Append(tx_queue, j)
        ms == IF tx_queue = <<>> THEN miners ELSE {}
    IN  /\ tx_queue' = q
        /\ status' = MarkMining([status EXCEPT ![j] = "ENQUEUED"], ms, q)
        /\ timeout_timer' = armed \cup {j}
        /\ UpdateMinerJobs(ms, q)

\* Mutant of AddJob: the clean-up of the job that timed out stays armed.
AddJobUncleaned(j) ==
    LET prev == tx_jobs[Uuid[j]] IN
    /\ status[j] = "UNUSED"
    /\ ~refuse_new_jobs
    /\ prev # None => status[prev] = "TIMEOUT"
    /\ tx_jobs' = [tx_jobs EXCEPT ![Uuid[j]] = j]
    /\ IF j \in AddParents
       THEN /\ status' = [status EXCEPT ![j] = "PENDING"]
            /\ parents' = [parents EXCEPT ![j] = "scheduled"]
            /\ timeout_timer' = timeout_timer \ {prev}
            /\ UNCHANGED <<tx_queue, workVars>>
       ELSE /\ Enqueue(j, timeout_timer \ {prev})
            /\ UNCHANGED parents
    /\ UNCHANGED <<cleanup_timer, scheduled, pushing, minerVars, envVars, eventVars>>

\* POST /submit-job -> add_job.  A registered job of the same transaction
\* refuses the new one, unless it timed out: then it is cleaned up first.
AddJob(j) ==
    LET prev == tx_jobs[Uuid[j]] IN
    /\ status[j] = "UNUSED"
    /\ ~refuse_new_jobs
    /\ prev # None => status[prev] = "TIMEOUT"
    /\ tx_jobs' = [tx_jobs EXCEPT ![Uuid[j]] = j]
    /\ cleanup_timer' = cleanup_timer \ {prev}
    /\ IF j \in AddParents
       THEN /\ status' = [status EXCEPT ![j] = "PENDING"]
            /\ parents' = [parents EXCEPT ![j] = "scheduled"]
            /\ timeout_timer' = timeout_timer \ {prev}
            /\ UNCHANGED <<tx_queue, workVars>>
       ELSE /\ Enqueue(j, timeout_timer \ {prev})
            /\ UNCHANGED parents
    /\ UNCHANGED <<scheduled, pushing, minerVars, envVars, eventVars>>

\* The add_parents coroutine starts and asks the full node for parents.
AddParentsStart(j) ==
    /\ parents[j] = "scheduled"
    /\ parents' = [parents EXCEPT ![j] = "awaiting"]
    /\ status' = [status EXCEPT ![j] = "GETTING_PARENTS"]
    /\ UNCHANGED <<tx_jobs, tx_queue, timerVars, scheduled, pushing, workVars,
                   minerVars, envVars, eventVars>>

\* The parents arrive, whatever became of the job meanwhile.
AddParentsOk(j) ==
    /\ parents[j] = "awaiting"
    /\ parents' = [parents EXCEPT ![j] = "none"]
    /\ Enqueue(j, timeout_timer)
    /\ UNCHANGED <<tx_jobs, cleanup_timer, scheduled, pushing, minerVars,
                   envVars, eventVars>>

\* Mutant of AddParentsFail: no clean-up is scheduled.
AddParentsFailKept(j) ==
    /\ parents[j] = "awaiting"
    /\ parents' = [parents EXCEPT ![j] = "none"]
    /\ status' = [status EXCEPT ![j] = "FAILED"]
    /\ failed' = [failed EXCEPT ![j] = @ + 1]
    /\ UNCHANGED <<tx_jobs, tx_queue, timerVars, scheduled, pushing,
                   workVars, minerVars, envVars, solved, timed_out>>

\* get_tx_parents raises.
AddParentsFail(j) ==
    /\ parents[j] = "awaiting"
    /\ parents' = [parents EXCEPT ![j] = "none"]
    /\ status' = [status EXCEPT ![j] = "FAILED"]
    /\ failed' = [failed EXCEPT ![j] = @ + 1]
    /\ cleanup_timer' = cleanup_timer \cup {j}
    /\ UNCHANGED <<tx_jobs, tx_queue, timeout_timer, scheduled, pushing,
                   workVars, minerVars, envVars, solved, timed_out>>

\* POST /cancel-job -> cancel_job.  When the job is not in the queue (it is
\* getting its parents, or being pushed), tx_queue.remove raises ValueError
\* after the status and the registry have changed: nothing else happens.
CancelJob(j) ==
    LET q == Without(tx_queue, j)
        cancelled == [status EXCEPT ![j] = "CANCELLED"]
    IN
    /\ Registered(j)
    /\ ~Finished(j)
    /\ tx_jobs' = [tx_jobs EXCEPT ![Uuid[j]] = None]
    /\ \/ /\ Queued(j)
          /\ tx_queue' = q
          /\ status' = MarkMining(cancelled, Workers(j), q)
          /\ UpdateMinerJobs(Workers(j), q)
          /\ failed' = [failed EXCEPT ![j] = @ + 1]
       \/ /\ ~Queued(j)
          /\ status' = cancelled
          /\ UNCHANGED <<tx_queue, workVars, failed>>
    /\ UNCHANGED <<timerVars, coroVars, minerVars, envVars, solved, timed_out>>
-----------------------------------------------------------------------------
(* Solutions.                                                              *)

\* method_submit with a valid proof of work: submit_solution schedules the
\* coroutine.  MaxInFlight bounds the coroutines of one job.
SubmitSolution(m, j) ==
    /\ m \in miners
    /\ j \in miner_jobs[m]
    /\ scheduled[j] + pushing[j] < MaxInFlight
    /\ scheduled' = [scheduled EXCEPT ![j] = @ + 1]
    /\ UNCHANGED <<jobVars, timerVars, parents, pushing, workVars, minerVars,
                   envVars, eventVars>>

\* _submit_tx_solution up to its await: ignored when the job has finished,
\* else the job leaves the queue, its clean-up is armed, its miners move on,
\* and it is either pushed to the full node or solved at once.
RunSolution(j) ==
    LET q == Without(tx_queue, j)
        moved == MarkMining(status, Workers(j), q)
    IN
    /\ scheduled[j] > 0
    /\ scheduled' = [scheduled EXCEPT ![j] = @ - 1]
    /\ \/ /\ Finished(j)
          /\ UNCHANGED <<status, tx_queue, cleanup_timer, workVars, pushing, solved>>
       \/ /\ ~Finished(j)
          /\ tx_queue' = q
          /\ cleanup_timer' = cleanup_timer \cup {j}
          /\ UpdateMinerJobs(Workers(j), q)
          /\ IF j \in Propagate
             THEN /\ status' = moved
                  /\ pushing' = [pushing EXCEPT ![j] = @ + 1]
                  /\ UNCHANGED solved
             ELSE /\ status' = [moved EXCEPT ![j] = "DONE"]
                  /\ solved' = [solved EXCEPT ![j] = @ + 1]
                  /\ UNCHANGED pushing
    /\ UNCHANGED <<tx_jobs, timeout_timer, parents, minerVars, envVars, failed, timed_out>>

\* A push ends; what is left of the coroutine decides status and events.
PushEnds(j) ==
    /\ pushing[j] > 0
    /\ pushing' = [pushing EXCEPT ![j] = @ - 1]
    /\ UNCHANGED <<tx_jobs, tx_queue, timerVars, parents, scheduled, workVars,
                   minerVars, envVars, timed_out>>

\* Mutant of PushOk: the solution is not announced.
PushOkSilent(j) ==
    /\ PushEnds(j)
    /\ status' = [status EXCEPT ![j] = "DONE"]
    /\ UNCHANGED <<solved, failed>>

\* The full node accepts: the job is solved, whatever its status is by now.
PushOk(j) ==
    /\ PushEnds(j)
    /\ status' = [status EXCEPT ![j] = "DONE"]
    /\ solved' = [solved EXCEPT ![j] = @ + 1]
    /\ UNCHANGED failed

\* Mutant of PushFailed: the end state found is not looked at.
PushFailedUnchecked(j) ==
    /\ PushEnds(j)
    /\ status' = [status EXCEPT ![j] = "FAILED"]
    /\ failed' = [failed EXCEPT ![j] = @ + 1]
    /\ UNCHANGED solved

\* PushTxFailed: the job fails, unless it has finished meanwhile.
PushFailed(j) ==
    /\ PushEnds(j)
    /\ IF Finished(j)
       THEN UNCHANGED <<status, failed>>
       ELSE /\ status' = [status EXCEPT ![j] = "FAILED"]
            /\ failed' = [failed EXCEPT ![j] = @ + 1]
    /\ UNCHANGED solved

\* Any other exception of the HTTP client (a closed connection, a time limit)
\* ends the coroutine and is seen by nobody.
PushError(j) ==
    /\ PushEnds(j)
    /\ UNCHANGED <<status, solved, failed>>
-----------------------------------------------------------------------------
(* Timers.                                                                 *)

\* _job_timeout_if_possible
JobTimeout(j) ==
    LET q == Without(tx_queue, j) IN
    /\ j \in timeout_timer
    /\ timeout_timer' = timeout_timer \ {j}
    /\ \/ /\ Finished(j)
          /\ UNCHANGED <<status, tx_queue, cleanup_timer, workVars, timed_out>>
       \/ /\ ~Finished(j)
          /\ timed_out' = [timed_out EXCEPT ![j] = @ + 1]
          /\ tx_queue' = q
          /\ status' = MarkMining([status EXCEPT ![j] = "TIMEOUT"], Workers(j), q)
          /\ UpdateMinerJobs(Workers(j), q)
          /\ cleanup_timer' = cleanup_timer \cup {j}
    /\ UNCHANGED <<tx_jobs, coroVars, minerVars, envVars, solved, failed>>

\* The clean-up timer fires: _job_clean_up pops the hash of the job, which
\* raises KeyError, before the timers are cancelled, when nothing is there.
\* A timeout is armed before a clean-up, so a shorter one also ends before it.
CleanUp(j) ==
    /\ j \in cleanup_timer
    /\ TimeoutIsShorter => j \notin timeout_timer
    /\ cleanup_timer' = cleanup_timer \ {j}
    /\ IF tx_jobs[Uuid[j]] # None
       THEN /\ tx_jobs' = [tx_jobs EXCEPT ![Uuid[j]] = None]
            /\ timeout_timer' = timeout_timer \ {j}
       ELSE UNCHANGED <<tx_jobs, timeout_timer>>
    /\ UNCHANGED <<status, tx_queue, coroVars, workVars, minerVars, envVars, eventVars>>
-----------------------------------------------------------------------------
(* Miners and the block template.                                          *)

\* A miner subscribes: start_if_ready, start_periodic_tasks (each task only
\* once per connection) and mark_connection_as_ready.  One that subscribes
\* again goes through it again only if it has no job.
MinerReady(m) ==
    /\ m \in miners => current_job[m] = None
    /\ miners' = miners \cup {m}
    /\ refresh_task' = IF m \in miners THEN refresh_task ELSE refresh_task \cup {m}
    /\ status' = MarkMining(status, {m}, tx_queue)
    /\ UpdateMinerJobs({m}, tx_queue)
    /\ UNCHANGED <<tx_jobs, tx_queue, timerVars, coroVars, envVars, eventVars>>

\* Mutant of MinerLost: the refresh task is not stopped.
MinerLostRefreshed(m) ==
    /\ m \in miners
    /\ miners' = miners \ {m}
    /\ current_job' = [current_job EXCEPT ![m] = None]
    /\ miner_jobs' = [miner_jobs EXCEPT ![m] = {}]
    /\ UNCHANGED <<jobVars, timerVars, coroVars, refresh_task, envVars, eventVars>>

\* connection_lost; a new connection starts with a fresh StratumProtocol.
MinerLost(m) ==
    /\ m \in miners
    /\ miners' = miners \ {m}
    /\ refresh_task' = refresh_task \ {m}
    /\ current_job' = [current_job EXCEPT ![m] = None]
    /\ miner_jobs' = [miner_jobs EXCEPT ![m] = {}]
    /\ UNCHANGED <<jobVars, timerVars, coroVars, envVars, eventVars>>

\* Mutant of RefreshJob: only transactions are refreshed.
RefreshJobTxOnly(m) ==
    /\ m \in refresh_task /\ tx_queue # <<>>
    /\ status' = MarkMining(status, {m}, tx_queue)
    /\ UpdateMinerJobs({m}, tx_queue)
    /\ UNCHANGED <<tx_jobs, tx_queue, timerVars, coroVars, minerVars, envVars, eventVars>>

\* The refresh_job task; its assertion ends the task for good when the miner
\* has no job, since Periodic stops at the first exception.
RefreshJob(m) ==
    /\ m \in refresh_task
    /\ \/ /\ current_job[m] # None
          /\ status' = MarkMining(status, {m}, tx_queue)
          /\ UpdateMinerJobs({m}, tx_queue)
          /\ UNCHANGED refresh_task
       \/ /\ current_job[m] = None
          /\ refresh_task' = refresh_task \ {m}
          /\ UNCHANGED <<status, workVars>>
    /\ UNCHANGED <<tx_jobs, tx_queue, timerVars, coroVars, miners, envVars, eventVars>>

\* The estimator task, or a share below the weight of its job.
UpdateMinerJob(m) ==
    /\ m \in miners
    /\ current_job[m] # None
    /\ status' = MarkMining(status, {m}, tx_queue)
    /\ UpdateMinerJobs({m}, tx_queue)
    /\ UNCHANGED <<tx_jobs, tx_queue, timerVars, coroVars, minerVars, envVars, eventVars>>

\* update_block_template: a template arrives and the miners of blocks get
\* their new job.
TemplateArrives ==
    LET ms == {m \in miners : current_job[m] = Block}  \* on a block they stay
    IN
    /\ block_template' = TRUE
    /\ status' = MarkMining(status, ms, tx_queue)
    /\ UpdateMinerJobs(ms, tx_queue)
    /\ UNCHANGED <<tx_jobs, tx_queue, timerVars, coroVars, minerVars,
                   refuse_new_jobs, eventVars>>

\* The full node has not answered for more than a minute.
TemplateLost ==
    /\ block_template' = FALSE
    /\ UNCHANGED <<jobVars, timerVars, coroVars, workVars, minerVars,
                   refuse_new_jobs, eventVars>>

\* The service begins to shut down: no new job is accepted.
RefuseNewJobs ==
    /\ refuse_new_jobs' = TRUE
    /\ UNCHANGED <<jobVars, timerVars, coroVars, workVars, minerVars,
                   block_template, eventVars>>
-----------------------------------------------------------------------------
JobStep(j) ==
    \/ AddJob(j) \/ AddParentsStart(j) \/ AddParentsOk(j) \/ AddParentsFail(j)
    \/ CancelJob(j) \/ RunSolution(j) \/ PushOk(j) \/ PushFailed(j) \/ PushError(j)
    \/ JobTimeout(j) \/ CleanUp(j)

MinerStep(m) ==
    \/ MinerReady(m) \/ MinerLost(m) \/ RefreshJob(m) \/ UpdateMinerJob(m)
    \/ \E j \in Jobs : SubmitSolution(m, j)

Next ==
    \/ \E j \in Jobs : JobStep(j)
    \/ \E m \in Miners : MinerStep(m)
    \/ TemplateArrives
    \/ TemplateLost
    \/ RefuseNewJobs

Spec == Init /\ [][Next]_vars

\* The loop runs what is ready and fires its timers, the full node answers a
\* request for parents, and the refresh task ticks.  No push has to end and
\* nothing has to be submitted.
Fairness ==
    /\ \A j \in Jobs : /\ WF_vars(AddParentsStart(j))
                       /\ WF_vars(AddParentsOk(j) \/ AddParentsFail(j))
                       /\ WF_vars(JobTimeout(j))
                       /\ WF_vars(CleanUp(j))
    /\ \A m \in Miners : WF_vars(RefreshJob(m))

FairSpec == Spec /\ Fairness
-----------------------------------------------------------------------------
(* Properties.                                                             *)

\* The state space.  One conjunct is more than a type: only a connection that
\* is ready has a refresh task, which connection_lost must stop.
TypeOK ==
    /\ status \in [Jobs -> Status]
    /\ tx_jobs \in [Txs -> Jobs \cup {None}]
    /\ tx_queue \in Seq(Jobs)
    /\ timeout_timer \subseteq Jobs
    /\ cleanup_timer \subseteq Jobs
    /\ parents \in [Jobs -> {"none", "scheduled", "awaiting"}]
    /\ scheduled \in [Jobs -> Nat]
    /\ pushing \in [Jobs -> Nat]
    /\ miners \subseteq Miners
    /\ current_job \in [Miners -> Jobs \cup {Block, None}]
    /\ miner_jobs \in [Miners -> SUBSET Jobs]
    /\ refresh_task \subseteq miners
    /\ block_template \in BOOLEAN
    /\ refuse_new_jobs \in BOOLEAN
    /\ solved \in [Jobs -> Nat]
    /\ failed \in [Jobs -> Nat]
    /\ timed_out \in [Jobs -> Nat]

\* No job waits twice, and the manager's assertions hold: get_best_job never
\* meets a finished job at the head, enqueue_tx_job never finds its job
\* already queued (the coroutine of add_parents enqueues late).
QueueAssertions ==
    /\ IsInjective(tx_queue)
    /\ \A j \in Jobs : Queued(j) => status[j] \in {"ENQUEUED", "MINING"}
    /\ \A j \in Jobs : parents[j] # "none" => ~Queued(j)

\* Jobs are mined one at a time and in order of arrival: behind the head of
\* the queue every job is still waiting (get_best_job only looks at [0]).
OnlyHeadIsMining ==
    \A i \in 2..Len(tx_queue) : status[tx_queue[i]] = "ENQUEUED"

\* "All miners will be working in the same tx job at the same time" (README):
\* while a transaction waits, every ready miner works on the head, although
\* enqueue_tx_job and stop_mining_tx only tell some of the miners.
MinersOnHead ==
    tx_queue # <<>> => \A m \in miners : current_job[m] = Head(tx_queue)

\* Nothing is kept for ever: a queued job has its timeout armed, a registered
\* job that has finished has its clean-up armed, and any other registered job
\* has a coroutine or a timer that will end it.
TimersCover ==
    \A j \in Jobs :
      /\ Queued(j) => j \in timeout_timer
      /\ Registered(j) /\ Finished(j) => j \in cleanup_timer
      /\ Registered(j) => parents[j] # "none" \/ j \in timeout_timer \cup cleanup_timer

\* However pushes, timeouts, cancellations and failed parents interleave, a
\* job is counted at most once as failed or timed out (_submit_tx_solution
\* keeps the end state it finds when its push fails).
FailureCountedOnce == \A j \in Jobs : failed[j] + timed_out[j] <= 1

\* A job reads DONE exactly when a solution of it has been announced.
DoneIsAnnounced == \A j \in Jobs : status[j] = "DONE" <=> solved[j] > 0

\* DONE is final, and only a solution overturns a failure or a timeout: no
\* late timer, push, parents or refresh does.
EndStatesHold ==
    [][\A j \in Jobs :
         /\ status[j] = "DONE" => status'[j] = "DONE"
         /\ status[j] \in {"FAILED", "TIMEOUT"} => status'[j] \in {status[j], "DONE"}]_vars

\* Each ready miner works on the head of one queue of jobs: the manager
\* implements FifoFleet, a miner with no transaction to mine being idle.
Fleet == INSTANCE FifoFleet WITH
    Idle <- None, queue <- tx_queue, fleet <- miners,
    working <- [m \in Miners |-> IF m \in miners /\ tx_queue # <<>>
                                 THEN current_job[m] ELSE None]
FleetSpec == Fleet!Spec

\* What clients see of a hash only goes forward, from a submission to its
\* outcome, until it is forgotten; CANCELLED is never seen.  A job that lost
\* its registration to another job of its hash may go on unseen.
Registry == INSTANCE JobRegistry WITH
    visible <- [t \in Txs |-> IF tx_jobs[t] = None THEN None ELSE status[tx_jobs[t]]]
RegistrySpec == Registry!Spec

\* Every job the API accepted ends, and stays ended, even if no miner ever
\* comes, the push never ends, or it was cancelled before it was queued.
EveryJobEnds == \A j \in Jobs : status[j] # "UNUSED" ~> []Finished(j)

\* Every registration is eventually given up (_job_clean_up, cancel_job).
EveryJobIsForgotten == \A j \in Jobs : Registered(j) ~> ~Registered(j)

\* A miner left on a transaction that is no longer queued (there was no
\* template when it ended) gets other work once there is a template, from
\* its refresh_job task.
StaleWorkIsReplaced ==
    \A m \in Miners, j \in Jobs :
      current_job[m] = j /\ ~Queued(j) /\ m \in refresh_task
        ~> current_job[m] # j \/ Queued(j) \/ ~block_template
=============================================================================
