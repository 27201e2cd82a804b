--------------------------- MODULE StratumProtocol ---------------------------
(***************************************************************************)
(* The jobs of one stratum connection (txstratum/protocol.py): what the    *)
(* miner is sent, which answers are accepted, and how its weight adapts.   *)
(* The manager is the environment: get_best_job gives the head of its      *)
(* queue, else a block, else nothing.  RequestTracking has the requests to *)
(* the miner, RunService the connections that refuse to subscribe.         *)
(*                                                                         *)
(* A MinerJob is the index of its record in `made', so the newest one is   *)
(* protocol.current_job.  Weights are in half units, so that the step of   *)
(* the estimator is 1 and that of a burst of answers is 2.                 *)
(***************************************************************************)
EXTENDS Integers, Sequences, FiniteSets, Functions

CONSTANTS TxJobs,        \* transactions the manager may have at its head
          Weight,        \* the weight of each transaction and of Block
          Block, None,
          MinWeight,     \* MIN_WEIGHT
          InitialWeight, \* INITIAL_WEIGHT
          MaxJobs,       \* MAX_JOBS
          Burst,         \* answers in ten seconds that are too many (10)
          Estimates,     \* what the estimator may compute
          MaxMade,       \* bound: jobs made for the connection
          WeightBound    \* bound: weights explored

ASSUME ProtocolAssumption ==
    /\ Block \notin TxJobs /\ None \notin TxJobs \cup {Block}
    /\ Weight \in [TxJobs \cup {Block} -> Nat]
    /\ {MinWeight, InitialWeight, MaxJobs, Burst, MaxMade, WeightBound} \subseteq Nat
    /\ MaxJobs > 0 /\ MinWeight <= InitialWeight
    /\ Estimates \subseteq Int

VARIABLES
    open,             \* the connection is up
    subscribed,       \* _subscribed
    best,             \* what get_best_job has for this miner
    made,             \* every MinerJob sent to the miner, in order
    jobs,             \* protocol.jobs: the indices still known, oldest first
    current_weight,   \* current_weight
    recent,           \* answers to blocks of the last ten seconds
    work,             \* answers to blocks that the estimator remembers
    completed_jobs,   \* completed_jobs
    solutions,        \* solutions handed to the manager
    tasks             \* periodic tasks that are alive

vars == <<open, subscribed, best, made, jobs, current_weight, recent, work,
          completed_jobs, solutions, tasks>>

Work == TxJobs \cup {Block}
MaxOf(a, b) == IF a > b THEN a ELSE b
MinOf(a, b) == IF a < b THEN a ELSE b

HasJob == made # <<>>
CurrentWork == IF HasJob THEN made[Len(made)].work ELSE None

\* A connection made: nothing is known of its miner.
Init ==
    /\ open = TRUE
    /\ subscribed = FALSE
    /\ best \in Work \cup {None}
    /\ made = <<>>
    /\ jobs = <<>>
    /\ current_weight = InitialWeight
    /\ recent = 0
    /\ work = 0
    /\ completed_jobs = 0
    /\ solutions = 0
    /\ tasks = {}
-----------------------------------------------------------------------------
(* Sending jobs.  `sent' stands for the fields of the protocol that a new  *)
(* job changes, since one handler may send two.                            *)

\* Mutant of Remember: the newest job is dropped.
RememberOldest(known, id) ==
    IF Len(known) < MaxJobs THEN Append(known, id) ELSE known

\* MaxSizeOrderedDict.__setitem__ with a new key.
Remember(known, id) ==
    IF Len(known) < MaxJobs THEN Append(known, id) ELSE Tail(Append(known, id))

\* Mutant of ShareWeight: the weight of the job is not looked at.
ShareWeightPlain(w, weight) == weight

\* The difficulty asked of the miner, for work w at the miner's weight.
ShareWeight(w, weight) == MinOf(weight, Weight[w])

\* protocol.update_job
UpdateJob(sent, w, clean) ==
    [sent EXCEPT
       !.made = Append(@, [work |-> w, clean |-> clean, submitted |-> FALSE,
                           share_weight |-> ShareWeight(w, sent.weight)]),
       !.jobs = Remember(@, Len(sent.made) + 1)]

\* Mutant of UpdateMinerJob: a new transaction does not force the miner.
UpdateMinerJobUnforced(sent, b, clean) ==
    IF b = None THEN sent ELSE UpdateJob(sent, b, clean)

\* manager.update_miner_job when get_best_job returns b: another transaction
\* than the one in hand forces the miner to abandon it.
UpdateMinerJob(sent, b, clean) ==
    LET same == sent.made # <<>> /\ sent.made[Len(sent.made)].work = b
    IN  IF b = None THEN sent
        ELSE UpdateJob(sent, b, clean \/ (b \in TxJobs /\ ~same))

\* set_current_weight
SetCurrentWeight(sent, weight) ==
    UpdateMinerJob([sent EXCEPT !.weight = MaxOf(MinWeight, weight)], best, FALSE)

Fields == [made |-> made, jobs |-> jobs, weight |-> current_weight]
Send(sent) ==
    /\ Len(sent.made) <= MaxMade
    /\ sent.weight <= WeightBound
    /\ made' = sent.made
    /\ jobs' = sent.jobs
    /\ current_weight' = sent.weight
-----------------------------------------------------------------------------
(* The miner.                                                              *)

\* start_if_ready: the first time, the periodic tasks start; a miner with no
\* job is marked as ready (again).
StartIfReady ==
    IF HasJob THEN UNCHANGED <<made, jobs, current_weight, tasks>>
    ELSE /\ tasks' = IF subscribed THEN tasks ELSE {"estimator", "refresh"}
         /\ Send(UpdateMinerJob(Fields, best, FALSE))

\* method_subscribe with a valid address.
Subscribe ==
    /\ open
    /\ subscribed' = TRUE
    /\ StartIfReady
    /\ UNCHANGED <<open, best, recent, work, completed_jobs, solutions>>

\* method_authorize; it starts nothing before the miner has subscribed.
Authorize ==
    /\ open
    /\ subscribed
    /\ StartIfReady
    /\ UNCHANGED <<open, subscribed, best, recent, work, completed_jobs, solutions>>

\* Mutant of Accepted: an answered job is accepted again.
AcceptedAgain(id) == id \in Range(jobs)

\* Answers to a job that is unknown, or was answered, are refused.
Accepted(id) == id \in Range(jobs) /\ ~made[id].submitted

\* method_submit: an accepted answer whose proof of work meets the share
\* weight of its job and, when `full', the weight of the transaction or block.
Submit(id, full) ==
    LET isBlock == made[id].work = Block
        answered == [Fields EXCEPT !.made[id].submitted = TRUE]
        raised == IF recent' > Burst THEN SetCurrentWeight(answered, current_weight + 2)
                  ELSE answered
    IN
    /\ open
    /\ Accepted(id)
    /\ ~full => made[id].share_weight < Weight[made[id].work]
    /\ completed_jobs' = completed_jobs + 1
    /\ recent' = IF isBlock THEN recent + 1 ELSE recent
    /\ work' = IF isBlock THEN work + 1 ELSE work
    /\ \/ /\ full
          /\ solutions' = solutions + 1
          /\ Send(raised)
       \/ /\ ~full
          /\ Send(UpdateMinerJob(raised, best, TRUE))
          /\ UNCHANGED solutions
    /\ UNCHANGED <<open, subscribed, best, tasks>>

\* connection_lost: the periodic tasks are stopped.
ConnectionLost ==
    /\ open
    /\ open' = FALSE
    /\ tasks' = {}
    /\ UNCHANGED <<subscribed, best, made, jobs, current_weight, recent, work,
                   completed_jobs, solutions>>
-----------------------------------------------------------------------------
(* Periodic tasks.                                                         *)

\* refresh_job; its assertion ends the task when there is no job.
RefreshJob ==
    /\ open /\ "refresh" \in tasks
    /\ IF HasJob THEN Send(UpdateMinerJob(Fields, best, FALSE)) /\ UNCHANGED tasks
       ELSE tasks' = tasks \ {"refresh"} /\ UNCHANGED <<made, jobs, current_weight>>
    /\ UNCHANGED <<open, subscribed, best, recent, work, completed_jobs, solutions>>

\* estimator_loop: old answers are dropped; with none left the weight falls,
\* with two or more it is estimated.  The logarithm of their total time fails
\* when the clock did not advance, and the failure ends the task.
EstimatorLoop ==
    /\ open /\ "estimator" \in tasks
    /\ HasJob
    /\ work' \in recent..work
    /\ \/ /\ work' = 0
          /\ Send(SetCurrentWeight(Fields, current_weight - 1))
          /\ UNCHANGED tasks
       \/ /\ work' = 1
          /\ UNCHANGED <<made, jobs, current_weight, tasks>>
       \/ /\ work' >= 2
          /\ \E w \in Estimates : Send(SetCurrentWeight(Fields, w))
          /\ UNCHANGED tasks
       \/ /\ work' >= 2
          /\ tasks' = tasks \ {"estimator"}
          /\ UNCHANGED <<made, jobs, current_weight>>
    /\ UNCHANGED <<open, subscribed, best, recent, completed_jobs, solutions>>

\* Answers become older than ten seconds.
TimePasses ==
    /\ recent > 0
    /\ recent' \in 0..(recent - 1)
    /\ UNCHANGED <<open, subscribed, best, made, jobs, current_weight, work,
                   completed_jobs, solutions, tasks>>
-----------------------------------------------------------------------------
(* The manager.                                                            *)

\* The head of the queue changes.  A ready miner is told at once of a head
\* that comes to an empty queue, and of the end of the transaction it is on.
HeadChanges(b) ==
    /\ b # best
    /\ best \in TxJobs \/ b \in TxJobs
    /\ best' = b
    /\ IF subscribed /\ open
       THEN Send(UpdateMinerJob(Fields, b, CurrentWork \in TxJobs))
       ELSE UNCHANGED <<made, jobs, current_weight>>
    /\ UNCHANGED <<open, subscribed, recent, work, completed_jobs, solutions, tasks>>

\* A template arrives; only a miner that is on a block is told.
TemplateArrives ==
    /\ best' = IF best \in TxJobs THEN best ELSE Block
    /\ IF subscribed /\ open /\ CurrentWork = Block
       THEN Send(UpdateMinerJob(Fields, best', FALSE))
       ELSE UNCHANGED <<made, jobs, current_weight>>
    /\ UNCHANGED <<open, subscribed, recent, work, completed_jobs, solutions, tasks>>

\* The template is given up.
TemplateLost ==
    /\ best = Block
    /\ best' = None
    /\ UNCHANGED <<open, subscribed, made, jobs, current_weight, recent, work,
                   completed_jobs, solutions, tasks>>

Next ==
    \/ Subscribe \/ Authorize
    \/ \E id \in 1..Len(made), full \in BOOLEAN : Submit(id, full)
    \/ ConnectionLost
    \/ RefreshJob \/ EstimatorLoop \/ TimePasses
    \/ \E b \in Work \cup {None} : HeadChanges(b)
    \/ TemplateArrives \/ TemplateLost

Spec == Init /\ [][Next]_vars
-----------------------------------------------------------------------------
(* Properties.                                                             *)

\* The state space.
TypeOK ==
    /\ open \in BOOLEAN /\ subscribed \in BOOLEAN
    /\ best \in Work \cup {None}
    /\ made \in Seq([work : Work, clean : BOOLEAN, submitted : BOOLEAN, share_weight : Nat])
    /\ jobs \in Seq(1..Len(made))
    /\ current_weight \in Nat
    /\ recent \in Nat /\ work \in Nat
    /\ completed_jobs \in Nat /\ solutions \in Nat
    /\ tasks \subseteq {"estimator", "refresh"}

\* However the miner repeats itself, jobs are forgotten and jobs are replaced
\* within one answer, each MinerJob is answered once (STALE_JOB, and a job
\* that is forgotten stays unknown) and yields at most one solution.
AnsweredOnce ==
    /\ completed_jobs = Cardinality({id \in 1..Len(made) : made[id].submitted})
    /\ solutions <= completed_jobs

\* The answer of a miner to its current job is never "Job not found", nor is
\* any of its latest MaxJobs jobs forgotten (MaxSizeOrderedDict).
LatestJobsAreKnown ==
    \A id \in 1..Len(made) : id + MaxJobs > Len(made) <=> id \in Range(jobs)

\* A solution of a transaction or block is never refused as an invalid share:
\* no share weight is above the weight of its own job, whatever the estimator
\* asks for; and the estimator never asks for less than MIN_WEIGHT.
SharesWithinWeight ==
    \A id \in 1..Len(made) :
      /\ made[id].share_weight <= Weight[made[id].work]
      /\ made[id].share_weight >= MinOf(MinWeight, Weight[made[id].work])

\* A miner put on another transaction is told to abandon what it mines, by
\* whichever path it learns of it: the manager, a refresh, the estimator or
\* the answer to its own share.
NewTransactionIsClean ==
    \A id \in 1..Len(made) :
      made[id].work \in TxJobs /\ (id = 1 \/ made[id - 1].work # made[id].work)
        => made[id].clean
=============================================================================
