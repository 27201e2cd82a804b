--------------------------- MODULE RequestTracking ---------------------------
(***************************************************************************)
(* The requests a stratum connection sends to its miner                    *)
(* (txstratum/protocol.py): client.get_version is sent when the miner      *)
(* subscribes or authorizes and then by the RTT estimator, and each one is *)
(* tracked until its answer comes or it times out.  The miner answers in   *)
(* any order, late, twice, or not at all.                                  *)
(*                                                                         *)
(* Time is counted in periods of the tasks (5 seconds): an age is the      *)
(* number of ticks since a request was sent, up to MaxAge.                 *)
(***************************************************************************)
EXTENDS Naturals, FiniteSets, Functions

CONSTANTS MessageTimeout, \* MESSAGE_TIMEOUT, in ticks
          RttTimeout,     \* RTT_ESTIMATOR_MESSAGE_TIMEOUT, in ticks
          MaxAge,         \* bound: ages are not told apart above it
          MaxMessages,    \* bound: requests sent on the connection
          None

ASSUME TrackingAssumption ==
    /\ {MessageTimeout, RttTimeout, MaxAge, MaxMessages} \subseteq Nat
    /\ MessageTimeout < MaxAge /\ RttTimeout <= MaxAge
    /\ None \notin Nat

VARIABLES
    open,                  \* the connection is up
    subscribed,            \* _subscribed
    has_job,               \* current_job is not None
    tasks,                 \* the periodic tasks that run
    next_message_id,
    messages_in_transit,   \* the age of each request that is tracked
    unanswered,            \* requests the miner may still answer
    rtt_time_message_sent  \* the age of the RTT request waited for, or None

vars == <<open, subscribed, has_job, tasks, next_message_id, messages_in_transit,
          unanswered, rtt_time_message_sent>>

Ids == 1..MaxMessages
Older(age) == IF age < MaxAge THEN age + 1 ELSE age
InTransit == DOMAIN messages_in_transit

Init ==
    /\ open = TRUE
    /\ subscribed = FALSE
    /\ has_job = FALSE
    /\ tasks = {}
    /\ next_message_id = 1
    /\ messages_in_transit = <<>>
    /\ unanswered = {}
    /\ rtt_time_message_sent = None
-----------------------------------------------------------------------------
\* send_and_track_request("client.get_version"), up to the bound of messages.
SendAndTrack ==
    /\ next_message_id \in Ids
    /\ next_message_id' = next_message_id + 1
    /\ messages_in_transit' = [id \in InTransit \cup {next_message_id} |->
                                 IF id = next_message_id THEN 0 ELSE messages_in_transit[id]]
    /\ unanswered' = unanswered \cup {next_message_id}

\* Mutant of StartPeriodicTasks: the messages_timeout task is forgotten.
StartPeriodicTasksOne == tasks' = {"rtt_estimator"}

\* start_periodic_tasks; the tasks of the jobs are in StratumProtocol.
StartPeriodicTasks == tasks' = {"rtt_estimator", "messages_timeout"}

\* method_subscribe and method_authorize end in start_if_ready, which asks for
\* the version in any case; the tasks start when a subscribed miner has no
\* job, and the manager may have none for it (`job').
StartIfReady(now, job) ==
    /\ SendAndTrack
    /\ subscribed' = now
    /\ IF now /\ ~has_job
       THEN StartPeriodicTasks /\ has_job' = job
       ELSE UNCHANGED <<tasks, has_job>>
    /\ UNCHANGED <<open, rtt_time_message_sent>>

Subscribe == open /\ \E job \in BOOLEAN : StartIfReady(TRUE, job)
Authorize == open /\ \E job \in BOOLEAN : StartIfReady(subscribed, job)

\* The manager finds a job for a miner that had none.
JobArrives ==
    /\ open /\ subscribed /\ ~has_job
    /\ has_job' = TRUE
    /\ UNCHANGED <<open, subscribed, tasks, next_message_id, messages_in_transit,
                   unanswered, rtt_time_message_sent>>

\* Mutant of RttEstimator: an answer that is late is waited for.
RttEstimatorPatient ==
    /\ "rtt_estimator" \in tasks
    /\ rtt_time_message_sent = None
    /\ rtt_time_message_sent' = 0
    /\ SendAndTrack
    /\ UNCHANGED <<open, subscribed, has_job, tasks>>

\* rtt_estimator: one request at a time, unless the last one is too old.
RttEstimator ==
    /\ "rtt_estimator" \in tasks
    /\ rtt_time_message_sent # None => rtt_time_message_sent >= RttTimeout
    /\ rtt_time_message_sent' = 0
    /\ SendAndTrack
    /\ UNCHANGED <<open, subscribed, has_job, tasks>>

\* messages_timeout_job
MessagesTimeoutJob ==
    /\ "messages_timeout" \in tasks
    /\ messages_in_transit' = [id \in {i \in InTransit : messages_in_transit[i] <= MessageTimeout}
                                 |-> messages_in_transit[id]]
    /\ UNCHANGED <<open, subscribed, has_job, tasks, next_message_id, unanswered,
                   rtt_time_message_sent>>

\* Mutant of HandleResult: the estimator goes on waiting.
HandleResultWaits(id) ==
    /\ open
    /\ id \in InTransit
    /\ messages_in_transit' = [i \in InTransit \ {id} |-> messages_in_transit[i]]
    /\ UNCHANGED <<open, subscribed, has_job, tasks, next_message_id, unanswered,
                   rtt_time_message_sent>>

\* handle_result: the answer to a tracked request.  A second answer, or one
\* that comes after its request timed out, is of no request and is ignored.
HandleResult(id) ==
    /\ open
    /\ id \in unanswered \cap InTransit
    /\ messages_in_transit' = [i \in InTransit \ {id} |-> messages_in_transit[i]]
    /\ rtt_time_message_sent' = None
    /\ UNCHANGED <<open, subscribed, has_job, tasks, next_message_id, unanswered>>

\* The miner will not answer this request (any more), or what it says is lost:
\* a result that is falsy is not taken as an answer.
NoAnswer(id) ==
    /\ id \in unanswered
    /\ unanswered' = unanswered \ {id}
    /\ UNCHANGED <<open, subscribed, has_job, tasks, next_message_id,
                   messages_in_transit, rtt_time_message_sent>>

\* connection_lost.  An answer that is an error also closes the connection:
\* handle_error is not implemented and its exception is fatal.
ConnectionLost ==
    /\ open
    /\ open' = FALSE
    /\ tasks' = {}
    /\ UNCHANGED <<subscribed, has_job, next_message_id, messages_in_transit,
                   unanswered, rtt_time_message_sent>>

\* Five seconds pass.
Tick ==
    /\ open
    /\ messages_in_transit' = [id \in InTransit |-> Older(messages_in_transit[id])]
    /\ rtt_time_message_sent' = IF rtt_time_message_sent = None THEN None
                                ELSE Older(rtt_time_message_sent)
    /\ UNCHANGED <<open, subscribed, has_job, tasks, next_message_id, unanswered>>

Next ==
    \/ Subscribe \/ Authorize \/ JobArrives
    \/ RttEstimator \/ MessagesTimeoutJob
    \/ \E id \in Ids : HandleResult(id) \/ NoAnswer(id)
    \/ ConnectionLost
    \/ Tick

Spec == Init /\ [][Next]_vars

\* Time passes and the periodic tasks tick; the miner is under no obligation.
FairSpec == /\ Spec
            /\ WF_vars(Tick)
            /\ WF_vars(RttEstimator)
            /\ WF_vars(MessagesTimeoutJob)
-----------------------------------------------------------------------------
(* Properties.                                                             *)

Ages == 0..MaxAge

\* The state space.
TypeOK ==
    /\ open \in BOOLEAN /\ subscribed \in BOOLEAN /\ has_job \in BOOLEAN
    /\ tasks \subseteq {"rtt_estimator", "messages_timeout"}
    /\ next_message_id \in 1..(MaxMessages + 1)
    /\ InTransit \subseteq 1..(next_message_id - 1)
    /\ Range(messages_in_transit) \subseteq Ages
    /\ unanswered \subseteq 1..(next_message_id - 1)
    /\ rtt_time_message_sent \in Ages \cup {None}

\* The estimator never waits for an answer that could not be used: until the
\* request of that age times out, it is still tracked, although any answer
\* (that of the first get_version too) ends the wait, and the timeouts are
\* swept by a task of its own.
WaitsForTracked ==
    rtt_time_message_sent # None /\ rtt_time_message_sent <= MessageTimeout
      => \E id \in InTransit : messages_in_transit[id] = rtt_time_message_sent

\* A lost answer does not stop the estimator: a wait that has lasted ends, or
\* a new request starts another one.
WaitsEnd ==
    rtt_time_message_sent \in 1..MaxAge
      ~> rtt_time_message_sent \in {None, 0} \/ ~open \/ next_message_id > MaxMessages

\* On a connection that subscribed, no request is tracked for ever.
EveryRequestIsForgotten ==
    \A id \in Ids : subscribed /\ id \in InTransit ~> id \notin InTransit \/ ~open
=============================================================================
