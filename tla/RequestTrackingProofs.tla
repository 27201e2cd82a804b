------------------------ MODULE RequestTrackingProofs ------------------------
(***************************************************************************)
(* Proofs about RequestTracking, for any timeouts, any number of requests  *)
(* and any answers: the state keeps its types, and the RTT estimator waits *)
(* only for a request that is still tracked.                               *)
(***************************************************************************)
EXTENDS RequestTracking, TLAPS

\* The types of what the estimator relies on.  Identifiers are not reused, so
\* a new request takes no tracked one away.
Types ==
    /\ open \in BOOLEAN /\ subscribed \in BOOLEAN /\ has_job \in BOOLEAN
    /\ tasks \subseteq {"rtt_estimator", "messages_timeout"}
    /\ next_message_id \in 1..(MaxMessages + 1)
    /\ InTransit \subseteq 1..(next_message_id - 1)
    /\ \A id \in InTransit : messages_in_transit[id] \in Ages
    /\ unanswered \subseteq 1..(next_message_id - 1)
    /\ rtt_time_message_sent \in Ages \cup {None}

TrackInv == Types /\ WaitsForTracked

\* The invariant holds at the start.
LEMMA TrackInit == Init => TrackInv
  <1> SUFFICES ASSUME Init PROVE TrackInv
    OBVIOUS
  <1>1. InTransit = {}
    BY DEF Init, InTransit
  <1>2. MaxMessages \in Nat /\ 1 \in 1..(MaxMessages + 1)
    BY TrackingAssumption
  <1>3. Types
    BY <1>1, <1>2 DEF Init, Types
  <1> QED BY <1>3 DEF Init, TrackInv, WaitsForTracked

\* What is tracked once the next request is sent: it, and all that was.
LEMMA SendTracks ==
    ASSUME Types, SendAndTrack
    PROVE  /\ next_message_id \notin InTransit
           /\ InTransit' = InTransit \cup {next_message_id}
           /\ messages_in_transit'[next_message_id] = 0
           /\ \A id \in InTransit : messages_in_transit'[id] = messages_in_transit[id]
           /\ next_message_id' \in 1..(MaxMessages + 1)
           /\ InTransit' \subseteq 1..(next_message_id' - 1)
           /\ \A id \in InTransit' : messages_in_transit'[id] \in Ages
           /\ unanswered' \subseteq 1..(next_message_id' - 1)
  <1>1. /\ next_message_id \in Nat /\ next_message_id \in 1..MaxMessages
        /\ next_message_id' = next_message_id + 1 /\ MaxMessages \in Nat /\ MaxAge \in Nat
    BY TrackingAssumption DEF SendAndTrack, Ids
  <1>2. next_message_id \notin InTransit
    BY <1>1 DEF Types
  <1>3. InTransit' = InTransit \cup {next_message_id}
    BY DEF SendAndTrack, InTransit
  <1>4. /\ messages_in_transit'[next_message_id] = 0
        /\ \A id \in InTransit : messages_in_transit'[id] = messages_in_transit[id]
    BY <1>2, <1>3 DEF SendAndTrack
  <1>5. \A id \in InTransit' : messages_in_transit'[id] \in Ages
    BY <1>1, <1>3, <1>4 DEF Types, Ages
  <1>6. next_message_id' \in 1..(MaxMessages + 1) /\ InTransit' \subseteq 1..(next_message_id' - 1)
    BY <1>1, <1>3 DEF Types
  <1>7. unanswered' \subseteq 1..(next_message_id' - 1)
    BY <1>1 DEF Types, SendAndTrack
  <1> QED BY <1>2, <1>3, <1>4, <1>5, <1>6, <1>7

\* Each step keeps the invariant.
LEMMA TrackStep ==
    ASSUME TrackInv, [Next]_vars
    PROVE  TrackInv'
  <1>1. Types /\ WaitsForTracked
    BY DEF TrackInv
  <1>2. MessageTimeout \in Nat /\ MaxAge \in Nat /\ MessageTimeout < MaxAge /\ None \notin Nat
    BY TrackingAssumption
  <1>3. ASSUME NEW now \in BOOLEAN, NEW job \in BOOLEAN, StartIfReady(now, job)
        PROVE  TrackInv'
    <2>1. SendAndTrack /\ UNCHANGED <<open, rtt_time_message_sent>>
      BY <1>3 DEF StartIfReady
    <2>2. Types'
      BY <1>1, <1>3, <2>1, SendTracks DEF StartIfReady, StartPeriodicTasks, Types
    <2>3. WaitsForTracked'
      BY <1>1, <2>1, SendTracks DEF WaitsForTracked
    <2> QED BY <2>2, <2>3 DEF TrackInv
  <1>4. CASE RttEstimator
    <2>1. /\ SendAndTrack /\ rtt_time_message_sent' = 0
          /\ UNCHANGED <<open, subscribed, has_job, tasks>>
      BY <1>4 DEF RttEstimator
    <2>2. Types'
      BY <1>1, <1>2, <2>1, SendTracks DEF Types, Ages
    <2>3. next_message_id \in InTransit' /\ messages_in_transit'[next_message_id] = 0
      BY <1>1, <2>1, SendTracks
    <2> QED BY <2>1, <2>2, <2>3 DEF TrackInv, WaitsForTracked
  <1>5. CASE MessagesTimeoutJob
    <2>1. /\ InTransit' = {i \in InTransit : messages_in_transit[i] <= MessageTimeout}
          /\ messages_in_transit' = [id \in InTransit' |-> messages_in_transit[id]]
          /\ UNCHANGED <<open, subscribed, has_job, tasks, next_message_id, unanswered,
                         rtt_time_message_sent>>
      BY <1>5 DEF MessagesTimeoutJob, InTransit
    <2>2. Types'
      BY <1>1, <2>1 DEF Types
    <2>3. WaitsForTracked'
      BY <1>1, <2>1 DEF WaitsForTracked
    <2> QED BY <2>2, <2>3 DEF TrackInv
  <1>6. ASSUME NEW id \in Ids, HandleResult(id)
        PROVE  TrackInv'
    <2>1. /\ InTransit' = InTransit \ {id} /\ rtt_time_message_sent' = None
          /\ messages_in_transit' = [i \in InTransit' |-> messages_in_transit[i]]
          /\ UNCHANGED <<open, subscribed, has_job, tasks, next_message_id, unanswered>>
      BY <1>6 DEF HandleResult, InTransit
    <2> QED BY <1>1, <2>1 DEF TrackInv, Types, WaitsForTracked
  <1>7. CASE Tick
    <2>1. /\ InTransit' = InTransit
          /\ messages_in_transit' = [id \in InTransit |-> Older(messages_in_transit[id])]
          /\ rtt_time_message_sent' = IF rtt_time_message_sent = None THEN None
                                      ELSE Older(rtt_time_message_sent)
          /\ UNCHANGED <<open, subscribed, has_job, tasks, next_message_id, unanswered>>
      BY <1>7 DEF Tick, InTransit
    <2>2. \A age \in Ages : Older(age) \in Ages
      BY <1>2 DEF Ages, Older
    <2>3. Types'
      BY <1>1, <2>1, <2>2 DEF Types
    <2>4. WaitsForTracked'
      <3> SUFFICES ASSUME rtt_time_message_sent' # None, rtt_time_message_sent' <= MessageTimeout
                   PROVE  \E id \in InTransit' : messages_in_transit'[id] = rtt_time_message_sent'
        BY DEF WaitsForTracked
      <3>1. rtt_time_message_sent \in Ages /\ rtt_time_message_sent # None
            /\ Older(rtt_time_message_sent) <= MessageTimeout
        BY <1>1, <2>1 DEF Types
      <3>2. rtt_time_message_sent <= MessageTimeout
        BY <1>2, <3>1 DEF Older, Ages
      <3>3. PICK id \in InTransit : messages_in_transit[id] = rtt_time_message_sent
        BY <1>1, <3>1, <3>2 DEF WaitsForTracked
      <3> QED BY <2>1, <3>1, <3>3
    <2> QED BY <2>3, <2>4 DEF TrackInv
  <1>8. CASE \/ JobArrives \/ ConnectionLost \/ UNCHANGED vars
             \/ \E id \in Ids : NoAnswer(id)
    <2>1. /\ InTransit' = InTransit
          /\ UNCHANGED <<messages_in_transit, rtt_time_message_sent, next_message_id>>
          /\ open' \in BOOLEAN /\ subscribed' \in BOOLEAN /\ has_job' \in BOOLEAN
          /\ tasks' \subseteq {"rtt_estimator", "messages_timeout"}
          /\ unanswered' \subseteq unanswered
      BY <1>1, <1>8 DEF JobArrives, ConnectionLost, NoAnswer, vars, InTransit, Types
    <2> QED BY <1>1, <2>1 DEF TrackInv, Types, WaitsForTracked
  <1>9. Subscribe \/ Authorize => \E now, job \in BOOLEAN : StartIfReady(now, job)
    BY <1>1 DEF Subscribe, Authorize, Types
  <1> QED BY <1>3, <1>4, <1>5, <1>6, <1>7, <1>8, <1>9 DEF Next

\* The invariant holds always.
THEOREM TrackInvHolds == Spec => []TrackInv
  BY TrackInit, TrackStep, PTL DEF Spec

\* The state keeps its types.
THEOREM TrackingTypesHold == Spec => []TypeOK
  <1>1. TrackInv => TypeOK
    BY DEF TrackInv, Types, TypeOK, Range, InTransit
  <1> QED BY <1>1, TrackInvHolds, PTL

\* The estimator waits only for a request whose answer would be taken.
THEOREM EstimatorWaitsForTracked == Spec => []WaitsForTracked
  <1>1. TrackInv => WaitsForTracked
    BY DEF TrackInv
  <1> QED BY <1>1, TrackInvHolds, PTL
=============================================================================
