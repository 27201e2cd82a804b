------------------------- MODULE MCRequestTracking -------------------------
(* Instances of RequestTracking for TLC.                                   *)
EXTENDS RequestTracking
-----------------------------------------------------------------------------
\* RTT_ESTIMATOR_MESSAGE_TIMEOUT is "the maximum time to wait for an rtt
\* message to be received" (protocol.py): while the estimator waits for an
\* answer that can still come, the request it waits for is tracked, so that
\* the answer would be taken.
AnswerWithinRttTimeoutIsTaken ==
    rtt_time_message_sent # None /\ rtt_time_message_sent < RttTimeout
      => \E id \in InTransit : messages_in_transit[id] = rtt_time_message_sent
=============================================================================
