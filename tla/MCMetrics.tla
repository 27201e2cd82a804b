----------------------------- MODULE MCMetrics -----------------------------
(* Instances of Metrics for TLC.                                           *)
EXTENDS Metrics
-----------------------------------------------------------------------------
\* "Remove label series entirely so stale miner_id labels don't accumulate
\* after reconnects" (prometheus.py): nothing is left of a miner that is gone.
NoStaleSeries ==
    \A m \in Miners : link[m] = "lost" /\ ~Waiting(m) =>
      /\ \A s \in up \cup rtt : s[2] # m
      /\ \A s \in completed : s[3] # m
=============================================================================
