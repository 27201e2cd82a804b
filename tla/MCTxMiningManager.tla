------------------------- MODULE MCTxMiningManager -------------------------
(* Instances of TxMiningManager for TLC.                                   *)
EXTENDS TxMiningManager, TLC

CONSTANTS j1, j2, t1, t2, m1, m2

\* Two jobs of one transaction: the registry, the timers and the coroutines
\* of an old job meet the new one.
SameTx == (j1 :> t1) @@ (j2 :> t1)

\* Two jobs of two transactions.
TwoTxs == (j1 :> t1) @@ (j2 :> t2)

MinerSymmetry == Permutations(Miners)
-----------------------------------------------------------------------------
(* What comments, tests and documents of the repository say, and the code  *)
(* does not do; TLC finds each of them violated (README, section 4).       *)

\* A job that times out is in the queue: "TxJob timeout but not in queue.
\* This shouldnt happen" (manager.py, _job_timeout_if_possible).
TimeoutFindsJobQueued ==
    [][\A j \in Jobs : timed_out'[j] > timed_out[j] => Queued(j)]_vars

\* A second solution of a job changes nothing: "We can safely skip the
\* solution" (jobs.py, mark_as_solved).
SolvedOnce == \A j \in Jobs : solved[j] <= 1

\* A job counted as failed was not solved: txs_failed is the "Number of
\* transactions that finished without being solved" (prometheus.py).
FailedMeansUnsolved == \A j \in Jobs : failed[j] > 0 => solved[j] = 0

\* CANCELLED is one of the "possible states after mining has finished"
\* (jobs.py, get_after_mining_states): a cancelled job is not mined any more.
CancelledStaysOut ==
    [][\A j \in Jobs : status[j] = "CANCELLED" => j \notin Range(tx_queue')]_vars

\* The clean-up of one job leaves the other job of its transaction alone
\* (tests/test_manager.py, test_tx_race_condition): a job that has not ended
\* keeps its registration until it is cancelled.
LiveRegistrationIsKept ==
    [][\A j \in Jobs : Registered(j) /\ ~Finished(j)
                          => Registered(j)' \/ status'[j] = "CANCELLED"]_vars

\* "When there is no transaction to be mined, miners receive mining blocks to
\* be mined" (README): a miner that stays while there is a template has work.
EveryMinerGetsWork ==
    \A m \in Miners : <>[](m \in miners /\ block_template) => <>(current_job[m] # None)
=============================================================================
