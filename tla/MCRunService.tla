---------------------------- MODULE MCRunService ----------------------------
(* Instances of RunService for TLC.                                        *)
EXTENDS RunService, TLC

CONSTANTS j1, j2, t1, t2, m1

\* Two transactions; which jobs need parents is up to the configuration.
TwoTxs == (j1 :> t1) @@ (j2 :> t2)
-----------------------------------------------------------------------------
\* The graceful shutdown is "Waiting for pending txs to finish" (cli.py): a
\* job that was accepted has ended when the loop stops.
NoJobIsCutOff ==
    ~LoopRuns => \A j \in Jobs : status[j] = "UNUSED" \/ Finished(j)
=============================================================================
