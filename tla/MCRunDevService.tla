--------------------------- MODULE MCRunDevService ---------------------------
(* Instances of RunDevService for TLC.                                     *)
EXTENDS RunDevService, TLC

CONSTANTS j1, j2, x

\* The tasks, callbacks and clean-ups of an old job meet the new one.
SameTx == (j1 :> x) @@ (j2 :> x)
-----------------------------------------------------------------------------
(* Sentences of the repository that the code does not live up to (README). *)

\* "Shutdown the dev-miner service." (cli.py, RunDevService._shutdown): a
\* signal ends the service.
EverySignalEndsService ==
    (\E s \in Signals : shutdown[s] # "none") ~> ~loop_running

\* CANCELLED is a state "after mining has finished" (jobs.py): a job that is
\* cancelled is not mined any more.
CancelledStaysCancelled ==
    [][\A j \in Jobs : status[j] = "CANCELLED" => status'[j] = "CANCELLED"]_devVars
=============================================================================
