----------------------------- MODULE JobHistory -----------------------------
(***************************************************************************)
(* TxMiningManager with a history variable, for what depends on how a job  *)
(* was left and not only on the state it was left in.  The variable only   *)
(* records: HistorySpec has the behaviours of Spec.                        *)
(***************************************************************************)
EXTENDS TxMiningManager

\* The transactions of which the manager let a job go while it was under way.
VARIABLE let_go

historyVars == <<vars, let_go>>

\* cancel_job, or the clean-up of the job itself, finds it neither ended nor
\* queued: it is getting its parents or being pushed, and its coroutine goes on.
LetGo(j) ==
    /\ ~Finished(j) /\ ~Queued(j)
    /\ status'[j] = "CANCELLED" \/ (j \in cleanup_timer /\ j \notin cleanup_timer')

HistoryInit == Init /\ let_go = {}

HistoryNext ==
    /\ Next
    /\ let_go' = let_go \cup {Uuid[j] : j \in {k \in Jobs : LetGo(k)}}

HistorySpec == HistoryInit /\ [][HistoryNext]_historyVars

\* The timers of an old job leave the newer job of its transaction alone
\* (tests/test_manager.py, test_tx_race_condition): a job that has not ended
\* keeps its registration until it is cancelled, whatever became of the jobs
\* before it, unless one of its transaction was let go.  Only then may a
\* clean-up, which pops by hash, be one of a job that is no longer registered.
LiveJobKeepsHash ==
    [][\A j \in Jobs : Registered(j) /\ ~Finished(j) =>
          Registered(j)' \/ status'[j] = "CANCELLED" \/ Uuid[j] \in let_go']_historyVars

\* CANCELLED is an end state (jobs.py, get_after_mining_states) of a job that
\* was queued: no solution, parents or timer that was on the way revives it.
CancelledIsFinal ==
    [][\A j \in Jobs : status[j] = "CANCELLED" /\ Uuid[j] \notin let_go =>
          status'[j] = "CANCELLED" /\ ~Queued(j)']_historyVars
=============================================================================
