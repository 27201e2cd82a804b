----------------------------- MODULE JobRegistry -----------------------------
(***************************************************************************)
(* What the clients of the API see of the jobs, whichever manager serves   *)
(* them: the status of the job registered for each transaction hash, or    *)
(* that there is none.  A client follows a hash it submitted by polling    *)
(* it; it learns nothing else of the manager.                              *)
(*                                                                         *)
(* TxMiningManager and DevMiningManager implement this specification;      *)
(* HealthCheck and HttpApi are built on it, so what they show holds with   *)
(* either of them.                                                         *)
(***************************************************************************)
EXTENDS Naturals

CONSTANTS Txs,   \* transaction hashes
          None   \* no job is registered

VARIABLE visible \* the status that GET /job-status gives for each hash

\* A cancelled job is forgotten at once: CANCELLED is never visible.
Live    == {"PENDING", "GETTING_PARENTS", "ENQUEUED", "MINING"}
Unhappy == {"FAILED", "TIMEOUT"}
Visible == Live \cup Unhappy \cup {"DONE"}

\* The statuses a submission may be answered with: with parents to get, in the
\* queue, or already given to the miners.
Fresh == {"PENDING", "ENQUEUED", "MINING"}

\* How far each status is; a solution that arrives late overtakes a failure.
Rank == [s \in Visible |->
    CASE s = "PENDING" -> 0 [] s = "GETTING_PARENTS" -> 1 [] s = "ENQUEUED" -> 2
      [] s = "MINING" -> 3 [] s \in Unhappy -> 4 [] OTHER -> 5]

Submitted(old, new) == old \in {None, "TIMEOUT"} /\ new \in Fresh
Advanced(old, new)  == old \in Visible /\ new \in Visible /\ Rank[old] < Rank[new]
Forgotten(old, new) == new = None

\* What may become of one hash in one step.
Moves(old, new) ==
    new = old \/ Submitted(old, new) \/ Advanced(old, new) \/ Forgotten(old, new)

Init == visible = [t \in Txs |-> None]

\* A step may move several hashes: a cancelled job leaves its place in the
\* queue to another one.
Next ==
    /\ visible' \in [Txs -> Visible \cup {None}]
    /\ \A t \in Txs : Moves(visible[t], visible'[t])

Spec == Init /\ [][Next]_visible
=============================================================================
