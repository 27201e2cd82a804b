------------------------- MODULE MCStratumProtocol -------------------------
(* Instances of StratumProtocol for TLC.                                   *)
EXTENDS StratumProtocol, TLC

CONSTANTS x1, x2, MaxWeight

\* A light transaction, a heavy one and a block.
Weights == (x1 :> 3) @@ (x2 :> 9) @@ (Block :> 7)
-----------------------------------------------------------------------------
\* "maximum "difficulty" to assign to jobs" (protocol.py, MAX_WEIGHT).
NoJobAboveMaxWeight == \A id \in 1..Len(made) : made[id].share_weight <= MaxWeight
=============================================================================
