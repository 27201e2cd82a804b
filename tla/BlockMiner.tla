----------------------------- MODULE BlockMiner -----------------------------
(***************************************************************************)
(* txstratum/dev/block_miner.py: the loop that makes blocks in the dev     *)
(* mode, and its stop.  The loop is at one of its awaits, or over.         *)
(***************************************************************************)
EXTENDS Naturals

CONSTANT MaxBlocks   \* bound: blocks found

ASSUME MinerAssumption == MaxBlocks \in Nat

VARIABLES
    running,          \* _running
    loop,             \* where the task of _run is
    loop_cancelled,   \* _task.cancel() was called
    blocks_found

blockVars == <<running, loop, loop_cancelled, blocks_found>>

Mining == {"template", "solving", "pushing"}
Probing == {"probing", "waiting"}
Alive == Mining \cup Probing \cup {"resting", "new"}

\* After start.
MinerInit ==
    /\ running = TRUE
    /\ loop = "new"
    /\ loop_cancelled = FALSE
    /\ blocks_found = 0

Goes(from, to) ==
    /\ loop = from /\ ~loop_cancelled
    /\ loop' = to
    /\ UNCHANGED <<running, loop_cancelled>>

\* _wait_for_fullnode: it tries again after the errors it knows; any other
\* exception ends the task.
Probe ==
    /\ \/ Goes("new", "probing") \/ Goes("waiting", "probing")
       \/ \E next \in {"template", "waiting", "died"} : Goes("probing", next)
    /\ UNCHANGED blocks_found

\* _mine_one_block within _run: a template or an exception, which is caught;
\* a nonce or none; a push that is taken, or refused, or fails.  The loop then
\* rests (for what is left of the interval, if anything, or for a second after
\* an exception) and asks for the next template: it is running as long as it
\* is not cancelled.  Blocks above the bound are not counted.
MineOneBlock ==
    \/ \E next \in {"solving", "resting"} :
         Goes("template", next) /\ UNCHANGED blocks_found
    \/ \E next \in {"pushing", "resting", "template"} :
         Goes("solving", next) /\ UNCHANGED blocks_found
    \/ \E next \in {"resting", "template"} :
         /\ Goes("pushing", next)
         /\ blocks_found' \in {blocks_found, blocks_found + 1} \cap 0..MaxBlocks

Rest == Goes("resting", "template") /\ UNCHANGED blocks_found

\* CancelledError at any of the awaits ends the loop.
LoopCancelled ==
    /\ loop \in Alive /\ loop_cancelled
    /\ loop' = "ended"
    /\ UNCHANGED <<running, loop_cancelled, blocks_found>>

\* stop, up to its await.
StopMiner ==
    /\ running' = FALSE
    /\ loop_cancelled' = TRUE
    /\ UNCHANGED <<loop, blocks_found>>

LoopStep == Probe \/ MineOneBlock \/ Rest \/ LoopCancelled
-----------------------------------------------------------------------------
\* The state space.
MinerTypeOK ==
    /\ running \in BOOLEAN /\ loop_cancelled \in BOOLEAN
    /\ loop \in Alive \cup {"ended", "died"}
    /\ blocks_found \in 0..MaxBlocks
=============================================================================
