----------------------------- MODULE FifoFleet -----------------------------
(***************************************************************************)
(* What the transaction side of the mining manager promises, without its   *)
(* timers, registry, coroutines and statuses: jobs wait in one queue, a    *)
(* job enters at its tail and may leave from anywhere, and at every moment *)
(* the whole fleet of miners works on the job at the head.  A miner is     *)
(* Idle, as far as transactions go, when the queue is empty.               *)
(***************************************************************************)
EXTENDS Deque

CONSTANTS Jobs,    \* the transaction jobs
          Miners,  \* the miners that may join the fleet
          Idle     \* no transaction to work on

VARIABLES queue,   \* the jobs waiting to be mined, the oldest first
          fleet,   \* the miners that are ready
          working  \* what each miner is working on

vars == <<queue, fleet, working>>

HeadOf(q) == IF q = <<>> THEN Idle ELSE Head(q)

\* Every miner of f is put to work on the head of q.
Gather(q, f) == [m \in Miners |-> IF m \in f THEN HeadOf(q) ELSE Idle]

Init == /\ queue = <<>>
        /\ fleet = {}
        /\ working = Gather(<<>>, {})

Arrive(j) == /\ j \notin Range(queue)
             /\ queue' = Append(queue, j)
             /\ working' = Gather(queue', fleet)
             /\ UNCHANGED fleet

Leave(j) == /\ j \in Range(queue)
            /\ queue' = Without(queue, j)
            /\ working' = Gather(queue', fleet)
            /\ UNCHANGED fleet

Join(m) == /\ m \notin fleet
           /\ fleet' = fleet \cup {m}
           /\ working' = Gather(queue, fleet')
           /\ UNCHANGED queue

Part(m) == /\ m \in fleet
           /\ fleet' = fleet \ {m}
           /\ working' = Gather(queue, fleet')
           /\ UNCHANGED queue

Next == \/ \E j \in Jobs : Arrive(j) \/ Leave(j)
        \/ \E m \in Miners : Join(m) \/ Part(m)

Spec == Init /\ [][Next]_vars
=============================================================================
