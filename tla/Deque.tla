------------------------------- MODULE Deque -------------------------------
(***************************************************************************)
(* What the manager uses of collections.deque: remove(x), which takes out  *)
(* the first occurrence of x.  (`append' is Append, `q[0]' is Head.)       *)
(* Written with a function constructor, not a recursion, so that facts     *)
(* about it can be proved.                                                 *)
(***************************************************************************)
EXTENDS Naturals, Sequences, Functions

\* The position of the first occurrence of x in q.
FirstIndex(q, x) ==
    CHOOSE i \in 1..Len(q) : q[i] = x /\ \A k \in 1..(i - 1) : q[k] # x

\* Mutant of Without: popleft instead of remove.
WithoutHead(q, x) == IF x \in Range(q) THEN Tail(q) ELSE q

\* deque.remove(x); Python raises ValueError, and leaves q alone, when x is
\* not in q.
Without(q, x) ==
    IF x \in Range(q)
    THEN [k \in 1..(Len(q) - 1) |->
            IF k < FirstIndex(q, x) THEN q[k] ELSE q[k + 1]]
    ELSE q
=============================================================================
