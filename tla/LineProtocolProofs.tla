------------------------- MODULE LineProtocolProofs -------------------------
(***************************************************************************)
(* Proofs about LineProtocol for any bytes, any limit and any stream.      *)
(*                                                                         *)
(* Split and Joined are functions defined by recursion over their data.    *)
(* The first part shows that such functions exist and are unique, by       *)
(* induction over sets of numbers; the second and third what Joined and    *)
(* Split return, ending in: what is split, joined again, is what it was.   *)
(* One chunk then adds to what was joined a piece of the same text         *)
(* (Delivery), and that keeps the invariant.  The last part shows that     *)
(* splitting in portions is splitting the whole (SplitConcat), so that     *)
(* where the chunks are cut decides nothing.                               *)
(***************************************************************************)
EXTENDS LineProtocol, SequenceTheorems, WellFoundedInduction, TLAPS
-----------------------------------------------------------------------------
(* Recursion over data.                                                    *)

\* Induction on the natural numbers, of sets rather than of predicates.
LEMMA Induction ==
    ASSUME NEW S, 0 \in S, \A n \in Nat : n \in S => n + 1 \in S
    PROVE  Nat \subseteq S
  <1> DEFINE rest == Nat \ S
             less == OpToRel(<, Nat)
  <1> SUFFICES ASSUME rest # {} PROVE FALSE
    OBVIOUS
  <1>1. PICK i \in rest : \A k \in rest : <<k, i>> \notin less
    BY WFMin, NatLessThanWellFounded, Zenon
  <1>2. i \in Nat /\ i # 0 /\ i - 1 \in Nat /\ (i - 1) + 1 = i
    OBVIOUS
  <1>3. i - 1 \in rest
    BY <1>2
  <1>4. <<i - 1, i>> \in less
    BY <1>2 DEF OpToRel
  <1> QED BY <1>1, <1>3, <1>4

\* A function that is given at 0, and at each i by its value at i - 1.
IsRecursion(f, V, n, base, step) ==
    /\ f \in [0..n -> V]
    /\ f[0] = base
    /\ \A i \in 1..n : f[i] = step[<<f[i - 1], i>>]

\* There is one.
LEMMA RecursionExists ==
    ASSUME NEW V, NEW n \in Nat, NEW base \in V, NEW step \in [V \X (1..n) -> V]
    PROVE  \E f : IsRecursion(f, V, n, base, step)
  <1> DEFINE S == {m \in Nat : m <= n => \E f : IsRecursion(f, V, m, base, step)}
  <1>1. 0 \in S
    <2> DEFINE f == [i \in 0..0 |-> base]
    <2>1. IsRecursion(f, V, 0, base, step)
      BY DEF IsRecursion
    <2> QED BY <2>1
  <1>2. ASSUME NEW m \in Nat, m \in S PROVE m + 1 \in S
    <2> SUFFICES ASSUME m + 1 <= n PROVE \E f : IsRecursion(f, V, m + 1, base, step)
      OBVIOUS
    <2>1. PICK f : IsRecursion(f, V, m, base, step)
      BY <1>2
    <2> DEFINE g == [i \in 0..(m + 1) |-> IF i = m + 1 THEN step[<<f[m], i>>] ELSE f[i]]
    <2> HIDE DEF S
    <2>2. f[m] \in V
      BY <2>1 DEF IsRecursion
    <2>3. step[<<f[m], m + 1>>] \in V
      <3>1. <<f[m], m + 1>> \in V \X (1..n)
        BY <2>2
      <3> QED BY <3>1
    <2>4. g \in [0..(m + 1) -> V]
      BY <2>1, <2>3 DEF IsRecursion
    <2>5. g[0] = base
      BY <2>1 DEF IsRecursion
    <2>6. ASSUME NEW i \in 1..(m + 1) PROVE g[i] = step[<<g[i - 1], i>>]
      BY <2>1 DEF IsRecursion
    <2> HIDE DEF g
    <2> QED BY <2>4, <2>5, <2>6 DEF IsRecursion
  <1>3. n \in S
    <2> HIDE DEF S
    <2> QED BY <1>1, <1>2, Induction
  <1> QED BY <1>3

\* Two recursions that begin alike and go on alike are the same.
LEMMA RecursionsAgree ==
    ASSUME NEW n \in Nat, NEW f, NEW g,
           f[0] = g[0] /\ \A i \in 1..n : f[i - 1] = g[i - 1] => f[i] = g[i]
    PROVE  \A i \in 0..n : f[i] = g[i]
  <1> DEFINE S == {m \in Nat : m <= n => f[m] = g[m]}
  <1>1. 0 \in S
    OBVIOUS
  <1>2. ASSUME NEW m \in Nat, m \in S PROVE m + 1 \in S
    <2> SUFFICES ASSUME m + 1 <= n PROVE f[m + 1] = g[m + 1]
      OBVIOUS
    <2>1. f[m] = g[m] /\ m + 1 \in 1..n /\ (m + 1) - 1 = m
      BY <1>2
    <2> QED BY <2>1
  <1>3. Nat \subseteq S
    <2> HIDE DEF S
    <2> QED BY <1>1, <1>2, Induction
  <1> QED BY <1>3

\* An element that is added to the second of two sequences is added to both.
LEMMA ConcatAppend ==
    ASSUME NEW S, NEW s \in Seq(S), NEW t \in Seq(S), NEW e \in S
    PROVE  s \o Append(t, e) = Append(s \o t, e)
  <1>1. <<e>> \in Seq(S) /\ s \o t \in Seq(S)
    BY ConcatProperties
  <1>2. Append(t, e) = t \o <<e>> /\ Append(s \o t, e) = (s \o t) \o <<e>>
    BY <1>1, AppendIsConcat
  <1>3. (s \o t) \o <<e>> = s \o (t \o <<e>>)
    BY <1>1, ConcatAssociative
  <1> QED BY <1>2, <1>3

-----------------------------------------------------------------------------
(* Joined: lines as they are sent.                                         *)

Texts == Seq(Bytes)

\* Concatenation, as an operator that hides how it is defined.
Cat(s, t) == s \o t

\* Concatenation of texts is a text, and associative.
LEMMA CatProperties ==
    /\ \A s, t \in Texts : Cat(s, t) \in Texts
    /\ \A s, t, u \in Texts : Cat(Cat(s, t), u) = Cat(s, Cat(t, u))
  <1>1. ASSUME NEW s \in Texts, NEW t \in Texts PROVE Cat(s, t) \in Texts
    BY ConcatProperties DEF Texts, Cat
  <1>2. ASSUME NEW s \in Seq(Bytes), NEW t \in Seq(Bytes), NEW u \in Seq(Bytes)
        PROVE  Cat(Cat(s, t), u) = Cat(s, Cat(t, u))
    BY ConcatAssociative DEF Cat
  <1> QED BY <1>1, <1>2 DEF Texts

\* What the recursion of Joined builds, line by line.
LEMMA JoinedRecursion ==
    ASSUME NEW lines \in Seq(Texts)
    PROVE  \E f \in [0..Len(lines) -> Texts] :
             /\ Joined(lines) = f[Len(lines)]
             /\ f[0] = <<>>
             /\ \A i \in 1..Len(lines) : f[i] = f[i - 1] \o Append(lines[i], Delimiter)
  <1> DEFINE n == Len(lines)
             step == [p \in Texts \X (1..n) |-> p[1] \o Append(lines[p[2]], Delimiter)]
             Body(g) == [i \in 0..n |->
                           IF i = 0 THEN <<>> ELSE g[i - 1] \o Append(lines[i], Delimiter)]
             f == CHOOSE g : g = Body(g)
  <1>1. step \in [Texts \X (1..n) -> Texts]
    <2>1. ASSUME NEW p \in Texts \X (1..n) PROVE p[1] \o Append(lines[p[2]], Delimiter) \in Texts
      <3>1. lines[p[2]] \in Texts
        BY ElementOfSeq
      <3>2. Append(lines[p[2]], Delimiter) \in Texts
        BY <3>1, LineAssumption DEF Texts
      <3> QED BY <3>2 DEF Texts
    <2> QED BY <2>1
  <1>2. <<>> \in Texts /\ n \in Nat
    BY DEF Texts
  <1>3. PICK g : IsRecursion(g, Texts, n, <<>>, step)
    <2> HIDE DEF step, n
    <2> QED BY <1>1, <1>2, RecursionExists
  <1>4. \A t \in Texts : \A i \in 1..n : step[<<t, i>>] = t \o Append(lines[i], Delimiter)
    BY Zenon
  <1>5. ASSUME NEW i \in 1..n PROVE g[i] = g[i - 1] \o Append(lines[i], Delimiter)
    <2> HIDE DEF step
    <2>1. g[i - 1] \in Texts
      BY <1>2, <1>3 DEF IsRecursion
    <2>2. g[i] = step[<<g[i - 1], i>>]
      BY <1>3 DEF IsRecursion
    <2> QED BY <1>4, <2>1, <2>2
  <1>6. g = Body(g)
    <2>1. g \in [0..n -> Texts] /\ g[0] = <<>>
      BY <1>3 DEF IsRecursion
    <2> QED BY <1>2, <1>5, <2>1
  <1>7. f = Body(f)
    <2> HIDE DEF Body
    <2> QED BY <1>6
  <1>8. Joined(lines) = f[n]
    BY DEF Joined
  <1>9. f[0] = g[0] /\ \A i \in 1..n : f[i - 1] = g[i - 1] => f[i] = g[i]
    <2>1. f[0] = <<>> /\ \A i \in 1..n : f[i] = f[i - 1] \o Append(lines[i], Delimiter)
      <3> HIDE DEF f
      <3> QED BY <1>2, <1>7
    <2>2. g[0] = <<>>
      BY <1>3 DEF IsRecursion
    <2> HIDE DEF f
    <2> QED BY <1>5, <2>1, <2>2
  <1>10. \A i \in 0..n : f[i] = g[i]
    <2> HIDE DEF f
    <2> QED BY <1>2, <1>9, RecursionsAgree
  <1>11. Joined(lines) = g[n]
    <2> HIDE DEF f
    <2> QED BY <1>2, <1>8, <1>10
  <1>12. g \in [0..n -> Texts] /\ g[0] = <<>>
    BY <1>3 DEF IsRecursion
  <1> QED BY <1>5, <1>11, <1>12

\* One more line comes after the others.
LEMMA JoinedAppend ==
    ASSUME NEW lines \in Seq(Texts), NEW line \in Texts
    PROVE  Joined(Append(lines, line)) = Joined(lines) \o Append(line, Delimiter)
  <1> DEFINE n == Len(lines)
             more == Append(lines, line)
  <1>1. /\ n \in Nat /\ more \in Seq(Texts) /\ Len(more) = n + 1
        /\ more[n + 1] = line /\ \A i \in 1..n : more[i] = lines[i]
    BY AppendProperties
  <1>2. PICK f :
          /\ Joined(lines) = f[n] /\ f[0] = <<>>
          /\ \A i \in 1..n : f[i] = f[i - 1] \o Append(lines[i], Delimiter)
    BY JoinedRecursion
  <1>3. PICK g :
          /\ Joined(more) = g[n + 1] /\ g[0] = <<>>
          /\ \A i \in 1..(n + 1) : g[i] = g[i - 1] \o Append(more[i], Delimiter)
    <2> HIDE DEF more
    <2>1. \E g \in [0..Len(more) -> Texts] :
            /\ Joined(more) = g[Len(more)] /\ g[0] = <<>>
            /\ \A i \in 1..Len(more) : g[i] = g[i - 1] \o Append(more[i], Delimiter)
      BY <1>1, JoinedRecursion
    <2> QED BY <1>1, <2>1
  <1> HIDE DEF more, n
  <1>4. ASSUME NEW i \in 1..n, f[i - 1] = g[i - 1] PROVE f[i] = g[i]
    <2>1. i \in 1..(n + 1)
      BY <1>1
    <2>2. more[i] = lines[i]
      BY <1>1
    <2>3. f[i] = f[i - 1] \o Append(lines[i], Delimiter)
      BY <1>2
    <2>4. g[i] = g[i - 1] \o Append(more[i], Delimiter)
      BY <1>3, <2>1
    <2> QED BY <1>4, <2>2, <2>3, <2>4
  <1>5. f[n] = g[n]
    <2>1. f[0] = g[0]
      BY <1>2, <1>3
    <2>2. \A i \in 0..n : f[i] = g[i]
      <3>1. n \in Nat
        BY <1>1
      <3>2. \A i \in 1..n : f[i - 1] = g[i - 1] => f[i] = g[i]
        BY <1>4
      <3>3. f[0] = g[0] /\ \A i \in 1..n : f[i - 1] = g[i - 1] => f[i] = g[i]
        BY <3>2, <2>1
      <3> QED BY <3>1, <3>3, RecursionsAgree
    <2>3. n \in 0..n
      BY <1>1
    <2> QED BY <2>2, <2>3
  <1>6. g[n + 1] = g[n] \o Append(line, Delimiter)
    <2>1. n + 1 \in 1..(n + 1) /\ (n + 1) - 1 = n
      BY <1>1
    <2> QED BY <1>1, <1>3, <2>1
  <1>7. Joined(more) = Joined(lines) \o Append(line, Delimiter)
    BY <1>2, <1>3, <1>5, <1>6
  <1> QED BY <1>7 DEF more

\* No lines join to nothing, and any lines to a text.
LEMMA JoinedText ==
    /\ Joined(<<>>) = <<>>
    /\ \A lines \in Seq(Texts) : Joined(lines) \in Texts
  <1>1. ASSUME NEW lines \in Seq(Texts)
        PROVE  Joined(lines) \in Texts /\ (lines = <<>> => Joined(lines) = <<>>)
    <2>1. PICK f \in [0..Len(lines) -> Texts] : Joined(lines) = f[Len(lines)] /\ f[0] = <<>>
      BY JoinedRecursion
    <2>2. Len(lines) \in Nat
      OBVIOUS
    <2>3. Len(lines) \in 0..Len(lines)
      BY <2>2
    <2>4. lines = <<>> => Len(lines) = 0
      OBVIOUS
    <2> QED BY <2>1, <2>3, <2>4
  <1>2. <<>> \in Seq(Texts)
    OBVIOUS
  <1> QED BY <1>1, <1>2

\* Lines that are joined in two portions.
LEMMA JoinedConcat ==
    ASSUME NEW a \in Seq(Texts), NEW b \in Seq(Texts)
    PROVE  Joined(a \o b) = Joined(a) \o Joined(b)
  <1> DEFINE first(m) == SubSeq(b, 1, m)
             S == {m \in Nat : m <= Len(b) => Joined(a \o first(m)) = Joined(a) \o Joined(first(m))}
  <1>1. 0 \in S
    <2>1. first(0) = <<>>
      BY SubSeqEmpty
    <2>2. a \o <<>> = a /\ Joined(a) \o <<>> = Joined(a)
      BY JoinedText, ConcatEmptySeq DEF Texts
    <2> QED BY <2>1, <2>2, JoinedText
  <1>2. ASSUME NEW m \in Nat, m \in S PROVE m + 1 \in S
    <2> SUFFICES ASSUME m + 1 <= Len(b)
                 PROVE  Joined(a \o first(m + 1)) = Joined(a) \o Joined(first(m + 1))
      OBVIOUS
    <2>1. Joined(a \o first(m)) = Joined(a) \o Joined(first(m))
      BY <1>2
    <2>2. b[m + 1] \in Texts /\ first(m) \in Seq(Texts)
      BY ElementOfSeq, SubSeqProperties
    <2>3. first(m + 1) = Append(first(m), b[m + 1])
      <3>1. first(m + 1) = first(m) \o <<b[m + 1]>>
        <4>1. 1 \in 1..Len(b) /\ m + 1 \in 1..Len(b) /\ (m + 1) - 1 = m
          OBVIOUS
        <4> QED BY <4>1, SubSeqRecursiveSecond
      <3> QED BY <3>1, <2>2, AppendIsConcat
    <2>4. a \o first(m + 1) = Append(a \o first(m), b[m + 1])
      <3> DEFINE c == first(m)  x == b[m + 1]
      <3>1. c \in Seq(Texts) /\ x \in Texts
        BY <2>2
      <3> HIDE DEF c, x
      <3>2. a \o Append(c, x) = Append(a \o c, x)
        BY <3>1, ConcatAppend
      <3> QED BY <2>3, <3>2 DEF c, x
    <2>5. Joined(a \o first(m + 1)) = Joined(a \o first(m)) \o Append(b[m + 1], Delimiter)
      BY <2>2, <2>4, JoinedAppend, ConcatProperties
    <2>6. Joined(first(m + 1)) = Joined(first(m)) \o Append(b[m + 1], Delimiter)
      BY <2>2, <2>3, JoinedAppend
    <2>7. /\ Joined(a) \in Seq(Bytes) /\ Joined(first(m)) \in Seq(Bytes)
          /\ Append(b[m + 1], Delimiter) \in Seq(Bytes)
      <3>1. Joined(a) \in Texts /\ Joined(first(m)) \in Texts
        BY <2>2, JoinedText
      <3>2. b[m + 1] \in Seq(Bytes) /\ Delimiter \in Bytes
        BY <2>2, LineAssumption DEF Texts
      <3>3. Append(b[m + 1], Delimiter) \in Seq(Bytes)
        BY <3>2
      <3> QED BY <3>1, <3>3 DEF Texts
    <2>8. (Joined(a) \o Joined(first(m))) \o Append(b[m + 1], Delimiter)
            = Joined(a) \o (Joined(first(m)) \o Append(b[m + 1], Delimiter))
      <3> DEFINE x == Joined(a)  y == Joined(first(m))  z == Append(b[m + 1], Delimiter)
      <3> HIDE DEF x, y, z
      <3>1. x \in Seq(Bytes) /\ y \in Seq(Bytes) /\ z \in Seq(Bytes)
        BY <2>7 DEF x, y, z
      <3>2. (x \o y) \o z = x \o (y \o z)
        BY <3>1, ConcatAssociative
      <3> QED BY <3>2 DEF x, y, z
    <2> QED BY <2>1, <2>5, <2>6, <2>8
  <1>3. Len(b) \in S
    <2> HIDE DEF S
    <2> QED BY <1>1, <1>2, Induction
  <1>4. first(Len(b)) = b
    BY SubSeqFull
  <1>5. Joined(a \o first(Len(b))) = Joined(a) \o Joined(first(Len(b)))
    <2>1. Len(b) \in Nat /\ Len(b) <= Len(b)
      OBVIOUS
    <2> QED BY <1>3, <2>1
  <1> QED BY <1>4, <1>5
-----------------------------------------------------------------------------
(* Split.                                                                  *)

Parts == {p \in Seq(Texts) : p # <<>>}

\* One more byte.
Extended(p, b) ==
    IF b = Delimiter THEN Append(p, <<>>)
    ELSE [p EXCEPT ![Len(p)] = Append(@, b)]

\* The text that parts are the parts of.
Whole(p) == Joined(Front(p)) \o Last(p)

Undelimited(p) == \A i \in 1..Len(p) : ~Contains(p[i], Delimiter)

\* Parts are those before the last, and the last.
LEMMA PartsFrontLast ==
    ASSUME NEW p \in Parts
    PROVE  /\ Len(p) \in Nat \ {0} /\ Len(p) \in 1..Len(p)
           /\ Front(p) \in Seq(Texts) /\ Len(Front(p)) = Len(p) - 1
           /\ \A i \in 1..(Len(p) - 1) : Front(p)[i] = p[i]
           /\ Last(p) = p[Len(p)] /\ Last(p) \in Texts
           /\ p = Append(Front(p), Last(p))
           /\ Joined(Front(p)) \in Texts /\ Whole(p) \in Texts
  <1>1. p \in Seq(Texts) /\ Len(p) \in Nat \ {0} /\ Len(p) \in 1..Len(p)
    BY EmptySeq DEF Parts
  <1>2. Last(p) = p[Len(p)] /\ Last(p) \in Texts
    BY <1>1, ElementOfSeq DEF Last
  <1>3. /\ Front(p) \in Seq(Texts) /\ Len(Front(p)) = Len(p) - 1
        /\ \A i \in 1..(Len(p) - 1) : Front(p)[i] = p[i]
    <2>1. \A i \in 1..(Len(p) - 1) : p[i] \in Texts
      BY <1>1, ElementOfSeq
    <2>2. Len(p) - 1 \in Int /\ 1 \in Int
      BY <1>1
    <2> DEFINE f == SubSeq(p, 1, Len(p) - 1)
    <2>3. /\ f \in Seq(Texts) /\ Len(f) = (IF 1 <= Len(p) - 1 THEN (Len(p) - 1) - 1 + 1 ELSE 0)
          /\ \A i \in 1..((Len(p) - 1) - 1 + 1) : f[i] = p[1 + i - 1]
      BY <2>1, <2>2, SubSeqProperties
    <2> HIDE DEF f
    <2>4. Len(f) = Len(p) - 1
      <3>1. Len(f) = IF 1 <= Len(p) - 1 THEN (Len(p) - 1) - 1 + 1 ELSE 0
        BY <2>3
      <3>2. \A k \in Nat \ {0} : (IF 1 <= k - 1 THEN (k - 1) - 1 + 1 ELSE 0) = k - 1
        OBVIOUS
      <3> QED BY <1>1, <3>1, <3>2
    <2>5. ASSUME NEW i \in 1..(Len(p) - 1) PROVE f[i] = p[i]
      <3>1. i \in 1..((Len(p) - 1) - 1 + 1) /\ 1 + i - 1 = i
        BY <1>1
      <3> QED BY <2>3, <3>1
    <2> QED BY <2>3, <2>4, <2>5 DEF Front, f
  <1>4. p = Append(Front(p), Last(p))
    <2> DEFINE f == Front(p)  x == Last(p)
    <2> HIDE DEF f, x
    <2>1. f \in Seq(Texts) /\ x \in Texts /\ Len(f) = Len(p) - 1 /\ x = p[Len(p)]
      BY <1>2, <1>3 DEF f, x
    <2>2. \A i \in 1..(Len(p) - 1) : f[i] = p[i]
      BY <1>3 DEF f
    <2>3. Append(f, x) \in Seq(Texts) /\ Len(Append(f, x)) = Len(p)
      BY <1>1, <2>1, AppendProperties
    <2>4. ASSUME NEW i \in 1..Len(p) PROVE Append(f, x)[i] = p[i]
      <3>1. CASE i = Len(p)
        BY <1>1, <2>1, <3>1, AppendProperties
      <3>2. CASE i # Len(p)
        <4>1. i \in 1..(Len(p) - 1) /\ i \in 1..Len(f)
          BY <1>1, <2>1, <3>2
        <4> QED BY <2>1, <2>2, <4>1, AppendProperties
      <3> QED BY <3>1, <3>2
    <2>5. p = Append(f, x)
      BY <1>1, <2>3, <2>4, SeqEqual
    <2> QED BY <2>5 DEF f, x
  <1>5. Joined(Front(p)) \in Texts
    BY <1>3, JoinedText
  <1>6. Whole(p) \in Texts
    BY <1>2, <1>5, ConcatProperties DEF Whole, Texts
  <1> QED BY <1>1, <1>2, <1>3, <1>4, <1>5, <1>6

\* One byte more extends what the parts are of by that byte.
LEMMA ExtendedProperties ==
    ASSUME NEW p \in Parts, NEW b \in Bytes
    PROVE  /\ Extended(p, b) \in Parts
           /\ Whole(Extended(p, b)) = Append(Whole(p), b)
           /\ Undelimited(p) => Undelimited(Extended(p, b))
  <1> DEFINE n == Len(p)  f == Front(p)  x == Last(p)  q == Extended(p, b)
  <1>1. /\ n \in Nat \ {0} /\ n \in 1..n /\ f \in Seq(Texts) /\ Len(f) = n - 1 /\ x = p[n]
        /\ x \in Seq(Bytes) /\ p = Append(f, x) /\ Joined(f) \in Seq(Bytes)
        /\ \A i \in 1..(n - 1) : f[i] = p[i]
    BY PartsFrontLast DEF Texts
  <1>2. p \in Seq(Texts) /\ Delimiter \in Bytes
    BY LineAssumption DEF Parts
  <1> HIDE DEF n, f, x
  <1>3. CASE b = Delimiter
    <2>1. q = Append(p, <<>>) /\ <<>> \in Texts
      BY <1>3 DEF Extended, Texts
    <2>2. /\ q \in Seq(Texts) /\ q # <<>> /\ Len(q) = n + 1 /\ q[n + 1] = <<>>
          /\ \A i \in 1..n : q[i] = p[i]
      BY <1>2, <2>1, AppendProperties DEF n
    <2>3. q \in Parts
      BY <2>2 DEF Parts
    <2> HIDE DEF q
    <2>4. Last(q) = <<>>
      BY <1>1, <2>2 DEF Last
    <2>5. Front(q) = p
      <3>1. /\ Front(q) \in Seq(Texts) /\ Len(Front(q)) = n
            /\ \A i \in 1..n : Front(q)[i] = q[i]
        <4>1. Len(q) - 1 = n
          BY <1>1, <2>2
        <4> QED BY <2>3, <4>1, PartsFrontLast
      <3>2. \A i \in 1..n : Front(q)[i] = p[i]
        BY <2>2, <3>1
      <3> QED BY <1>2, <3>1, <3>2, SeqEqual DEF n
    <2>6. Joined(p) = Joined(f) \o Append(x, Delimiter)
      BY <1>1, JoinedAppend DEF Texts
    <2>7. Whole(q) = Joined(f) \o Append(x, Delimiter)
      <3>1. Joined(p) \in Seq(Bytes)
        BY <1>2, JoinedText DEF Texts
      <3> QED BY <2>4, <2>5, <2>6, <3>1, ConcatEmptySeq DEF Whole
    <2>8. Joined(f) \o Append(x, b) = Append(Joined(f) \o x, b)
      <3> DEFINE y == Joined(f)
      <3>1. y \in Seq(Bytes)
        BY <1>1
      <3> HIDE DEF y
      <3>2. y \o Append(x, b) = Append(y \o x, b)
        BY <1>1, <3>1, ConcatAppend
      <3> QED BY <3>2 DEF y
    <2>9. Undelimited(p) => Undelimited(q)
      <3> SUFFICES ASSUME Undelimited(p), NEW i \in 1..Len(q) PROVE ~Contains(q[i], Delimiter)
        BY DEF Undelimited
      <3>1. CASE i = n + 1
        BY <2>2, <3>1 DEF Contains
      <3>2. CASE i # n + 1
        <4>1. i \in 1..n
          BY <1>1, <2>2, <3>2
        <4> QED BY <2>2, <4>1 DEF Undelimited, n
      <3> QED BY <3>1, <3>2
    <2> QED BY <1>3, <2>3, <2>7, <2>8, <2>9 DEF Whole, q, f, x
  <1>4. CASE b # Delimiter
    <2> DEFINE y == Append(x, b)
    <2>1. y \in Texts /\ \A i \in 1..Len(y) : y[i] = IF i = Len(x) + 1 THEN b ELSE x[i]
      BY <1>1, AppendProperties DEF Texts
    <2>9. Len(y) = Len(x) + 1
      BY <1>1, AppendProperties DEF Texts
    <2>2. q = [p EXCEPT ![n] = y]
      BY <1>1, <1>4 DEF Extended, n
    <2> HIDE DEF y, q
    <2>3. /\ q \in Seq(Texts) /\ Len(q) = n
          /\ \A i \in 1..n : q[i] = IF i = n THEN y ELSE p[i]
      <3>1. Len(p) = n /\ n \in 1..Len(p)
        BY <1>1 DEF n
      <3> QED BY <1>2, <2>1, <2>2, <3>1, ExceptSeq
    <2>4. q \in Parts
      BY <1>1, <2>3, EmptySeq DEF Parts
    <2>5. Last(q) = y
      BY <1>1, <2>3 DEF Last
    <2>6. Front(q) = f
      <3>1. /\ Front(q) \in Seq(Texts) /\ Len(Front(q)) = n - 1
            /\ \A i \in 1..(n - 1) : Front(q)[i] = q[i]
        BY <2>3, <2>4, PartsFrontLast
      <3>2. ASSUME NEW i \in 1..(n - 1) PROVE Front(q)[i] = f[i]
        BY <1>1, <2>3, <3>1
      <3> QED BY <1>1, <3>1, <3>2, SeqEqual
    <2>7. Joined(f) \o y = Append(Joined(f) \o x, b)
      <3> DEFINE z == Joined(f)
      <3>1. z \in Seq(Bytes)
        BY <1>1
      <3> HIDE DEF z
      <3>2. z \o Append(x, b) = Append(z \o x, b)
        BY <1>1, <3>1, ConcatAppend
      <3> QED BY <3>2 DEF z, y
    <2>8. Undelimited(p) => Undelimited(q)
      <3> SUFFICES ASSUME Undelimited(p), NEW i \in 1..n PROVE ~Contains(q[i], Delimiter)
        BY <2>3 DEF Undelimited
      <3>1. CASE i # n
        BY <2>3, <3>1 DEF Undelimited, n
      <3>2. CASE i = n
        <4>1. ~Contains(x, Delimiter)
          BY <1>1 DEF Undelimited, n
        <4>2. ~Contains(y, Delimiter)
          <5> SUFFICES ASSUME NEW k \in 1..Len(y), y[k] = Delimiter PROVE FALSE
            BY DEF Contains
          <5>1. k # Len(x) + 1 /\ x[k] = Delimiter
            BY <1>4, <2>1
          <5>2. k \in 1..Len(x)
            BY <1>1, <2>9, <5>1
          <5> QED BY <4>1, <5>1, <5>2 DEF Contains
        <4> QED BY <2>3, <3>2, <4>2
      <3> QED BY <3>1, <3>2
    <2> QED BY <2>4, <2>5, <2>6, <2>7, <2>8 DEF Whole, q, f, x
  <1> QED BY <1>3, <1>4

\* What the recursion of Split builds, byte by byte.
LEMMA SplitRecursion ==
    ASSUME NEW s \in Texts
    PROVE  \E f : /\ Split(s) = f[Len(s)] /\ f[0] = << <<>> >>
                  /\ \A i \in 1..Len(s) : f[i] = Extended(f[i - 1], s[i])
  <1> DEFINE n == Len(s)
             step == [p \in Parts \X (1..n) |-> Extended(p[1], s[p[2]])]
             Body(g) == [i \in 0..n |->
                           IF i = 0 THEN << <<>> >>
                           ELSE IF s[i] = Delimiter THEN Append(g[i - 1], <<>>)
                           ELSE [g[i - 1] EXCEPT ![Len(g[i - 1])] = Append(@, s[i])]]
             f == CHOOSE g : g = Body(g)
  <1>1. step \in [Parts \X (1..n) -> Parts]
    <2>1. ASSUME NEW p \in Parts \X (1..n) PROVE Extended(p[1], s[p[2]]) \in Parts
      <3>1. p[1] \in Parts /\ s[p[2]] \in Bytes
        BY ElementOfSeq DEF Texts
      <3> QED BY <3>1, ExtendedProperties
    <2> QED BY <2>1
  <1>2. << <<>> >> \in Parts /\ n \in Nat
    BY DEF Texts, Parts
  <1>3. PICK g : IsRecursion(g, Parts, n, << <<>> >>, step)
    <2> HIDE DEF step, n
    <2> QED BY <1>1, <1>2, RecursionExists
  <1>4. \A p \in Parts : \A i \in 1..n : step[<<p, i>>] = Extended(p, s[i])
    BY Zenon
  <1>5. ASSUME NEW i \in 1..n PROVE g[i] = Extended(g[i - 1], s[i])
    <2> HIDE DEF step
    <2>1. g[i - 1] \in Parts
      BY <1>2, <1>3 DEF IsRecursion
    <2>2. g[i] = step[<<g[i - 1], i>>]
      BY <1>3 DEF IsRecursion
    <2> QED BY <1>4, <2>1, <2>2
  <1>6. g = Body(g)
    <2>1. g \in [0..n -> Parts] /\ g[0] = << <<>> >>
      BY <1>3 DEF IsRecursion
    <2>2. ASSUME NEW i \in 0..n
          PROVE  g[i] = IF i = 0 THEN << <<>> >>
                        ELSE IF s[i] = Delimiter THEN Append(g[i - 1], <<>>)
                        ELSE [g[i - 1] EXCEPT ![Len(g[i - 1])] = Append(@, s[i])]
      <3>1. CASE i = 0
        BY <2>1, <3>1
      <3>2. CASE i # 0
        <4>1. i \in 1..n
          BY <1>2, <3>2
        <4>2. g[i] = Extended(g[i - 1], s[i])
          BY <1>5, <4>1
        <4> QED BY <3>2, <4>2 DEF Extended
      <3> QED BY <3>1, <3>2
    <2> QED BY <2>1, <2>2, Zenon
  <1>7. f = Body(f)
    <2> HIDE DEF Body
    <2> QED BY <1>6
  <1>8. Split(s) = f[n]
    BY DEF Split
  <1>9. f[0] = << <<>> >> /\ \A i \in 1..n : f[i] = Extended(f[i - 1], s[i])
    <2> HIDE DEF f
    <2>1. \A i \in 0..n : f[i] = IF i = 0 THEN << <<>> >>
                                 ELSE IF s[i] = Delimiter THEN Append(f[i - 1], <<>>)
                                 ELSE [f[i - 1] EXCEPT ![Len(f[i - 1])] = Append(@, s[i])]
      BY <1>7, Zenon
    <2>2. f[0] = << <<>> >>
      <3>1. 0 \in 0..n
        BY <1>2
      <3> QED BY <2>1, <3>1, Zenon
    <2>3. ASSUME NEW i \in 1..n PROVE f[i] = Extended(f[i - 1], s[i])
      <3>1. i \in 0..n /\ i # 0
        BY <1>2
      <3> QED BY <2>1, <3>1, Zenon DEF Extended
    <2> QED BY <2>2, <2>3
  <1> HIDE DEF f
  <1> QED BY <1>8, <1>9

\* bytes.split: the parts are those of s, and none has a delimiter.
THEOREM SplitProperties ==
    ASSUME NEW s \in Seq(Bytes)
    PROVE  /\ Split(s) \in Seq(Seq(Bytes)) /\ Split(s) # <<>>
           /\ Joined(Front(Split(s))) \o Last(Split(s)) = s
           /\ \A i \in 1..Len(Split(s)) : ~Contains(Split(s)[i], Delimiter)
  <1> DEFINE n == Len(s)
             first(m) == SubSeq(s, 1, m)
             Good(p, m) == p \in Parts /\ Undelimited(p) /\ Whole(p) = first(m)
  <1>1. PICK f : /\ Split(s) = f[n] /\ f[0] = << <<>> >>
                 /\ \A i \in 1..n : f[i] = Extended(f[i - 1], s[i])
    BY SplitRecursion DEF Texts
  <1> DEFINE S == {m \in Nat : m <= n => Good(f[m], m)}
  <1>2. 0 \in S
    <2> DEFINE p == << <<>> >>
    <2>1. p \in Parts /\ Undelimited(p) /\ Len(p) = 1 /\ p[1] = <<>>
      BY DEF Parts, Texts, Undelimited, Contains
    <2>2. Front(p) = <<>> /\ Last(p) = <<>>
      BY <2>1, SubSeqEmpty DEF Front, Last
    <2>3. Whole(p) = <<>> /\ first(0) = <<>>
      BY <2>2, JoinedText, SubSeqEmpty DEF Whole
    <2> QED BY <1>1, <2>1, <2>3
  <1>3. ASSUME NEW m \in Nat, m \in S PROVE m + 1 \in S
    <2> SUFFICES ASSUME m + 1 <= n PROVE Good(f[m + 1], m + 1)
      OBVIOUS
    <2>1. Good(f[m], m)
      BY <1>3
    <2>2. m + 1 \in 1..n /\ (m + 1) - 1 = m /\ 1 \in 1..n
      OBVIOUS
    <2>3. f[m + 1] = Extended(f[m], s[m + 1]) /\ s[m + 1] \in Bytes
      BY <1>1, <2>2, ElementOfSeq
    <2>4. /\ f[m + 1] \in Parts /\ Undelimited(f[m + 1])
          /\ Whole(f[m + 1]) = Append(first(m), s[m + 1])
      BY <2>1, <2>3, ExtendedProperties
    <2>5. first(m + 1) = Append(first(m), s[m + 1])
      <3>1. first(m + 1) = first(m) \o <<s[m + 1]>>
        BY <2>2, SubSeqRecursiveSecond
      <3>2. first(m) \in Seq(Bytes)
        BY <2>1, PartsFrontLast DEF Texts
      <3> QED BY <2>3, <3>1, <3>2, AppendIsConcat
    <2> QED BY <2>4, <2>5
  <1>4. Nat \subseteq S
    <2> HIDE DEF S
    <2> QED BY <1>2, <1>3, Induction
  <1>5. Good(f[n], n)
    <2>1. n \in Nat /\ n <= n
      OBVIOUS
    <2> QED BY <1>4, <2>1
  <1>6. first(n) = s
    BY SubSeqFull
  <1> QED BY <1>1, <1>5, <1>6 DEF Whole, Parts, Texts, Undelimited
-----------------------------------------------------------------------------
(* The lines of one chunk.                                                 *)

\* A set of numbers up to n, not empty, has a greatest one.
LEMMA GreatestExists ==
    ASSUME NEW n \in Nat, NEW K \in SUBSET (0..n), K # {}
    PROVE  /\ Max(K) \in K
           /\ \A k \in K : Max(K) >= k
  <1> DEFINE below == {m \in Nat : n - m \in K}
             less == OpToRel(<, Nat)
  <1>1. below # {} /\ below \subseteq Nat
    <2>1. PICK k \in K : TRUE
      OBVIOUS
    <2>2. n - k \in Nat /\ n - (n - k) = k
      BY <2>1
    <2> QED BY <2>1, <2>2
  <1>2. PICK m \in below : \A k \in below : <<k, m>> \notin less
    BY <1>1, WFMin, NatLessThanWellFounded, Zenon
  <1>3. ASSUME NEW k \in K PROVE n - m >= k
    <2>1. n - k \in Nat /\ n - (n - k) = k
      OBVIOUS
    <2>2. ~(n - k < m)
      BY <1>2, <2>1 DEF OpToRel
    <2> QED BY <2>1, <2>2
  <1>4. n - m \in K
    BY <1>2
  <1> QED BY <1>3, <1>4 DEF Max

\* The first k lines may be handed on.
Admits(lines, k) ==
    /\ k \in 0..Len(lines)
    /\ \A i \in 1..k : Len(lines[i]) <= MaxLength
    /\ \A i \in 1..(k - 1) : ~Closes(lines[i])

\* Handled takes the most it may.
LEMMA HandledMost ==
    ASSUME NEW lines \in Seq(Texts)
    PROVE  \E n \in Nat : /\ Handled(lines) = SubSeq(lines, 1, n)
                          /\ Admits(lines, n)
                          /\ \A k \in Nat : Admits(lines, k) => k <= n
  <1> DEFINE K == {k \in 0..Len(lines) :
                     /\ \A i \in 1..k : Len(lines[i]) <= MaxLength
                     /\ \A i \in 1..(k - 1) : ~Closes(lines[i])}
             n == Max(K)
  <1>1. Len(lines) \in Nat
    OBVIOUS
  <1>2. Handled(lines) = SubSeq(lines, 1, n)
    BY DEF Handled
  <1>3. \A k : k \in K <=> Admits(lines, k)
    BY DEF Admits
  <1>4. K \in SUBSET (0..Len(lines)) /\ 0 \in K
    BY <1>1
  <1> HIDE DEF K
  <1>5. n \in K /\ \A k \in K : n >= k
    BY <1>1, <1>4, GreatestExists
  <1> HIDE DEF n
  <1>6. n \in 0..Len(lines)
    BY <1>4, <1>5
  <1> QED BY <1>1, <1>2, <1>3, <1>5, <1>6

\* Lines are handed on up to the first that closes, or the last before the
\* first that is too long.
LEMMA HandledProperties ==
    ASSUME NEW lines \in Seq(Texts)
    PROVE  \E n \in 0..Len(lines) :
             /\ Handled(lines) = SubSeq(lines, 1, n)
             /\ \A i \in 1..(n - 1) : ~Closes(lines[i])
             /\ n < Len(lines) => \/ n > 0 /\ Closes(lines[n])
                                  \/ Len(lines[n + 1]) > MaxLength
  <1>1. Len(lines) \in Nat /\ \A i \in 1..Len(lines) : Len(lines[i]) \in Nat
    BY ElementOfSeq DEF Texts
  <1>2. PICK n \in Nat : /\ Handled(lines) = SubSeq(lines, 1, n) /\ Admits(lines, n)
                         /\ \A k \in Nat : Admits(lines, k) => k <= n
    BY HandledMost
  <1>3. ASSUME n < Len(lines), ~(n > 0 /\ Closes(lines[n]))
        PROVE  Len(lines[n + 1]) > MaxLength
    <2> SUFFICES ASSUME Len(lines[n + 1]) <= MaxLength PROVE FALSE
      <3>1. n + 1 \in 1..Len(lines)
        BY <1>1, <1>3
      <3> QED BY <1>1, <3>1, LineAssumption
    <2>1. n + 1 \in 0..Len(lines)
      BY <1>1, <1>3
    <2>2. ASSUME NEW i \in 1..(n + 1) PROVE Len(lines[i]) <= MaxLength
      <3>1. i = n + 1 \/ i \in 1..n
        OBVIOUS
      <3> QED BY <1>2, <3>1 DEF Admits
    <2>3. ASSUME NEW i \in 1..((n + 1) - 1) PROVE ~Closes(lines[i])
      <3>1. (i = n /\ n > 0) \/ i \in 1..(n - 1)
        OBVIOUS
      <3> QED BY <1>2, <1>3, <3>1 DEF Admits
    <2>4. Admits(lines, n + 1)
      BY <2>1, <2>2, <2>3 DEF Admits
    <2> QED BY <1>2, <2>4
  <1> QED BY <1>2, <1>3 DEF Admits

\* Nothing of the text is handed on: it begins with a line that is too long.
TooLong(text) ==
    \E line \in Texts, after \in Texts :
      /\ text = line \o after
      /\ Len(line) > MaxLength
      /\ ~Contains(line, Delimiter)

\* What a text adds to the lines handed on, got.
Delivery(got, text) ==
    LET lines == Front(Split(text))
        rest == Last(Split(text))
        handled == Handled(lines)
    IN
    /\ rest \in Texts /\ handled \in Seq(Texts)
    /\ ~Contains(rest, Delimiter)
    /\ \A i \in 1..Len(handled) : ~Contains(handled[i], Delimiter)
    /\ \A i \in 1..Len(handled) : Closes(handled[i]) => i = Len(handled)
    /\ \E more \in Texts :
         /\ Joined(got \o handled) \o more = Joined(got) \o text
         /\ handled = lines => more = rest
         /\ handled # lines => \/ handled # <<>> /\ Closes(Last(handled))
                               \/ TooLong(more)

\* Every text delivers so.
LEMMA DeliveryHolds ==
    ASSUME NEW got \in Seq(Texts), NEW text \in Texts
    PROVE  Delivery(got, text)
  <1> DEFINE parts == Split(text)
             lines == Front(parts)  rest == Last(parts)  handled == Handled(lines)
  <1>2. /\ parts \in Parts /\ Joined(Front(parts)) \o Last(parts) = text
        /\ \A i \in 1..Len(parts) : ~Contains(parts[i], Delimiter)
    BY SplitProperties DEF Parts, Texts
  <1>3. lines = Front(parts) /\ rest = Last(parts) /\ handled = Handled(lines)
    OBVIOUS
  <1> HIDE DEF parts, lines, rest, handled
  <1>4. /\ lines \in Seq(Texts) /\ rest \in Texts /\ rest = parts[Len(parts)]
        /\ Len(parts) \in 1..Len(parts) /\ Len(lines) = Len(parts) - 1 /\ Len(parts) \in Nat
        /\ \A i \in 1..(Len(parts) - 1) : lines[i] = parts[i]
    BY <1>2, <1>3, PartsFrontLast
  <1>5. ~Contains(rest, Delimiter)
    BY <1>2, <1>4
  <1>6. ASSUME NEW i \in 1..Len(lines) PROVE lines[i] \in Texts /\ ~Contains(lines[i], Delimiter)
    <2>1. i \in 1..(Len(parts) - 1) /\ i \in 1..Len(parts)
      BY <1>4
    <2> QED BY <1>2, <1>4, <2>1, ElementOfSeq
  <1>7. PICK n \in 0..Len(lines) :
          /\ handled = SubSeq(lines, 1, n)
          /\ \A i \in 1..(n - 1) : ~Closes(lines[i])
          /\ n < Len(lines) => \/ n > 0 /\ Closes(lines[n])
                               \/ Len(lines[n + 1]) > MaxLength
    BY <1>3, <1>4, HandledProperties
  <1>8. Len(lines) \in Nat /\ n \in Nat /\ n <= Len(lines)
    BY <1>4
  <1>9. handled \in Seq(Texts) /\ Len(handled) = n /\ \A i \in 1..n : handled[i] = lines[i]
    <2>1. \A i \in 1..n : lines[i] \in Texts
      BY <1>6, <1>8
    <2>2. /\ handled \in Seq(Texts) /\ Len(handled) = IF 1 <= n THEN n - 1 + 1 ELSE 0
          /\ \A i \in 1..(n - 1 + 1) : handled[i] = lines[1 + i - 1]
      BY <1>7, <1>8, <2>1, SubSeqProperties
    <2>3. Len(handled) = n
      BY <1>8, <2>2
    <2>4. ASSUME NEW i \in 1..n PROVE handled[i] = lines[i]
      <3>1. i \in 1..(n - 1 + 1) /\ 1 + i - 1 = i
        BY <1>8
      <3> QED BY <2>2, <3>1
    <2> QED BY <2>2, <2>3, <2>4
  <1>10. \A i \in 1..Len(handled) : ~Contains(handled[i], Delimiter)
    BY <1>6, <1>8, <1>9
  <1>11. ASSUME NEW i \in 1..Len(handled), Closes(handled[i]) PROVE i = Len(handled)
    <2> SUFFICES ASSUME i # n PROVE FALSE
      BY <1>9
    <2>1. i \in 1..(n - 1) /\ handled[i] = lines[i]
      BY <1>8, <1>9
    <2> QED BY <1>7, <1>11, <2>1
  <1> DEFINE tail == SubSeq(lines, n + 1, Len(lines))
             more == Joined(tail) \o rest
  <1>12. /\ tail \in Seq(Texts) /\ lines = handled \o tail
    <2>1. \A i \in (n + 1)..Len(lines) : lines[i] \in Texts
      BY <1>6, <1>8
    <2>2. tail \in Seq(Texts)
      BY <1>8, <2>1, SubSeqProperties
    <2>3. 1 \in 1..(Len(lines) + 1) /\ n \in (1 - 1)..Len(lines) /\ Len(lines) \in n..Len(lines)
      BY <1>8
    <2>4. SubSeq(lines, 1, n) \o SubSeq(lines, n + 1, Len(lines)) = SubSeq(lines, 1, Len(lines))
      BY <1>4, <2>3, ConcatAdjacentSubSeq
    <2>5. SubSeq(lines, 1, Len(lines)) = lines
      BY <1>4, SubSeqFull
    <2> QED BY <1>7, <2>2, <2>4, <2>5
  <1>13. more \in Texts
    BY <1>4, <1>12, JoinedText, ConcatProperties DEF Texts
  <1>14. Joined(got \o handled) \o more = Joined(got) \o text
    <2> DEFINE g == Joined(got)  h == Joined(handled)  t == Joined(tail)
    <2>1. g \in Texts /\ h \in Texts /\ t \in Texts /\ rest \in Texts
      BY <1>4, <1>9, <1>12, JoinedText
    <2>2. Joined(got \o handled) = g \o h
      BY <1>9, JoinedConcat
    <2>3. Joined(lines) = h \o t
      <3> HIDE DEF tail
      <3> QED BY <1>9, <1>12, JoinedConcat
    <2>4. Joined(lines) \o rest = text
      BY <1>2, <1>3
    <2> HIDE DEF g, h, t
    <2>5. Cat(Cat(h, t), rest) = text
      BY <2>3, <2>4 DEF Cat
    <2>6. Cat(Cat(g, h), Cat(t, rest)) = Cat(g, text)
      BY <2>1, <2>5, CatProperties
    <2> QED BY <2>2, <2>6 DEF g, t, Cat
  <1>15. ASSUME handled = lines PROVE more = rest
    <2>1. n = Len(lines)
      BY <1>9, <1>15
    <2>2. tail = <<>>
      BY <1>8, <2>1, SubSeqEmpty
    <2> QED BY <1>4, <2>2, JoinedText, ConcatEmptySeq DEF Texts
  <1>16. ASSUME handled # lines, ~(handled # <<>> /\ Closes(Last(handled)))
         PROVE  TooLong(more)
    <2>1. n < Len(lines)
      <3> SUFFICES ASSUME n = Len(lines) PROVE FALSE
        BY <1>8
      <3>1. tail = <<>>
        BY <1>8, SubSeqEmpty
      <3> QED BY <1>9, <1>12, <1>16, <3>1, ConcatEmptySeq
    <2>2. ~(n > 0 /\ Closes(lines[n]))
      <3> SUFFICES ASSUME n > 0, Closes(lines[n]) PROVE FALSE
        OBVIOUS
      <3>1. n \in 1..n /\ handled # <<>>
        BY <1>8, <1>9, EmptySeq
      <3>2. Last(handled) = lines[n]
        BY <1>9, <3>1 DEF Last
      <3> QED BY <1>16, <3>1, <3>2
    <2> DEFINE line == lines[n + 1]
               rest2 == SubSeq(lines, n + 2, Len(lines))
    <2>3. n + 1 \in 1..Len(lines)
      BY <1>8, <2>1
    <2>4. line \in Texts /\ ~Contains(line, Delimiter) /\ Len(line) > MaxLength
      BY <1>6, <1>7, <2>1, <2>2, <2>3
    <2>5. rest2 \in Seq(Texts)
      <3>1. \A i \in (n + 2)..Len(lines) : lines[i] \in Texts
        BY <1>6, <1>8
      <3> QED BY <1>8, <3>1, SubSeqProperties
    <2>6. tail = <<line>> \o rest2
      <3>1. Len(lines) \in (n + 1)..Len(lines) /\ (n + 1) + 1 = n + 2
        BY <1>8, <2>1
      <3> QED BY <1>4, <2>3, <3>1, SubSeqRecursiveFirst
    <2> DEFINE j == Joined(rest2)
    <2>7. j \in Texts
      <3> HIDE DEF rest2
      <3> QED BY <2>5, JoinedText
    <2>8. Joined(tail) = Append(line, Delimiter) \o j
      <3>1. Joined(<<line>>) = Append(line, Delimiter)
        <4>1. <<line>> = Append(<<>>, line) /\ <<>> \in Seq(Texts)
          OBVIOUS
        <4>2. Joined(<<line>>) = Joined(<<>>) \o Append(line, Delimiter)
          BY <2>4, <4>1, JoinedAppend
        <4>3. Append(line, Delimiter) \in Seq(Bytes)
          BY <2>4, LineAssumption DEF Texts
        <4> QED BY <4>2, <4>3, JoinedText, ConcatEmptySeq
      <3>2. <<line>> \in Seq(Texts)
        BY <2>4
      <3> QED BY <2>5, <2>6, <3>1, <3>2, JoinedConcat
    <2> HIDE DEF line, j, rest2
    <2> DEFINE after == <<Delimiter>> \o (j \o rest)
    <2>9. (Append(line, Delimiter) \o j) \o rest = line \o after /\ after \in Texts
      <3> DEFINE d == <<Delimiter>>
      <3>1. line \in Texts /\ d \in Texts /\ j \in Texts /\ rest \in Texts
        BY <1>4, <2>4, <2>7, LineAssumption DEF Texts
      <3>2. Append(line, Delimiter) = Cat(line, d)
        BY <3>1, LineAssumption, AppendIsConcat DEF Texts, Cat
      <3> HIDE DEF d
      <3>3. /\ Cat(Cat(Cat(line, d), j), rest) = Cat(line, Cat(d, Cat(j, rest)))
            /\ Cat(d, Cat(j, rest)) \in Texts
        BY <3>1, CatProperties
      <3> QED BY <3>2, <3>3 DEF d, Cat
    <2>10. more = line \o after
      BY <2>8, <2>9
    <2> HIDE DEF more, after
    <2> QED BY <2>4, <2>9, <2>10 DEF TooLong
  <1> HIDE DEF more
  <1>17. \E m \in Texts :
           /\ Joined(got \o handled) \o m = Joined(got) \o text
           /\ handled = lines => m = rest
           /\ handled # lines => \/ handled # <<>> /\ Closes(Last(handled))
                                 \/ TooLong(m)
    BY <1>13, <1>14, <1>15, <1>16
  <1> QED BY <1>4, <1>5, <1>9, <1>10, <1>11, <1>17, Zenon
     DEF Delivery, handled, lines, rest, parts
-----------------------------------------------------------------------------
(* The connection.                                                         *)

\* A text is a prefix of any that goes on from it.
LEMMA PrefixOfConcat ==
    ASSUME NEW a \in Texts, NEW b \in Texts
    PROVE  IsPrefix(a, a \o b)
  <1>1. a \o b \in Seq(Bytes) /\ Len(a) \in Nat /\ Len(a) <= Len(a \o b)
    BY ConcatProperties DEF Texts
  <1>2. SubSeq(a, 1, Len(a)) = SubSeq(a \o b, 1, Len(a))
    <2>1. CASE a = <<>>
      BY <2>1, SubSeqEmpty
    <2>2. CASE a # <<>>
      <3>1. 1 \in 1..Len(a) /\ Len(a) \in 1..Len(a)
        BY <2>2, EmptySeq DEF Texts
      <3> QED BY <3>1, SubSeqOfConcat1 DEF Texts
    <2> QED BY <2>1, <2>2
  <1> QED BY <1>1, <1>2 DEF IsPrefix

\* Where the stream goes on after what was joined.
LEMMA NextOfConcat ==
    ASSUME NEW a \in Texts, NEW b \in Texts, NEW c \in Texts, NEW i \in 1..Len(b)
    PROVE  /\ Len(a) + i <= Len(a \o (b \o c)) /\ Len(a) + i \in Nat \ {0}
           /\ (a \o (b \o c))[Len(a) + i] = b[i]
  <1>1. /\ b \o c \in Seq(Bytes) /\ Len(b \o c) = Len(b) + Len(c) /\ (b \o c)[i] = b[i]
        /\ Len(b) \in Nat /\ Len(c) \in Nat /\ Len(a) \in Nat
    BY ConcatProperties DEF Texts
  <1> DEFINE d == b \o c
  <1> HIDE DEF d
  <1>2. d \in Seq(Bytes) /\ Len(d) = Len(b) + Len(c) /\ d[i] = b[i]
    BY <1>1 DEF d
  <1>3. /\ Len(a \o d) = Len(a) + Len(d)
        /\ (a \o d)[Len(a) + i] = d[i]
    <2>1. Len(a) + i \in 1..(Len(a) + Len(d)) /\ ~(Len(a) + i <= Len(a)) /\ (Len(a) + i) - Len(a) = i
      BY <1>1, <1>2
    <2>2. a \in Seq(Bytes) /\ d \in Seq(Bytes)
      BY <1>2 DEF Texts
    <2>3. /\ Len(a \o d) = Len(a) + Len(d)
          /\ \A k \in 1..(Len(a) + Len(d)) : (a \o d)[k] = IF k <= Len(a) THEN a[k]
                                                          ELSE d[k - Len(a)]
      BY <2>2, ConcatProperties
    <2> QED BY <2>1, <2>3
  <1> QED BY <1>1, <1>2, <1>3 DEF d

\* The properties are inductive together: an open connection has them all.
LineInv == TypeOK /\ LinesAreTheStream /\ ClosesWhereItMust

\* Nothing is sent yet.
LEMMA LineInvInit == Init => LineInv
  <1> SUFFICES ASSUME Init PROVE LineInv
    OBVIOUS
  <1>1. TypeOK
    <2>1. position \in 0..StreamLength
      BY LineAssumption DEF Init
    <2>2. buffer \in Seq(Bytes) /\ received \in Seq(Seq(Bytes)) /\ closing \in BOOLEAN
      <3>1. buffer = <<>> /\ received = <<>> /\ closing = FALSE
        BY DEF Init
      <3>2. <<>> \in Seq(Bytes) /\ <<>> \in Seq(Seq(Bytes))
        OBVIOUS
      <3> QED BY <3>1, <3>2
    <2> QED BY <2>1, <2>2 DEF Init, TypeOK
  <1>2. Sent = <<>> /\ Joined(received) = <<>>
    BY JoinedText, SubSeqEmpty DEF Init, Sent
  <1>3. LinesAreTheStream
    BY <1>2, SubSeqEmpty DEF Init, LinesAreTheStream, IsPrefix, Contains
  <1>4. ClosesWhereItMust
    BY LineAssumption DEF Init, ClosesWhereItMust
  <1> QED BY <1>1, <1>3, <1>4 DEF LineInv

\* data_received: what is sent grows by the chunk.
LEMMA SentGrows ==
    ASSUME LineInv, NEW n \in 1..(StreamLength - position), DataReceived(n)
    PROVE  /\ SubSeq(stream, position + 1, position + n) \in Texts /\ Sent \in Texts
           /\ Sent' = Sent \o SubSeq(stream, position + 1, position + n)
  <1>1. /\ stream \in Seq(Bytes) /\ Len(stream) = StreamLength /\ StreamLength \in Nat
        /\ position \in Nat /\ n \in Nat /\ position + n <= StreamLength
    BY LineAssumption DEF LineInv, TypeOK
  <1>2. \A i \in (position + 1)..(position + n) : stream[i] \in Bytes
    BY <1>1, ElementOfSeq
  <1>3. \A i \in 1..position : stream[i] \in Bytes
    BY <1>1, ElementOfSeq
  <1>4. /\ SubSeq(stream, position + 1, position + n) \in Seq(Bytes)
        /\ SubSeq(stream, 1, position) \in Seq(Bytes)
    BY <1>1, <1>2, <1>3, SubSeqProperties
  <1>5. 1 \in 1..(Len(stream) + 1) /\ position \in (1 - 1)..Len(stream)
        /\ position + n \in position..Len(stream)
    BY <1>1
  <1>6. SubSeq(stream, 1, position) \o SubSeq(stream, position + 1, position + n)
          = SubSeq(stream, 1, position + n)
    BY <1>1, <1>5, ConcatAdjacentSubSeq
  <1>7. Sent' = SubSeq(stream, 1, position + n)
    BY DEF DataReceived, Sent
  <1> QED BY <1>4, <1>6, <1>7 DEF Sent, Texts

\* A chunk, cut anywhere, keeps the invariant.
LEMMA DataReceivedKeeps ==
    ASSUME LineInv, NEW n \in 1..(StreamLength - position), DataReceived(n)
    PROVE  LineInv'
  <1> DEFINE data == SubSeq(stream, position + 1, position + n)
             lines == Front(Split(buffer \o data))
             rest == Last(Split(buffer \o data))
             handled == Handled(lines)
             joined == Joined(received \o handled)
  <1>1. /\ stream \in Seq(Bytes) /\ Len(stream) = StreamLength /\ StreamLength \in Nat
        /\ position \in Nat /\ n \in Nat /\ position + n <= StreamLength
        /\ buffer \in Texts /\ received \in Seq(Texts)
    BY LineAssumption DEF LineInv, TypeOK, Texts
  <1>2. ~closing /\ position' = position + n /\ stream' = stream
    BY DEF DataReceived
  <1>3. /\ Joined(received) \o buffer = Sent /\ \A i \in DOMAIN received : ~Closes(received[i])
        /\ \A i \in DOMAIN received : ~Contains(received[i], Delimiter)
    BY <1>2 DEF LineInv, LinesAreTheStream, ClosesWhereItMust
  <1>4. data \in Texts /\ Sent' = Sent \o data
    BY SentGrows
  <1>5. buffer' = rest /\ received' = received \o handled
    BY DEF DataReceived
  <1>6. closing' = (\/ handled # lines
                    \/ handled # <<>> /\ Closes(Last(handled))
                    \/ Len(buffer') > MaxLength)
    BY DEF DataReceived
  <1> HIDE DEF data
  <1> DEFINE text == buffer \o data
  <1>7. text \in Texts
    BY <1>1, <1>4, ConcatProperties DEF Texts
  <1>8. Delivery(received, text)
    <2> HIDE DEF text
    <2> QED BY <1>1, <1>7, DeliveryHolds
  <1>9. /\ rest \in Texts /\ handled \in Seq(Texts)
        /\ ~Contains(rest, Delimiter)
        /\ \A i \in 1..Len(handled) : ~Contains(handled[i], Delimiter)
        /\ \A i \in 1..Len(handled) : Closes(handled[i]) => i = Len(handled)
    BY <1>8, Zenon DEF Delivery
  <1>10. PICK more \in Texts :
           /\ joined \o more = Joined(received) \o text
           /\ handled = lines => more = rest
           /\ handled # lines => \/ handled # <<>> /\ Closes(Last(handled))
                                 \/ TooLong(more)
    BY <1>8, Zenon DEF Delivery
  <1> HIDE DEF handled, lines, rest
  <1>11. received \o handled \in Seq(Texts) /\ joined \in Texts
    BY <1>1, <1>9, JoinedText, ConcatProperties
  <1>12. joined \o more = Sent'
    <2>1. Joined(received) \in Texts /\ Sent \in Texts
      BY <1>1, <1>3, JoinedText, ConcatProperties DEF Texts
    <2>2. Cat(Joined(received), Cat(buffer, data)) = Cat(Cat(Joined(received), buffer), data)
      BY <1>1, <1>4, <2>1, CatProperties
    <2> QED BY <1>3, <1>4, <1>10, <2>2 DEF Cat
  <1>13. Joined(received)' = joined /\ Len(joined) \in Nat
    BY <1>5, <1>11 DEF Joined, Texts
  <1>14. ASSUME NEW i \in DOMAIN received'
         PROVE  \/ i \in DOMAIN received /\ received'[i] = received[i]
                \/ \E k \in 1..Len(handled) : /\ received'[i] = handled[k]
                                              /\ i = Len(received) + k
    <2>1. /\ DOMAIN received' = 1..(Len(received) + Len(handled)) /\ DOMAIN received = 1..Len(received)
          /\ Len(received) \in Nat /\ Len(handled) \in Nat
          /\ received'[i] = IF i <= Len(received) THEN received[i] ELSE handled[i - Len(received)]
      BY <1>1, <1>5, <1>9, <1>11, ConcatProperties
    <2>2. CASE i <= Len(received)
      BY <2>1, <2>2
    <2>3. CASE ~(i <= Len(received))
      <3>1. i - Len(received) \in 1..Len(handled) /\ i = Len(received) + (i - Len(received))
        BY <2>1, <2>3
      <3> QED BY <2>1, <2>3, <3>1
    <2> QED BY <2>2, <2>3
  <1>15. Len(received') = Len(received) + Len(handled) /\ Len(received) \in Nat
    BY <1>1, <1>5, <1>9, ConcatProperties
  <1>16. TypeOK'
    <2>1. position' \in 0..StreamLength /\ stream' \in [1..StreamLength -> Bytes]
      BY <1>1, <1>2 DEF LineInv, TypeOK
    <2>2. buffer' \in Seq(Bytes) /\ received' \in Seq(Seq(Bytes))
      BY <1>5, <1>9, <1>11 DEF Texts
    <2>3. closing' \in BOOLEAN
      BY <1>6
    <2> QED BY <2>1, <2>2, <2>3 DEF TypeOK
  <1>17. ~closing' => handled = lines /\ more = buffer'
    BY <1>5, <1>6, <1>10
  <1>18. LinesAreTheStream'
    <2>1. IsPrefix(joined, Sent')
      BY <1>11, <1>12, PrefixOfConcat
    <2>2. ~closing' => joined \o buffer' = Sent'
      BY <1>12, <1>17
    <2>3. ~Contains(buffer', Delimiter)
      BY <1>5, <1>9
    <2>4. \A i \in DOMAIN received' : ~Contains(received'[i], Delimiter)
      BY <1>3, <1>9, <1>14
    <2> QED BY <1>13, <2>1, <2>2, <2>3, <2>4 DEF LinesAreTheStream
  <1>19. /\ Len(Sent') = position + n
         /\ \A k \in 1..(position + n) : Sent'[k] = stream'[k]
    <2>1. Sent' = SubSeq(stream, 1, position + n)
      BY <1>2 DEF Sent
    <2>2. \A i \in 1..(position + n) : stream[i] \in Bytes
      BY <1>1, ElementOfSeq
    <2> DEFINE sent == SubSeq(stream, 1, position + n)
    <2>3. /\ Len(sent) = (IF 1 <= position + n THEN (position + n) - 1 + 1 ELSE 0)
          /\ \A i \in 1..((position + n) - 1 + 1) : sent[i] = stream[1 + i - 1]
      BY <1>1, <2>2, SubSeqProperties
    <2> HIDE DEF sent
    <2>4. Len(sent) = position + n
      BY <1>1, <2>3
    <2>5. ASSUME NEW k \in 1..(position + n) PROVE sent[k] = stream[k]
      <3>1. k \in 1..((position + n) - 1 + 1) /\ 1 + k - 1 = k
        BY <1>1
      <3> QED BY <2>3, <3>1
    <2> QED BY <1>2, <2>1, <2>4, <2>5 DEF sent
  <1>20. handled # <<>> => Len(handled) \in 1..Len(handled) /\ Last(handled) = handled[Len(handled)]
    BY <1>9, EmptySeq DEF Last
  <1>21. TooLong(more) => \A i \in 1..(MaxLength + 1) :
                            /\ Len(joined) + i <= position'
                            /\ stream'[Len(joined) + i] # Delimiter
    <2> SUFFICES ASSUME TooLong(more), NEW i \in 1..(MaxLength + 1)
                 PROVE  /\ Len(joined) + i <= position'
                        /\ stream'[Len(joined) + i] # Delimiter
      OBVIOUS
    <2>1. PICK line \in Texts, after \in Texts :
            more = line \o after /\ Len(line) > MaxLength /\ ~Contains(line, Delimiter)
      BY DEF TooLong
    <2>2. i \in 1..Len(line) /\ line[i] # Delimiter
      <3>1. Len(line) \in Nat
        BY DEF Texts
      <3>2. i \in 1..Len(line)
        BY <2>1, <3>1, LineAssumption
      <3> QED BY <2>1, <3>2 DEF Contains
    <2> HIDE DEF joined
    <2>3. /\ Len(joined) + i <= Len(joined \o (line \o after)) /\ Len(joined) + i \in Nat \ {0}
          /\ (joined \o (line \o after))[Len(joined) + i] = line[i]
      BY <1>11, <2>2, NextOfConcat
    <2>4. joined \o (line \o after) = Sent'
      BY <1>12, <2>1
    <2>5. Len(joined) + i <= position + n /\ Sent'[Len(joined) + i] = line[i]
      BY <1>19, <2>3, <2>4
    <2>6. Len(joined) + i \in 1..(position + n)
      BY <1>1, <2>3, <2>5
    <2> QED BY <1>2, <1>19, <2>2, <2>5, <2>6
  <1>22. ClosesWhereItMust'
    <2>1. ~closing' => Len(buffer') <= MaxLength
      <3>1. Len(buffer') \in Nat
        BY <1>5, <1>9 DEF Texts
      <3> QED BY <1>6, <3>1, LineAssumption
    <2>2. ASSUME NEW i \in DOMAIN received', Closes(received'[i])
          PROVE  i = Len(received') /\ closing'
      <3>1. PICK k \in 1..Len(handled) : received'[i] = handled[k] /\ i = Len(received) + k
        BY <1>3, <1>14, <2>2
      <3>2. k = Len(handled) /\ handled # <<>>
        BY <1>9, <2>2, <3>1
      <3>3. Closes(Last(handled))
        BY <1>20, <2>2, <3>1, <3>2
      <3> QED BY <1>6, <1>15, <3>1, <3>2, <3>3
    <2>3. ASSUME closing'
          PROVE  \/ received' # <<>> /\ Closes(Last(received'))
                 \/ \A i \in 1..(MaxLength + 1) : /\ Len(joined) + i <= position'
                                                  /\ stream'[Len(joined) + i] # Delimiter
      <3>1. CASE handled # <<>> /\ Closes(Last(handled))
        <4>1. received' # <<>> /\ Last(received') = Last(handled)
          <5>1. Len(handled) \in 1..Len(handled) /\ Len(handled) \in Nat
            BY <1>9, <1>20, <3>1
          <5>2. received'[Len(received) + Len(handled)] = handled[Len(handled)]
            BY <1>1, <1>5, <1>9, <1>15, <5>1, ConcatProperties
          <5> QED BY <1>15, <1>20, <3>1, <5>1, <5>2 DEF Last
        <4> QED BY <3>1, <4>1
      <3>2. CASE ~(handled # <<>> /\ Closes(Last(handled)))
        <4>1. CASE handled # lines
          BY <1>10, <1>21, <3>2, <4>1
        <4>2. CASE handled = lines
          <5>1. Len(rest) > MaxLength /\ more = rest
            BY <1>5, <1>6, <1>10, <2>3, <3>2, <4>2
          <5>2. rest = rest \o <<>> /\ <<>> \in Texts
            BY <1>9, ConcatEmptySeq DEF Texts
          <5>3. TooLong(more)
            BY <1>9, <5>1, <5>2 DEF TooLong
          <5> QED BY <1>21, <5>3
        <4> QED BY <4>1, <4>2
      <3> QED BY <3>1, <3>2
    <2> QED BY <1>13, <2>1, <2>2, <2>3 DEF ClosesWhereItMust
  <1> QED BY <1>16, <1>18, <1>22 DEF LineInv

\* Every state of a connection has the properties.
LEMMA LineInvHolds == Spec => []LineInv
  <1>1. LineInv /\ [Next]_vars => LineInv'
    <2> SUFFICES ASSUME LineInv, [Next]_vars PROVE LineInv'
      OBVIOUS
    <2>1. CASE Next
      BY <2>1, DataReceivedKeeps DEF Next
    <2>2. CASE UNCHANGED vars
      BY <2>2 DEF vars, LineInv, TypeOK, LinesAreTheStream, ClosesWhereItMust, Sent
    <2> QED BY <2>1, <2>2
  <1> QED BY <1>1, LineInvInit, PTL DEF Spec

\* The state space: a connection's buffer and lines are sequences of bytes.
THEOREM LineTypesHold == Spec => []TypeOK
  <1>1. LineInv => TypeOK
    BY DEF LineInv
  <1> QED BY <1>1, LineInvHolds, PTL

\* data_received: nothing is lost, repeated, merged or cut, for any stream, any
\* limit and wherever the chunks are cut.
THEOREM LinesAreAlwaysTheStream == Spec => []LinesAreTheStream
  <1>1. LineInv => LinesAreTheStream
    BY DEF LineInv
  <1> QED BY <1>1, LineInvHolds, PTL

\* data_received, line_length_exceeded: what closes a connection does not depend
\* on the chunks, and nothing is handed on after it.
THEOREM ClosesWhereItAlwaysMust == Spec => []ClosesWhereItMust
  <1>1. LineInv => ClosesWhereItMust
    BY DEF LineInv
  <1> QED BY <1>1, LineInvHolds, PTL
-----------------------------------------------------------------------------
(* One reading: chunks do not matter.                                      *)

\* Splitting one byte more extends the parts by it.
LEMMA SplitAppend ==
    ASSUME NEW s \in Texts, NEW b \in Bytes
    PROVE  /\ Split(s) \in Parts
           /\ Split(Append(s, b)) = Extended(Split(s), b)
  <1> DEFINE n == Len(s)  u == Append(s, b)
  <1>1. /\ n \in Nat /\ u \in Texts /\ Len(u) = n + 1 /\ u[n + 1] = b
        /\ \A i \in 1..n : u[i] = s[i]
    BY AppendProperties DEF Texts
  <1>2. Split(s) \in Parts
    BY SplitProperties DEF Parts, Texts
  <1>3. PICK f : /\ Split(s) = f[n] /\ f[0] = << <<>> >>
                 /\ \A i \in 1..n : f[i] = Extended(f[i - 1], s[i])
    BY SplitRecursion
  <1>4. PICK g : /\ Split(u) = g[n + 1] /\ g[0] = << <<>> >>
                 /\ \A i \in 1..(n + 1) : g[i] = Extended(g[i - 1], u[i])
    <2> HIDE DEF u
    <2>1. \E g : /\ Split(u) = g[Len(u)] /\ g[0] = << <<>> >>
                 /\ \A i \in 1..Len(u) : g[i] = Extended(g[i - 1], u[i])
      BY <1>1, SplitRecursion
    <2> QED BY <1>1, <2>1
  <1> HIDE DEF u, n
  <1>5. f[n] = g[n]
    <2>1. ASSUME NEW i \in 1..n, f[i - 1] = g[i - 1] PROVE f[i] = g[i]
      <3>1. i \in 1..(n + 1)
        BY <1>1
      <3>2. f[i] = Extended(f[i - 1], s[i])
        BY <1>3
      <3>3. g[i] = Extended(g[i - 1], u[i])
        BY <1>4, <3>1
      <3> QED BY <1>1, <2>1, <3>2, <3>3
    <2>2. f[0] = g[0] /\ \A i \in 1..n : f[i - 1] = g[i - 1] => f[i] = g[i]
      BY <1>3, <1>4, <2>1
    <2>3. n \in Nat
      BY <1>1
    <2>4. \A i \in 0..n : f[i] = g[i]
      BY <2>2, <2>3, RecursionsAgree
    <2> QED BY <2>3, <2>4
  <1>6. g[n + 1] = Extended(g[n], b)
    <2>1. n + 1 \in 1..(n + 1) /\ (n + 1) - 1 = n
      BY <1>1
    <2> QED BY <1>1, <1>4, <2>1
  <1> QED BY <1>2, <1>3, <1>4, <1>5, <1>6 DEF u

\* A byte more extends the parts at their end, whatever is before them.
LEMMA ExtendedLater ==
    ASSUME NEW a \in Seq(Texts), NEW p \in Parts, NEW b \in Bytes
    PROVE  Extended(a \o p, b) = a \o Extended(p, b)
  <1>1. p \in Seq(Texts) /\ Len(p) \in Nat \ {0} /\ Len(a) \in Nat /\ Last(p) = p[Len(p)]
        /\ Last(p) \in Texts
    BY PartsFrontLast DEF Parts
  <1>2. CASE b = Delimiter
    <2>1. <<>> \in Texts
      BY DEF Texts
    <2>2. a \o Append(p, <<>>) = Append(a \o p, <<>>)
      <3> DEFINE e == <<>>
      <3> HIDE DEF e
      <3>1. e \in Texts
        BY <2>1 DEF e
      <3>2. a \o Append(p, e) = Append(a \o p, e)
        BY <1>1, <3>1, ConcatAppend
      <3> QED BY <3>2 DEF e
    <2> QED BY <1>2, <2>2, Zenon DEF Extended
  <1>3. CASE b # Delimiter
    <2> DEFINE n == Len(p)  k == Len(a)  y == Append(p[n], b)  c == a \o p
               q == [p EXCEPT ![n] = y]  r == [c EXCEPT ![Len(c)] = Append(c[Len(c)], b)]
    <2>1. y \in Texts
      BY <1>1, AppendProperties DEF Texts
    <2>2. /\ c \in Seq(Texts) /\ Len(c) = k + n
          /\ \A i \in 1..(k + n) : c[i] = IF i <= k THEN a[i] ELSE p[i - k]
      BY <1>1, ConcatProperties
    <2> HIDE DEF c, y
    <2>3. c[k + n] = p[n]
      <3>1. k + n \in 1..(k + n) /\ ~(k + n <= k) /\ (k + n) - k = n
        BY <1>1
      <3> QED BY <2>2, <3>1
    <2>4. r = [c EXCEPT ![k + n] = y]
      BY <2>2, <2>3 DEF y
    <2> HIDE DEF r
    <2>5. /\ r \in Seq(Texts) /\ Len(r) = k + n
          /\ \A i \in 1..(k + n) : r[i] = IF i = k + n THEN y ELSE c[i]
      <3>1. k + n \in 1..Len(c)
        BY <1>1, <2>2
      <3> QED BY <2>1, <2>2, <2>4, <3>1, ExceptSeq
    <2>6. /\ q \in Seq(Texts) /\ Len(q) = n
          /\ \A i \in 1..n : q[i] = IF i = n THEN y ELSE p[i]
      <3>1. n \in 1..Len(p)
        BY <1>1
      <3> QED BY <1>1, <2>1, <3>1, ExceptSeq
    <2> HIDE DEF q
    <2> DEFINE w == a \o q
    <2>7. /\ w \in Seq(Texts) /\ Len(w) = k + n
          /\ \A i \in 1..(k + n) : w[i] = IF i <= k THEN a[i] ELSE q[i - k]
      <3>1. /\ w \in Seq(Texts) /\ Len(w) = Len(a) + Len(q)
            /\ \A i \in 1..(Len(a) + Len(q)) :
                 w[i] = IF i <= Len(a) THEN a[i] ELSE q[i - Len(a)]
        <4>1. a \in Seq(Texts) /\ q \in Seq(Texts)
          BY <2>6
        <4> QED BY <4>1, ConcatProperties
      <3> HIDE DEF w
      <3> QED BY <2>6, <3>1
    <2> HIDE DEF w
    <2>8. ASSUME NEW i \in 1..(k + n) PROVE r[i] = w[i]
      <3>1. CASE i <= k
        <4>1. i # k + n /\ w[i] = a[i] /\ c[i] = a[i]
          BY <1>1, <2>2, <2>7, <3>1 DEF w
        <4> QED BY <2>5, <4>1
      <3>2. CASE ~(i <= k)
        <4>1. i - k \in 1..n /\ (i = k + n <=> i - k = n)
          BY <1>1, <3>2
        <4>2. w[i] = q[i - k] /\ c[i] = p[i - k]
          BY <2>2, <2>7, <3>2 DEF w
        <4> QED BY <2>5, <2>6, <4>1, <4>2
      <3> QED BY <3>1, <3>2
    <2>9. r = w
      <3>1. w \in Seq(Texts) /\ Len(w) = k + n
        BY <2>7 DEF w
      <3> QED BY <2>5, <2>8, <3>1, SeqEqual
    <2>10. Extended(c, b) = r /\ Extended(p, b) = q
      <3>1. Extended(c, b) = [c EXCEPT ![Len(c)] = Append(c[Len(c)], b)]
        BY <1>3 DEF Extended
      <3>2. Extended(p, b) = [p EXCEPT ![n] = Append(p[n], b)]
        BY <1>3 DEF Extended
      <3> QED BY <3>1, <3>2 DEF r, q, y
    <2> QED BY <2>9, <2>10 DEF w, c
  <1> QED BY <1>2, <1>3

\* What comes first of a text, byte by byte.
LEMMA FirstBytes ==
    ASSUME NEW t \in Texts, NEW m \in Nat, m + 1 <= Len(t)
    PROVE  /\ SubSeq(t, 1, m) \in Texts /\ t[m + 1] \in Bytes
           /\ SubSeq(t, 1, m + 1) = Append(SubSeq(t, 1, m), t[m + 1])
  <1>1. 1 \in 1..Len(t) /\ m + 1 \in 1..Len(t) /\ (m + 1) - 1 = m /\ t \in Seq(Bytes)
    BY DEF Texts
  <1>2. \A i \in 1..m : t[i] \in Bytes
    BY <1>1, ElementOfSeq
  <1>3. SubSeq(t, 1, m) \in Seq(Bytes) /\ t[m + 1] \in Bytes
    BY <1>1, <1>2, ElementOfSeq, SubSeqProperties
  <1>4. SubSeq(t, 1, m + 1) = SubSeq(t, 1, m) \o <<t[m + 1]>>
    BY <1>1, SubSeqRecursiveSecond
  <1> QED BY <1>3, <1>4, AppendIsConcat DEF Texts

\* A text without a delimiter is one part.
LEMMA SplitUndelimited ==
    ASSUME NEW t \in Texts, ~Contains(t, Delimiter)
    PROVE  Split(t) = <<t>>
  <1> DEFINE first(m) == SubSeq(t, 1, m)
             S == {m \in Nat : m <= Len(t) => Split(first(m)) = <<first(m)>>}
  <1>1. 0 \in S
    <2>1. first(0) = <<>> /\ <<>> \in Texts /\ Len(<<>>) = 0
      BY SubSeqEmpty DEF Texts
    <2>2. Split(<<>>) = << <<>> >>
      <3>1. PICK f : Split(<<>>) = f[Len(<<>>)] /\ f[0] = << <<>> >>
        BY <2>1, SplitRecursion
      <3> QED BY <2>1, <3>1
    <2> QED BY <2>1, <2>2
  <1>2. ASSUME NEW m \in Nat, m \in S PROVE m + 1 \in S
    <2> SUFFICES ASSUME m + 1 <= Len(t) PROVE Split(first(m + 1)) = <<first(m + 1)>>
      OBVIOUS
    <2>1. Split(first(m)) = <<first(m)>>
      BY <1>2
    <2>2. first(m) \in Texts /\ t[m + 1] \in Bytes /\ first(m + 1) = Append(first(m), t[m + 1])
      BY FirstBytes
    <2>3. t[m + 1] # Delimiter
      BY DEF Contains
    <2> DEFINE x == first(m)  b == t[m + 1]
    <2> HIDE DEF x, b
    <2>4. Split(Append(x, b)) = Extended(<<x>>, b)
      BY <2>1, <2>2, SplitAppend DEF x, b
    <2>5. Extended(<<x>>, b) = <<Append(x, b)>>
      BY <2>3 DEF Extended, b
    <2> QED BY <2>2, <2>4, <2>5 DEF x, b
  <1>3. Nat \subseteq S
    <2> HIDE DEF S
    <2> QED BY <1>1, <1>2, Induction
  <1>4. Len(t) \in Nat /\ Len(t) <= Len(t) /\ first(Len(t)) = t
    <2>1. t \in Seq(Bytes)
      BY DEF Texts
    <2>2. Len(t) \in Nat /\ Len(t) <= Len(t)
      BY <2>1
    <2>3. SubSeq(t, 1, Len(t)) = t
      BY <2>1, SubSeqFull
    <2> QED BY <2>2, <2>3
  <1> QED BY <1>3, <1>4

\* Splitting in two portions: the last part of the first goes on in the second.
THEOREM SplitConcat ==
    ASSUME NEW s \in Texts, NEW t \in Texts
    PROVE  Split(s \o t) = Front(Split(s)) \o Split(Last(Split(s)) \o t)
  <1> DEFINE first(m) == SubSeq(t, 1, m)  F == Front(Split(s))  L == Last(Split(s))
             S == {m \in Nat : m <= Len(t) => Split(s \o first(m)) = F \o Split(L \o first(m))}
  <1>1. /\ Split(s) \in Parts /\ F \in Seq(Texts) /\ L \in Texts /\ Split(s) = Append(F, L)
        /\ ~Contains(L, Delimiter)
    <2>1. Split(s) \in Parts /\ \A i \in 1..Len(Split(s)) : ~Contains(Split(s)[i], Delimiter)
      BY SplitProperties DEF Parts, Texts
    <2> QED BY <2>1, PartsFrontLast
  <1> HIDE DEF F, L
  <1>2. 0 \in S
    <2>1. first(0) = <<>>
      BY SubSeqEmpty
    <2>2. s \o <<>> = s /\ L \o <<>> = L
      BY <1>1, ConcatEmptySeq DEF Texts
    <2>3. Split(L) = <<L>>
      BY <1>1, SplitUndelimited
    <2>4. F \o <<L>> = Append(F, L)
      BY <1>1, AppendIsConcat
    <2> QED BY <1>1, <2>1, <2>2, <2>3, <2>4
  <1>3. ASSUME NEW m \in Nat, m \in S PROVE m + 1 \in S
    <2> SUFFICES ASSUME m + 1 <= Len(t)
                 PROVE  Split(s \o first(m + 1)) = F \o Split(L \o first(m + 1))
      OBVIOUS
    <2> DEFINE x == first(m)  b == t[m + 1]
    <2>1. x \in Texts /\ b \in Bytes /\ first(m + 1) = Append(x, b)
      BY FirstBytes
    <2>2. Split(s \o x) = F \o Split(L \o x)
      BY <1>3
    <2> HIDE DEF x, b
    <2>3. s \o Append(x, b) = Append(s \o x, b) /\ L \o Append(x, b) = Append(L \o x, b)
      BY <1>1, <2>1, ConcatAppend DEF Texts
    <2>4. s \o x \in Texts /\ L \o x \in Texts
      BY <1>1, <2>1, ConcatProperties DEF Texts
    <2> DEFINE u == s \o x  v == L \o x
    <2> HIDE DEF u, v
    <2>5. Split(Append(u, b)) = Extended(Split(u), b) /\ Split(Append(v, b)) = Extended(Split(v), b)
          /\ Split(v) \in Parts
      BY <2>1, <2>4, SplitAppend DEF u, v
    <2> DEFINE p == Split(v)
    <2> HIDE DEF p
    <2>6. Extended(F \o p, b) = F \o Extended(p, b)
      BY <1>1, <2>1, <2>5, ExtendedLater DEF p
    <2> QED BY <2>1, <2>2, <2>3, <2>5, <2>6 DEF u, v, p
  <1>4. Nat \subseteq S
    <2> HIDE DEF S
    <2> QED BY <1>2, <1>3, Induction
  <1>5. Len(t) \in Nat /\ Len(t) <= Len(t) /\ first(Len(t)) = t
    <2>1. t \in Seq(Bytes)
      BY DEF Texts
    <2>2. Len(t) \in Nat /\ Len(t) <= Len(t)
      BY <2>1
    <2>3. SubSeq(t, 1, Len(t)) = t
      BY <2>1, SubSeqFull
    <2> QED BY <2>2, <2>3
  <1> QED BY <1>4, <1>5 DEF F, L

\* The first lines of some.
LEMMA FirstOf ==
    ASSUME NEW lines \in Seq(Texts), NEW m \in Nat, m <= Len(lines)
    PROVE  /\ SubSeq(lines, 1, m) \in Seq(Texts) /\ Len(SubSeq(lines, 1, m)) = m
           /\ \A i \in 1..m : SubSeq(lines, 1, m)[i] = lines[i]
  <1> DEFINE f == SubSeq(lines, 1, m)
  <1>1. \A i \in 1..m : lines[i] \in Texts
    BY ElementOfSeq
  <1>2. /\ f \in Seq(Texts) /\ Len(f) = (IF 1 <= m THEN m - 1 + 1 ELSE 0)
        /\ \A i \in 1..(m - 1 + 1) : f[i] = lines[1 + i - 1]
    BY <1>1, SubSeqProperties
  <1> HIDE DEF f
  <1>3. Len(f) = m
    BY <1>2
  <1>4. ASSUME NEW i \in 1..m PROVE f[i] = lines[i]
    <2>1. i \in 1..(m - 1 + 1) /\ 1 + i - 1 = i
      OBVIOUS
    <2> QED BY <1>2, <2>1
  <1> QED BY <1>2, <1>3, <1>4 DEF f

\* Lines none of which ends the reading.
Fine(lines) ==
    \A i \in 1..Len(lines) : Len(lines[i]) <= MaxLength /\ ~Closes(lines[i])

\* Fine lines are handed on, and then what follows them is.
LEMMA HandledConcat ==
    ASSUME NEW a \in Seq(Texts), NEW b \in Seq(Texts), Fine(a)
    PROVE  Handled(a \o b) = a \o Handled(b)
  <1> DEFINE c == a \o b
  <1>1. /\ c \in Seq(Texts) /\ Len(c) = Len(a) + Len(b) /\ Len(a) \in Nat /\ Len(b) \in Nat
        /\ \A i \in 1..(Len(a) + Len(b)) : c[i] = IF i <= Len(a) THEN a[i] ELSE b[i - Len(a)]
    BY ConcatProperties
  <1> HIDE DEF c
  <1>2. PICK n \in Nat : /\ Handled(c) = SubSeq(c, 1, n) /\ Admits(c, n)
                         /\ \A k \in Nat : Admits(c, k) => k <= n
    BY <1>1, HandledMost
  <1>3. PICK m \in Nat : /\ Handled(b) = SubSeq(b, 1, m) /\ Admits(b, m)
                         /\ \A k \in Nat : Admits(b, k) => k <= m
    BY HandledMost
  <1>4. Admits(c, Len(a) + m)
    <2>1. m <= Len(b) /\ Len(a) + m \in 0..Len(c)
      BY <1>1, <1>3 DEF Admits
    <2>2. ASSUME NEW i \in 1..(Len(a) + m)
          PROVE  /\ Len(c[i]) <= MaxLength
                 /\ i # Len(a) + m => ~Closes(c[i])
      <3>1. CASE i <= Len(a)
        <4>1. i \in 1..Len(a) /\ c[i] = a[i]
          BY <1>1, <2>1, <3>1
        <4> QED BY <4>1 DEF Fine
      <3>2. CASE ~(i <= Len(a))
        <4>1. i - Len(a) \in 1..m /\ c[i] = b[i - Len(a)]
          BY <1>1, <2>1, <3>2
        <4>2. i # Len(a) + m => i - Len(a) \in 1..(m - 1)
          BY <1>1, <4>1
        <4> QED BY <1>3, <4>1, <4>2 DEF Admits
      <3> QED BY <3>1, <3>2
    <2>3. \A i \in 1..(Len(a) + m - 1) : i \in 1..(Len(a) + m) /\ i # Len(a) + m
      BY <1>1
    <2> QED BY <2>1, <2>2, <2>3 DEF Admits
  <1>5. Len(a) + m <= n
    BY <1>1, <1>2, <1>4
  <1>6. Admits(b, n - Len(a)) /\ n - Len(a) \in Nat
    <2>1. n <= Len(c) /\ n - Len(a) \in 0..Len(b)
      BY <1>1, <1>2, <1>5 DEF Admits
    <2>2. ASSUME NEW i \in 1..(n - Len(a))
          PROVE  /\ Len(b[i]) <= MaxLength
                 /\ i # n - Len(a) => ~Closes(b[i])
      <3>1. /\ Len(a) + i \in 1..n /\ Len(a) + i \in 1..(Len(a) + Len(b))
            /\ ~(Len(a) + i <= Len(a)) /\ (Len(a) + i) - Len(a) = i
        BY <1>1, <2>1
      <3>2. c[Len(a) + i] = b[i]
        BY <1>1, <3>1
      <3>3. i # n - Len(a) => Len(a) + i \in 1..(n - 1)
        <4>1. i \in Int /\ Len(a) \in Int /\ n \in Int
          BY <1>1
        <4> QED BY <3>1, <4>1
      <3> QED BY <1>2, <3>1, <3>2, <3>3 DEF Admits
    <2>3. \A i \in 1..((n - Len(a)) - 1) : i \in 1..(n - Len(a)) /\ i # n - Len(a)
      BY <2>1
    <2> QED BY <2>1, <2>2, <2>3 DEF Admits
  <1>7. n = Len(a) + m /\ m <= Len(b)
    <2>1. n - Len(a) <= m /\ m \in 0..Len(b)
      BY <1>3, <1>6 DEF Admits
    <2>2. Len(a) \in Nat /\ Len(b) \in Nat
      BY <1>1
    <2> QED BY <1>5, <2>1, <2>2
  <1>8. /\ SubSeq(b, 1, m) \in Seq(Texts) /\ Len(SubSeq(b, 1, m)) = m
        /\ \A i \in 1..m : SubSeq(b, 1, m)[i] = b[i]
    BY <1>1, <1>7, FirstOf
  <1>9. /\ SubSeq(c, 1, n) \in Seq(Texts) /\ Len(SubSeq(c, 1, n)) = n
        /\ \A i \in 1..n : SubSeq(c, 1, n)[i] = c[i]
    BY <1>1, <1>7, FirstOf
  <1> DEFINE d == SubSeq(b, 1, m)  e == SubSeq(c, 1, n)  w == a \o d
  <1> HIDE DEF d, e
  <1>10. /\ w \in Seq(Texts) /\ Len(w) = Len(a) + m
         /\ \A i \in 1..(Len(a) + m) : w[i] = IF i <= Len(a) THEN a[i] ELSE d[i - Len(a)]
    <2>1. d \in Seq(Texts) /\ Len(d) = m
      BY <1>8 DEF d
    <2> QED BY <2>1, ConcatProperties
  <1> HIDE DEF w
  <1>11. ASSUME NEW i \in 1..n PROVE e[i] = w[i]
    <2>1. e[i] = c[i] /\ i \in 1..(Len(a) + Len(b)) /\ i \in 1..(Len(a) + m)
      BY <1>1, <1>7, <1>9 DEF e
    <2>2. CASE i <= Len(a)
      BY <1>1, <1>10, <2>1, <2>2
    <2>3. CASE ~(i <= Len(a))
      <3>1. i - Len(a) \in 1..m /\ c[i] = b[i - Len(a)] /\ w[i] = d[i - Len(a)]
        BY <1>1, <1>10, <2>1, <2>3
      <3> QED BY <1>8, <2>1, <3>1 DEF d
    <2> QED BY <2>2, <2>3
  <1>12. e = w
    <2>1. e \in Seq(Texts) /\ Len(e) = n
      BY <1>9 DEF e
    <2>2. Len(w) = n
      BY <1>7, <1>10
    <2> QED BY <1>10, <1>11, <2>1, <2>2, SeqEqual
  <1> QED BY <1>2, <1>3, <1>12 DEF c, d, e, w

\* A text that ends the reading: a line that is too long or that closes, or more
\* of a line than a line may be.
Shuts(text) ==
    LET lines == Front(Split(text))
        handled == Handled(lines)
    IN  \/ handled # lines
        \/ handled # <<>> /\ Closes(Last(handled))
        \/ Len(Last(Split(text))) > MaxLength

\* data_received: chunks do not matter.  The lines handed on, and whether the
\* connection closes, are what they would be had all that is sent come at once.
ChunksDoNotMatter ==
    /\ received = Handled(Front(Split(Sent)))
    /\ closing = Shuts(Sent)

\* An open connection has read all: its lines, none of which ended the reading,
\* and its buffer are the parts of what is sent.
AllRead ==
    ~closing => /\ received = Front(Split(Sent)) /\ buffer = Last(Split(Sent))
                /\ Fine(received)

\* Nothing of nothing.
LEMMA NothingRead ==
    /\ Split(<<>>) = << <<>> >> /\ <<>> \in Texts
    /\ Front(Split(<<>>)) = <<>> /\ Last(Split(<<>>)) = <<>>
    /\ Handled(<<>>) = <<>>
  <1>1. <<>> \in Texts /\ ~Contains(<<>>, Delimiter)
    BY DEF Texts, Contains
  <1>2. Split(<<>>) = << <<>> >>
    BY <1>1, SplitUndelimited
  <1> DEFINE p == << <<>> >>
  <1>3. p \in Parts /\ Len(p) = 1 /\ p[1] = <<>>
    BY <1>1 DEF Parts
  <1> HIDE DEF p
  <1>4. Front(p) \in Seq(Texts) /\ Len(Front(p)) = 0 /\ Last(p) = <<>>
    BY <1>3, PartsFrontLast
  <1>5. Front(p) = <<>>
    BY <1>4, EmptySeq
  <1>6. Handled(<<>>) = <<>>
    <2>1. <<>> \in Seq(Texts) /\ Len(<<>>) = 0
      OBVIOUS
    <2>2. PICK n \in 0..0 : Handled(<<>>) = SubSeq(<<>>, 1, n)
      BY <2>1, HandledProperties
    <2> QED BY <2>2, SubSeqEmpty
  <1> QED BY <1>1, <1>2, <1>4, <1>5, <1>6 DEF p

\* Parts after others: the last is the last of them.
LEMMA FrontLastOfConcat ==
    ASSUME NEW a \in Seq(Texts), NEW p \in Parts
    PROVE  a \o p \in Parts /\ Front(a \o p) = a \o Front(p) /\ Last(a \o p) = Last(p)
  <1> DEFINE c == a \o p  F == Front(p)  L == Last(p)
  <1>1. /\ p \in Seq(Texts) /\ F \in Seq(Texts) /\ L \in Texts /\ p = Append(F, L)
        /\ Len(p) \in Nat \ {0}
    BY PartsFrontLast DEF Parts
  <1> HIDE DEF F, L
  <1>2. c = Append(a \o F, L)
    <2>1. a \o Append(F, L) = Append(a \o F, L)
      BY <1>1, ConcatAppend
    <2> QED BY <1>1, <2>1
  <1>3. c \in Parts /\ Len(c) \in Nat \ {0}
    <2>1. c \in Seq(Texts) /\ Len(c) = Len(a) + Len(p) /\ Len(a) \in Nat
      BY <1>1, ConcatProperties
    <2> HIDE DEF c
    <2>2. Len(c) # 0
      BY <1>1, <2>1
    <2> QED BY <1>1, <2>1, <2>2, EmptySeq DEF Parts
  <1> HIDE DEF c
  <1>4. Front(c) \in Seq(Texts) /\ Last(c) \in Texts /\ c = Append(Front(c), Last(c))
    BY <1>3, PartsFrontLast
  <1> DEFINE w == a \o F
  <1>5. w \in Seq(Texts)
    BY <1>1, ConcatProperties
  <1>6. c = Append(w, L)
    BY <1>2
  <1> DEFINE f == Front(c)  l == Last(c)
  <1> HIDE DEF w, f, l
  <1>7. f = w /\ l = L
    BY <1>1, <1>4, <1>5, <1>6, AppendInjective DEF f, l
  <1> QED BY <1>3, <1>7 DEF c, F, L, w, f, l

\* What is appended ends the whole as it ends itself.
LEMMA LastOfConcat ==
    ASSUME NEW a \in Seq(Texts), NEW b \in Seq(Texts)
    PROVE  /\ a \o b \in Seq(Texts)
           /\ b # <<>> => a \o b # <<>> /\ Last(a \o b) = Last(b)
           /\ b = <<>> => a \o b = a
           /\ Fine(a) => (a # <<>> => ~Closes(Last(a)))
           /\ Fine(a) /\ Fine(b) => Fine(a \o b)
  <1> DEFINE c == a \o b
  <1>1. /\ c \in Seq(Texts) /\ Len(c) = Len(a) + Len(b) /\ Len(a) \in Nat /\ Len(b) \in Nat
        /\ \A i \in 1..(Len(a) + Len(b)) : c[i] = IF i <= Len(a) THEN a[i] ELSE b[i - Len(a)]
    BY ConcatProperties
  <1>2. b = <<>> => c = a
    BY ConcatEmptySeq
  <1> HIDE DEF c
  <1>3. b # <<>> => Len(b) \in Nat \ {0}
    BY EmptySeq
  <1>4. ASSUME b # <<>> PROVE c # <<>> /\ Last(c) = Last(b)
    <2>1. /\ Len(a) + Len(b) \in 1..(Len(a) + Len(b)) /\ ~(Len(a) + Len(b) <= Len(a))
          /\ (Len(a) + Len(b)) - Len(a) = Len(b)
      BY <1>1, <1>3, <1>4
    <2>2. c[Len(c)] = b[Len(b)] /\ Len(c) # 0
      BY <1>1, <2>1
    <2> QED BY <1>1, <2>2, EmptySeq DEF Last
  <1>5. ASSUME Fine(a), a # <<>> PROVE ~Closes(Last(a))
    <2>1. Len(a) \in 1..Len(a)
      BY <1>1, <1>5, EmptySeq
    <2> QED BY <1>5, <2>1 DEF Fine, Last
  <1>6. ASSUME Fine(a), Fine(b), NEW i \in 1..Len(c)
        PROVE  Len(c[i]) <= MaxLength /\ ~Closes(c[i])
    <2>1. CASE i <= Len(a)
      <3>1. i \in 1..Len(a) /\ c[i] = a[i]
        BY <1>1, <2>1
      <3> QED BY <1>6, <3>1 DEF Fine
    <2>2. CASE ~(i <= Len(a))
      <3>1. i - Len(a) \in 1..Len(b) /\ c[i] = b[i - Len(a)]
        BY <1>1, <2>2
      <3> QED BY <1>6, <3>1 DEF Fine
    <2> QED BY <2>1, <2>2
  <1>7. Fine(a) /\ Fine(b) => Fine(c)
    BY <1>6 DEF Fine
  <1> QED BY <1>1, <1>2, <1>4, <1>5, <1>7 DEF c

\* Lines all of which are handed on, the last of which does not close, are fine.
LEMMA AllHandledAreFine ==
    ASSUME NEW lines \in Seq(Texts), Handled(lines) = lines,
           lines # <<>> => ~Closes(Last(lines))
    PROVE  Fine(lines)
  <1> DEFINE N == Len(lines)
  <1>1. PICK n \in Nat : Handled(lines) = SubSeq(lines, 1, n) /\ Admits(lines, n)
    BY HandledMost
  <1>2. n <= N /\ N \in Nat
    BY <1>1 DEF Admits
  <1>3. Len(SubSeq(lines, 1, n)) = n
    BY <1>2, FirstOf
  <1>4. n = N
    BY <1>1, <1>3
  <1>5. ASSUME NEW i \in 1..N PROVE Len(lines[i]) <= MaxLength /\ ~Closes(lines[i])
    <2>1. Len(lines[i]) <= MaxLength
      BY <1>1, <1>4 DEF Admits
    <2>2. CASE i = N
      <3>1. lines # <<>>
        BY <1>2, <2>2, EmptySeq
      <3> QED BY <2>1, <2>2, <3>1 DEF Last
    <2>3. CASE i # N
      <3>1. i \in 1..(N - 1)
        BY <1>2, <2>3
      <3> QED BY <1>1, <1>4, <2>1, <3>1 DEF Admits
    <2> QED BY <2>2, <2>3
  <1> QED BY <1>5 DEF Fine

\* The next chunk is read as if it had come with all that came before it.
LEMMA ChunkReadsOn ==
    ASSUME LineInv, ChunksDoNotMatter, AllRead,
           NEW n \in 1..(StreamLength - position), DataReceived(n)
    PROVE  ChunksDoNotMatter' /\ AllRead'
  <1> DEFINE data == SubSeq(stream, position + 1, position + n)
             Q == Split(buffer \o data)
             lines == Front(Q)
             handled == Handled(lines)
  <1>1. /\ ~closing /\ buffer' = Last(Q) /\ received' = received \o handled
        /\ closing' = (\/ handled # lines
                       \/ handled # <<>> /\ Closes(Last(handled))
                       \/ Len(buffer') > MaxLength)
    BY DEF DataReceived
  <1>2. data \in Texts /\ Sent \in Texts /\ Sent' = Sent \o data
    BY SentGrows DEF Texts
  <1> HIDE DEF data
  <1>3. /\ received = Front(Split(Sent)) /\ buffer = Last(Split(Sent)) /\ Fine(received)
        /\ buffer \in Texts /\ received \in Seq(Texts)
    BY <1>1 DEF AllRead, LineInv, TypeOK, Texts
  <1>4. Split(Sent \o data) = received \o Q
    <2> DEFINE s == Sent
    <2>1. s \in Texts
      BY <1>2
    <2> HIDE DEF s
    <2>2. Split(s \o data) = Front(Split(s)) \o Split(Last(Split(s)) \o data)
      BY <1>2, <2>1, SplitConcat
    <2> QED BY <1>3, <2>2 DEF s
  <1>5. Q \in Parts
    <2>1. buffer \o data \in Texts
      BY <1>2, <1>3, ConcatProperties DEF Texts
    <2> QED BY <2>1, SplitProperties DEF Parts, Texts
  <1> HIDE DEF Q
  <1>6. Front(received \o Q) = received \o lines /\ Last(received \o Q) = Last(Q)
    BY <1>3, <1>5, FrontLastOfConcat
  <1>7. lines \in Seq(Texts)
    BY <1>5, PartsFrontLast
  <1> HIDE DEF lines
  <1>8. Handled(received \o lines) = received \o handled /\ handled \in Seq(Texts)
    <2>1. PICK m \in Nat : handled = SubSeq(lines, 1, m) /\ Admits(lines, m)
      BY <1>7, HandledMost
    <2>2. m <= Len(lines)
      BY <2>1 DEF Admits
    <2> QED BY <1>3, <1>7, <2>1, <2>2, FirstOf, HandledConcat
  <1> HIDE DEF handled
  <1>9. Front(Split(Sent')) = received \o lines /\ Last(Split(Sent')) = buffer'
    BY <1>1, <1>2, <1>4, <1>6
  <1>10. Handled(Front(Split(Sent'))) = received'
    BY <1>1, <1>8, <1>9
  <1>11. received' # received \o lines <=> handled # lines
    <2>1. received \o handled = received \o lines => handled = lines
      <3>1. \A S : \A s, t, v \in Seq(S) : s \o t = s \o v => t = v
        BY ConcatSimplifications
      <3> QED BY <1>3, <1>7, <1>8, <3>1
    <2> QED BY <1>1, <2>1
  <1>12. received' # <<>> /\ Closes(Last(received')) <=> handled # <<>> /\ Closes(Last(handled))
    <2>1. CASE handled = <<>>
      <3>1. received' = received
        BY <1>1, <1>3, <1>8, <2>1, LastOfConcat
      <3> QED BY <1>3, <2>1, <3>1, LastOfConcat
    <2>2. CASE handled # <<>>
      BY <1>1, <1>3, <1>8, <2>2, LastOfConcat
    <2> QED BY <2>1, <2>2
  <1>13. Shuts(Sent') = closing'
    <2>1. Shuts(Sent') = (\/ received' # received \o lines
                          \/ received' # <<>> /\ Closes(Last(received'))
                          \/ Len(buffer') > MaxLength)
      BY <1>9, <1>10, Zenon DEF Shuts
    <2> QED BY <1>1, <1>11, <1>12, <2>1, Zenon
  <1>14. ASSUME ~closing' PROVE received' = Front(Split(Sent')) /\ Fine(received')
    <2>1. handled = lines /\ ~(handled # <<>> /\ Closes(Last(handled)))
      BY <1>1, <1>14
    <2>2. Fine(lines)
      BY <1>7, <2>1, AllHandledAreFine DEF handled
    <2>3. Fine(received \o lines)
      BY <1>3, <1>7, <2>2, LastOfConcat
    <2> QED BY <1>1, <1>9, <2>1, <2>3
  <1> QED BY <1>9, <1>10, <1>13, <1>14 DEF ChunksDoNotMatter, AllRead, Shuts, Sent

\* data_received: chunks do not matter, for any stream and any limit.
THEOREM ChunksNeverMatter == Spec => []ChunksDoNotMatter
  <1> DEFINE Inv == LineInv /\ ChunksDoNotMatter /\ AllRead
  <1>1. Init => Inv
    <2> SUFFICES ASSUME Init PROVE Inv
      OBVIOUS
    <2>1. Sent = <<>> /\ received = <<>> /\ buffer = <<>> /\ closing = FALSE
      BY SubSeqEmpty DEF Init, Sent
    <2>2. ~Shuts(<<>>)
      <3>1. Len(<<>>) = 0 /\ ~(0 > MaxLength)
        BY LineAssumption
      <3> QED BY <3>1, NothingRead DEF Shuts
    <2>3. ChunksDoNotMatter
      BY <2>1, <2>2, NothingRead DEF ChunksDoNotMatter, Shuts
    <2>4. AllRead
      BY <2>1, NothingRead DEF AllRead, Fine
    <2> QED BY <2>3, <2>4, LineInvInit
  <1>2. Inv /\ [Next]_vars => Inv'
    <2> SUFFICES ASSUME Inv, [Next]_vars PROVE Inv'
      OBVIOUS
    <2>1. CASE Next
      BY <2>1, DataReceivedKeeps, ChunkReadsOn DEF Next
    <2>2. CASE UNCHANGED vars
      BY <2>2 DEF vars, LineInv, TypeOK, LinesAreTheStream, ClosesWhereItMust, Sent,
                  ChunksDoNotMatter, AllRead, Shuts
    <2> QED BY <2>1, <2>2
  <1>3. Inv => ChunksDoNotMatter
    OBVIOUS
  <1> QED BY <1>1, <1>2, <1>3, PTL DEF Spec
=============================================================================
