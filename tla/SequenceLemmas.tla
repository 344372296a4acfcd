--------------------------- MODULE SequenceLemmas ----------------------------
(****************************************************************************)
(* What the proofs about streams need to know of FlattenSeq, the joined     *)
(* payloads of a stream (bytes.Join of internal/bridge/interceptors.go):    *)
(* its type, and that a payload read after the others is joined at the end. *)
(*                                                                          *)
(* FlattenSeq is defined by a recursive function.  That there is such a     *)
(* function is an induction on the length of the sequence, written here for *)
(* sets of numbers instead of predicates: a set that holds 0 and, with a    *)
(* number, its successor holds every number.                                *)
(****************************************************************************)
EXTENDS SequencesExt, Integers, SequenceTheorems, WellFoundedInduction, TLAPS

\* A set of natural numbers that is not empty has a least member.
LEMMA LeastElement ==
    ASSUME NEW T \in SUBSET Nat, T # {}
    PROVE  \E n \in T : \A m \in T : n <= m
<1> DEFINE R == {ss \in Nat \X Nat : ss[1] < ss[2]}
<1>1. IsWellFoundedOn(R, Nat)
    BY NatLessThanWellFounded DEF OpToRel
<1>2. \E x \in T : \A y \in T : ~(<<y, x>> \in R)
    <2> HIDE DEF R
    <2> QED
        BY <1>1, WFMin
<1>3. PICK x \in T : \A y \in T : ~(<<y, x>> \in R)
    BY <1>2
<1>4. ASSUME NEW y \in T PROVE x <= y
    <2>1. x \in Nat /\ y \in Nat
        OBVIOUS
    <2>2. ~(<<y, x>> \in R)
        BY <1>3
    <2>3. ~(y < x)
        BY <2>1, <2>2
    <2> QED
        BY <2>1, <2>3
<1> QED
    BY <1>4

\* The induction over the natural numbers, for a set of them.
LEMMA Induction ==
    ASSUME NEW T, 0 \in T, \A n \in Nat : n \in T => n + 1 \in T
    PROVE  Nat \subseteq T
<1> DEFINE R == Nat \ T
<1>1. CASE R # {}
    <2>1. PICK n \in R : \A m \in R : n <= m
       BY <1>1, LeastElement
    <2>2. n # 0 /\ n - 1 \in Nat
       OBVIOUS
    <2>3. n - 1 \in T
       BY <2>1, <2>2
    <2> QED
        BY <2>2, <2>3
<1> QED
    BY <1>1

-----------------------------------------------------------------------------
(* The recursion.                                                           *)

\* What FlattenSeq computes on the way: the first i sequences joined.
JoinsUpTo(seqs, n, g) == g = [i \in 1..n |-> IF i = 1 THEN seqs[i] ELSE g[i - 1] \o seqs[i]]

Joins(seqs, g) == JoinsUpTo(seqs, Len(seqs), g)

\* One value of such a function follows from the one before.
LEMMA NextJoin ==
    ASSUME NEW seqs, NEW n \in Nat, NEW g, JoinsUpTo(seqs, n, g), NEW i \in Nat, i + 1 \in 1..n
    PROVE  g[i + 1] = IF i = 0 THEN seqs[1] ELSE g[i] \o seqs[i + 1]
<1>1. g[i + 1] = IF i + 1 = 1 THEN seqs[i + 1] ELSE g[(i + 1) - 1] \o seqs[i + 1]
    BY DEF JoinsUpTo
<1>2. (i + 1) - 1 = i /\ (i + 1 = 1 <=> i = 0)
    OBVIOUS
<1> QED
    BY <1>1, <1>2

\* There is such a function, and its values are sequences over the same set.
LEMMA JoinsExist ==
    ASSUME NEW S, NEW seqs \in Seq(Seq(S))
    PROVE  \E g \in [1..Len(seqs) -> Seq(S)] : Joins(seqs, g)
<1> DEFINE T == {n \in Nat : n <= Len(seqs) => \E g \in [1..n -> Seq(S)] : JoinsUpTo(seqs, n, g)}
<1>0. Len(seqs) \in Nat /\ \A i \in 1..Len(seqs) : seqs[i] \in Seq(S)
    OBVIOUS
<1>1. 0 \in T
    <2> DEFINE g == [i \in 1..0 |-> <<>>]
    <2>1. g \in [1..0 -> Seq(S)] /\ JoinsUpTo(seqs, 0, g)
        BY DEF JoinsUpTo
    <2> QED
        BY <2>1
<1>2. ASSUME NEW n \in T, n + 1 <= Len(seqs) PROVE \E g \in [1..n + 1 -> Seq(S)] : JoinsUpTo(seqs, n + 1, g)
    <2>1. PICK g \in [1..n -> Seq(S)] : JoinsUpTo(seqs, n, g)
        <3>1. n \in Nat /\ n <= Len(seqs)
            BY <1>0, <1>2
        <3> QED
            BY <1>2, <3>1
    <2> DEFINE h == [i \in 1..n + 1 |-> IF i = 1 THEN seqs[i]
                                        ELSE IF i = n + 1 THEN g[n] \o seqs[n + 1] ELSE g[i]]
    <2>2. \A i \in 1..n + 1 : seqs[i] \in Seq(S)
        BY <1>0, <1>2
    <2>3. h \in [1..n + 1 -> Seq(S)]
        <3>1. ASSUME NEW i \in 1..n + 1 PROVE h[i] \in Seq(S)
            <4>1. CASE i = 1
                BY <2>2, <4>1
            <4>2. CASE i # 1 /\ i = n + 1
                BY <2>2, <4>2, ConcatProperties
            <4>3. CASE i # 1 /\ i # n + 1
                BY <4>3
            <4> QED
                BY <4>1, <4>2, <4>3
        <3> QED
            BY <3>1
    <2>4. \A i \in 1..n : h[i] = g[i]
        <3>1. ASSUME NEW i \in 1..n PROVE h[i] = g[i]
            <4>1. n \in Nat /\ i \in 1..n + 1 /\ i # n + 1
                BY <1>2
            <4>2. g[i] = IF i = 1 THEN seqs[i] ELSE g[i - 1] \o seqs[i]
                BY <2>1 DEF JoinsUpTo
            <4> QED
                BY <4>1, <4>2
        <3> QED
            BY <3>1
    <2>5. ASSUME NEW i \in 1..n + 1
          PROVE  h[i] = IF i = 1 THEN seqs[i] ELSE h[i - 1] \o seqs[i]
        <3>1. CASE i = 1
            BY <3>1
        <3>2. CASE i # 1 /\ i = n + 1
            <4>1. n \in Nat /\ n \in 1..n /\ i - 1 = n
                BY <1>2, <3>2
            <4>2. h[n] = g[n]
                BY <2>4, <4>1
            <4>3. h[n + 1] = g[n] \o seqs[n + 1]
                BY <3>2, <4>1
            <4> QED
                BY <3>2, <4>1, <4>2, <4>3
        <3>3. CASE i # 1 /\ i # n + 1
            <4>1. i \in 1..n /\ i - 1 \in 1..n
                BY <1>2, <3>3
            <4>2. g[i] = g[i - 1] \o seqs[i]
                BY <2>1, <3>3, <4>1 DEF JoinsUpTo
            <4> QED
                BY <2>4, <3>3, <4>1, <4>2
        <3> QED
            BY <3>1, <3>2, <3>3
    <2>6. JoinsUpTo(seqs, n + 1, h)
        <3> HIDE DEF h
        <3>1. h = [i \in 1..n + 1 |-> h[i]]
            BY <2>3
        <3> QED
            BY <2>5, <3>1 DEF JoinsUpTo
    <2> QED
        BY <2>3, <2>6
<1>3. \A n \in Nat : n \in T => n + 1 \in T
    <2>1. ASSUME NEW n \in Nat, n \in T PROVE n + 1 \in T
        <3>1. n + 1 <= Len(seqs) => \E g \in [1..n + 1 -> Seq(S)] : JoinsUpTo(seqs, n + 1, g)
            BY <1>2, <2>1
        <3> QED
            BY <2>1, <3>1
    <2> QED
        BY <2>1
<1>4. Len(seqs) \in T
    <2> HIDE DEF T
    <2> QED
        BY <1>0, <1>1, <1>3, Induction
<1> QED
    BY <1>0, <1>4 DEF Joins

\* There is only one, and it does not depend on what follows.
LEMMA JoinsUnique ==
    ASSUME NEW m \in Nat, NEW n \in Nat, m <= n, NEW seqs, NEW more,
           NEW g, JoinsUpTo(seqs, m, g), NEW h, JoinsUpTo(more, n, h),
           \A i \in 1..m : more[i] = seqs[i]
    PROVE  \A i \in 1..m : h[i] = g[i]
<1> DEFINE T == {i \in Nat : i \in 1..m => h[i] = g[i]}
<1>1. 0 \in T
    OBVIOUS
<1>2. ASSUME NEW i \in T, i + 1 \in 1..m PROVE h[i + 1] = g[i + 1]
    <2>0. i \in Nat /\ i + 1 \in 1..n /\ (i # 0 => i \in 1..m)
        BY <1>2
    <2>1. g[i + 1] = IF i = 0 THEN seqs[1] ELSE g[i] \o seqs[i + 1]
        BY <1>2, <2>0, NextJoin
    <2>2. h[i + 1] = IF i = 0 THEN more[1] ELSE h[i] \o more[i + 1]
        BY <2>0, NextJoin
    <2>3. more[i + 1] = seqs[i + 1]
        BY <1>2
    <2>4. CASE i = 0
        BY <2>1, <2>2, <2>3, <2>4
    <2>5. CASE i # 0
        <3>1. h[i] = g[i]
            BY <1>2, <2>0, <2>5
        <3> QED
            BY <2>1, <2>2, <2>3, <2>5, <3>1
    <2> QED
        BY <2>4, <2>5
<1>3. \A i \in Nat : i \in T => i + 1 \in T
    BY <1>2
<1>4. Nat \subseteq T
    <2> HIDE DEF T
    <2> QED
        BY <1>1, <1>3, Induction
<1> QED
    BY <1>4

\* So it grows with the sequence.
LEMMA JoinsGrow ==
    ASSUME NEW seqs, NEW more, Len(seqs) \in Nat, Len(more) \in Nat, Len(seqs) <= Len(more),
           NEW g, Joins(seqs, g), NEW h, Joins(more, h), \A i \in 1..Len(seqs) : more[i] = seqs[i]
    PROVE  \A i \in 1..Len(seqs) : h[i] = g[i]
BY JoinsUnique DEF Joins

\* FlattenSeq takes the last value of that function.
LEMMA FlattenIsJoin ==
    ASSUME NEW S, NEW seqs \in Seq(Seq(S)), seqs # <<>>,
           NEW g, Joins(seqs, g)
    PROVE  FlattenSeq(seqs) = g[Len(seqs)]
<1> DEFINE f == CHOOSE f : f = [i \in 1..Len(seqs) |-> IF i = 1 THEN seqs[i] ELSE f[i - 1] \o seqs[i]]
<1>1. FlattenSeq(seqs) = f[Len(seqs)]
    BY DEF FlattenSeq
<1>2. Joins(seqs, f)
    BY DEF Joins, JoinsUpTo
<1>3. Len(seqs) \in 1..Len(seqs)
    OBVIOUS
<1> QED
    <2> HIDE DEF f
    <2> QED
        <3>1. Len(seqs) \in Nat /\ Len(seqs) <= Len(seqs)
            OBVIOUS
        <3>2. \A i \in 1..Len(seqs) : f[i] = g[i]
            BY <1>2, <3>1, JoinsUnique DEF Joins
        <3> QED
            BY <1>1, <1>3, <3>2

-----------------------------------------------------------------------------
(* What the other proofs cite.                                              *)

\* The joined payloads are a chunk again.
LEMMA FlattenType ==
    ASSUME NEW S, NEW seqs \in Seq(Seq(S))
    PROVE  FlattenSeq(seqs) \in Seq(S)
<1>1. CASE seqs = <<>>
    BY <1>1 DEF FlattenSeq
<1>2. CASE seqs # <<>>
    <2>1. PICK g \in [1..Len(seqs) -> Seq(S)] : Joins(seqs, g)
        BY JoinsExist
    <2>2. Len(seqs) \in 1..Len(seqs)
        BY <1>2
    <2>3. FlattenSeq(seqs) = g[Len(seqs)]
        BY <1>2, <2>1, FlattenIsJoin
    <2>4. g[Len(seqs)] \in Seq(S)
        BY <2>1, <2>2
    <2> QED
        BY <2>3, <2>4
<1> QED
    BY <1>1, <1>2

\* A sequence that has one more member joins to that much more.
LEMMA FlattenGrows ==
    ASSUME NEW S, NEW seqs \in Seq(Seq(S)), NEW more, more \in Seq(Seq(S)),
           Len(more) = Len(seqs) + 1, \A i \in 1..Len(seqs) : more[i] = seqs[i]
    PROVE  FlattenSeq(more) = FlattenSeq(seqs) \o more[Len(seqs) + 1]
<1>0. Len(seqs) \in Nat /\ Len(more) \in Nat /\ more # <<>> /\ more[Len(seqs) + 1] \in Seq(S)
    OBVIOUS
<1>1. PICK h : Joins(more, h)
    BY JoinsExist
<1>2. FlattenSeq(more) = h[Len(more)]
    BY <1>0, <1>1, FlattenIsJoin
<1>3. h[Len(more)] = IF Len(seqs) = 0 THEN more[1] ELSE h[Len(seqs)] \o more[Len(seqs) + 1]
    <2>1. JoinsUpTo(more, Len(seqs) + 1, h) /\ Len(seqs) + 1 \in 1..(Len(seqs) + 1)
        BY <1>0, <1>1 DEF Joins
    <2>2. Len(seqs) + 1 \in Nat
        BY <1>0
    <2> QED
        BY <1>0, <2>1, <2>2, NextJoin
<1>4. CASE seqs = <<>>
    <2>1. FlattenSeq(seqs) = <<>> /\ Len(seqs) = 0
        BY <1>4 DEF FlattenSeq
    <2> QED
        BY <1>0, <1>2, <1>3, <2>1, ConcatEmptySeq
<1>5. CASE seqs # <<>>
    <2>1. PICK g : Joins(seqs, g)
        BY JoinsExist
    <2>2. FlattenSeq(seqs) = g[Len(seqs)]
        BY <1>5, <2>1, FlattenIsJoin
    <2>3. Len(seqs) \in 1..Len(seqs) /\ Len(seqs) <= Len(more)
        BY <1>0, <1>5
    <2>4. h[Len(seqs)] = g[Len(seqs)]
        <3> HIDE DEF Joins
        <3>1. Len(seqs) \in Nat /\ Len(more) \in Nat /\ Len(seqs) <= Len(more)
            BY <1>0, <2>3
        <3>2. \A i \in 1..Len(seqs) : more[i] = seqs[i]
            OBVIOUS
        <3>3. \A i \in 1..Len(seqs) : h[i] = g[i]
            BY ONLY <3>1, <3>2, <1>1, <2>1, JoinsGrow
        <3> QED
            BY <2>3, <3>3
    <2>5. Len(seqs) # 0
        BY <2>3
    <2> QED
        BY <1>0, <1>2, <1>3, <2>2, <2>4, <2>5
<1> QED
    BY <1>4, <1>5

\* One more payload comes after the others.
LEMMA FlattenAppend ==
    ASSUME NEW S, NEW seqs \in Seq(Seq(S)), NEW s \in Seq(S)
    PROVE  FlattenSeq(Append(seqs, s)) = FlattenSeq(seqs) \o s
<1> DEFINE more == Append(seqs, s)
<1>1. /\ more \in Seq(Seq(S)) /\ Len(more) = Len(seqs) + 1
      /\ \A i \in 1..Len(seqs) : more[i] = seqs[i]
      /\ more[Len(seqs) + 1] = s
    BY AppendProperties
<1> HIDE DEF more
<1>2. FlattenSeq(more) = FlattenSeq(seqs) \o more[Len(seqs) + 1]
    BY <1>1, FlattenGrows
<1> QED
    BY <1>1, <1>2 DEF more
=============================================================================
