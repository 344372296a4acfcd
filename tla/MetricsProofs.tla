---------------------------- MODULE MetricsProofs ----------------------------
(****************************************************************************)
(* Proofs about Metrics, for any number of handlers and of management       *)
(* requests: type correctness, that a finished reset leaves nothing of the  *)
(* time before it, that the counters add up, that the log misses no line,   *)
(* and that a snapshot counts the verdicts whose lines it shows.            *)
(****************************************************************************)
EXTENDS Metrics, SequenceTheorems, FiniteSetTheorems, TLAPS

-----------------------------------------------------------------------------
(* Data.                                                                    *)

\* The counters by name.
LEMMA CounterNames ==
    /\ Counter = {"total", "inspected", "matched", "blocked", "matchedStreaming",
                  "matchedNonStreaming", "blockedStreaming", "blockedNonStreaming"}
    /\ Counters \in Seq(Counter) /\ Len(Counters) = 8
    /\ ResetOrder \in Seq(Counter \cup {"nextLogSeq"})
    /\ \A c \in Counter \cup {"nextLogSeq"} : \E i \in DOMAIN ResetOrder : ResetOrder[i] = c
    /\ \A c \in Counter : \E i \in DOMAIN Counters : Counters[i] = c
<1>1. Counter = {"total", "inspected", "matched", "blocked", "matchedStreaming",
                 "matchedNonStreaming", "blockedStreaming", "blockedNonStreaming"}
    BY DEF Counter, Counters
<1>2. Counters \in Seq(Counter) /\ Len(Counters) = 8
    BY <1>1 DEF Counters
<1>3. \A c \in Counter : \E i \in DOMAIN Counters : Counters[i] = c
    BY <1>2 DEF Counter
<1> DEFINE all == Counter \cup {"nextLogSeq"}
<1>a. Counters \in Seq(all) /\ "nextLogSeq" \in all
    BY <1>1 DEF Counters
<1> HIDE DEF all
<1>4. /\ ResetOrder \in Seq(all)
      /\ Len(ResetOrder) = 9
      /\ \A i \in 1..8 : ResetOrder[i] = Counters[i]
      /\ ResetOrder[9] = "nextLogSeq"
    <2>1. /\ Append(Counters, "nextLogSeq") \in Seq(all)
          /\ Len(Append(Counters, "nextLogSeq")) = Len(Counters) + 1
          /\ \A i \in 1..Len(Counters) : Append(Counters, "nextLogSeq")[i] = Counters[i]
          /\ Append(Counters, "nextLogSeq")[Len(Counters) + 1] = "nextLogSeq"
        BY <1>a, AppendProperties
    <2> QED
        BY <2>1, <1>2 DEF ResetOrder
<1> USE DEF all
<1>5. \A c \in Counter \cup {"nextLogSeq"} : \E i \in DOMAIN ResetOrder : ResetOrder[i] = c
    BY <1>4 DEF Counter
<1> QED
    BY <1>1, <1>2, <1>3, <1>4, <1>5

\* Whether one of these is in a list of atomics to visit.
Has(visits, atoms) == \E i \in DOMAIN visits : visits[i] \in atoms

\* A snapshot visits every counter.
LEMMA CounterVisits ==
    /\ Counters \in Seq(Counter \cup {"nextLogSeq"})
    /\ \A c \in Counter : Has(Counters, {c})
<1>1. Counters \in Seq(Counter \cup {"nextLogSeq"})
  <2> DEFINE all == Counter \cup {"nextLogSeq"}
  <2>1. DOMAIN Counters = 1..Len(Counters) /\ Len(Counters) \in Nat /\ Counters \in Seq(Counter)
      BY CounterNames
  <2>2. \A i \in 1..Len(Counters) : Counters[i] \in all
      BY <2>1
  <2> HIDE DEF all
  <2>3. Counters \in Seq(all)
      BY <2>1, <2>2
  <2> QED
      BY <2>3 DEF all
<1>2. \A c \in Counter : \E i \in DOMAIN Counters : Counters[i] = c
    BY CounterNames
<1> QED
    BY <1>1, <1>2, Zenon DEF Has

\* What a call is made of: atomics to add to and lines to log.  Those that
\* count for its order are all but the pass lines of streams and the lines of
\* requests.
Steps  == Counter \cup LineText
Ranked == Counter \cup Inspected

\* No line is a counter.
LEMMA StepNames ==
    /\ Matches \subseteq Inspected /\ Inspected \subseteq LineText
    /\ \A c \in Counter : c \notin LineText /\ c # "nextLogSeq"
<1> USE CounterNames
<1> QED
    BY DEF Matches, Inspected, LineText

\* The place of a step in the order a handler makes them.
Rank(c) ==
    CASE c = "total" -> 1
      [] c = "inspected" -> 2
      [] c = "matched" -> 3
      [] c \in {"matchedStreaming", "matchedNonStreaming"} -> 4
      [] c = "blocked" -> 5
      [] c \in Inspected -> 7
      [] OTHER -> 6

\* A counter comes before the lines it counts.
LEMMA RankFacts ==
    /\ Rank("total") = 1 /\ Rank("inspected") = 2 /\ Rank("matched") = 3
    /\ Rank("matchedStreaming") = 4 /\ Rank("matchedNonStreaming") = 4
    /\ Rank("blocked") = 5
    /\ Rank("blockedStreaming") = 6 /\ Rank("blockedNonStreaming") = 6
    /\ \A c \in Inspected : Rank(c) = 7
    /\ \A c \in Counter : Rank(c) \in 1..6
    /\ \A c \in Ranked : Rank(c) \in 1..7
<1>1. /\ Rank("total") = 1 /\ Rank("inspected") = 2 /\ Rank("matched") = 3
      /\ Rank("matchedStreaming") = 4 /\ Rank("matchedNonStreaming") = 4
      /\ Rank("blocked") = 5
    BY DEF Rank, Inspected, Matches
<1>2. Rank("blockedStreaming") = 6 /\ Rank("blockedNonStreaming") = 6
    BY DEF Rank, Inspected, Matches
<1>3. \A c \in Inspected : Rank(c) = 7
    BY DEF Rank, Inspected, Matches
<1>4. \A c \in Counter : Rank(c) \in 1..6
    BY <1>1, <1>2, CounterNames
<1> QED
    BY <1>1, <1>2, <1>3, <1>4 DEF Ranked

Ordered(visits) ==
    \A i, j \in DOMAIN visits :
        i < j /\ visits[i] \in Ranked /\ visits[j] \in Ranked => Rank(visits[i]) < Rank(visits[j])

\* What is visited next, and what is left then.
LEMMA Visit ==
    ASSUME NEW S, NEW visits \in Seq(S), visits # <<>>
    PROVE  /\ Head(visits) \in S /\ Tail(visits) \in Seq(S)
           /\ \A atoms : Has(visits, atoms) <=> Head(visits) \in atoms \/ Has(Tail(visits), atoms)
<1>1. Len(visits) \in Nat /\ Len(visits) > 0 /\ visits[1] = Head(visits)
    OBVIOUS
<1>2. Tail(visits) \in Seq(S) /\ Len(Tail(visits)) = Len(visits) - 1
    OBVIOUS
<1>3. \A i \in 1..(Len(visits) - 1) : Tail(visits)[i] = visits[i + 1]
    OBVIOUS
<1>4. ASSUME NEW atoms
      PROVE  Has(visits, atoms) <=> Head(visits) \in atoms \/ Has(Tail(visits), atoms)
    <2>1. ASSUME Has(visits, atoms)
          PROVE  Head(visits) \in atoms \/ Has(Tail(visits), atoms)
        <3>1. PICK i \in 1..Len(visits) : visits[i] \in atoms
            BY <2>1 DEF Has
        <3>2. CASE i = 1
            BY <3>1, <3>2, <1>1
        <3>3. CASE i # 1
            <4>1. i - 1 \in 1..(Len(visits) - 1) /\ Tail(visits)[i - 1] = visits[i]
                BY <3>3, <1>1, <1>3
            <4>2. i - 1 \in DOMAIN Tail(visits) /\ Tail(visits)[i - 1] \in atoms
                BY <4>1, <3>1, <1>1, <1>2
            <4> QED
                BY <4>2 DEF Has
        <3> QED
            BY <3>2, <3>3
    <2>2. ASSUME Head(visits) \in atoms
          PROVE  Has(visits, atoms)
        BY <2>2, <1>1 DEF Has
    <2>3. ASSUME Has(Tail(visits), atoms)
          PROVE  Has(visits, atoms)
        <3>1. PICK i \in 1..(Len(visits) - 1) : Tail(visits)[i] \in atoms
            BY <2>3, <1>2 DEF Has
        <3> QED
            BY <3>1, <1>1, <1>3 DEF Has
    <2> QED
        BY <2>1, <2>2, <2>3
<1> QED
    BY <1>1, <1>2, <1>4

\* Steps in order stay so, and the next one comes before all others.
LEMMA VisitOrdered ==
    ASSUME NEW visits \in Seq(Steps), visits # <<>>, Ordered(visits)
    PROVE  /\ Ordered(Tail(visits))
           /\ Head(visits) \in Ranked =>
                 \A c \in Ranked : Rank(c) <= Rank(Head(visits)) => ~Has(Tail(visits), {c})
<1>1. Len(visits) \in Nat /\ Len(visits) > 0 /\ visits[1] = Head(visits)
    OBVIOUS
<1>2. Tail(visits) \in Seq(Steps) /\ Len(Tail(visits)) = Len(visits) - 1
    OBVIOUS
<1>3. \A i \in 1..(Len(visits) - 1) : Tail(visits)[i] = visits[i + 1]
    OBVIOUS
<1>4. Ordered(Tail(visits))
    BY <1>1, <1>2, <1>3 DEF Ordered
<1>5. ASSUME Head(visits) \in Ranked, NEW i \in 1..(Len(visits) - 1), Tail(visits)[i] \in Ranked
      PROVE  Rank(Head(visits)) < Rank(Tail(visits)[i])
    BY <1>1, <1>3, <1>5 DEF Ordered
<1>6. \A c \in Ranked : Rank(c) \in Int
    BY RankFacts
<1>7. ASSUME Head(visits) \in Ranked, NEW c \in Ranked, Rank(c) <= Rank(Head(visits)), Has(Tail(visits), {c})
      PROVE  FALSE
    <2>1. PICK i \in 1..(Len(visits) - 1) : Tail(visits)[i] = c
        BY <1>2, <1>7 DEF Has
    <2>2. Rank(Head(visits)) < Rank(c)
        BY <2>1, <1>5, <1>7
    <2> QED
        BY <2>2, <1>6, <1>7
<1> QED
    BY <1>4, <1>7

\* Two parts of a call, one after the other.
LEMMA Concatenated ==
    ASSUME NEW s \in Seq(Steps), NEW t \in Seq(Steps)
    PROVE  /\ s \o t \in Seq(Steps)
           /\ \A atoms : Has(s \o t, atoms) <=> Has(s, atoms) \/ Has(t, atoms)
           /\ /\ Ordered(s) /\ Ordered(t)
              /\ \A a, b \in Ranked : Has(s, {a}) /\ Has(t, {b}) => Rank(a) < Rank(b)
              => Ordered(s \o t)
<1> DEFINE w == s \o t
<1>1. /\ w \in Seq(Steps) /\ Len(w) = Len(s) + Len(t)
      /\ \A i \in 1..(Len(s) + Len(t)) : w[i] = IF i <= Len(s) THEN s[i] ELSE t[i - Len(s)]
    BY ConcatProperties
<1>2. /\ Len(s) \in Nat /\ Len(t) \in Nat
      /\ DOMAIN s = 1..Len(s) /\ DOMAIN t = 1..Len(t) /\ DOMAIN w = 1..(Len(s) + Len(t))
    BY <1>1
<1> HIDE DEF w
<1>3. ASSUME NEW i \in DOMAIN w
      PROVE  \/ i \in DOMAIN s /\ w[i] = s[i]
             \/ i \notin DOMAIN s /\ i - Len(s) \in DOMAIN t /\ w[i] = t[i - Len(s)]
    <2>1. i \in 1..(Len(s) + Len(t)) /\ i \in Int
        BY <1>2
    <2>2. CASE i <= Len(s)
        BY <2>1, <2>2, <1>1, <1>2
    <2>3. CASE ~(i <= Len(s))
        <3>1. i - Len(s) \in 1..Len(t) /\ i \notin 1..Len(s) /\ w[i] = t[i - Len(s)]
            BY <2>1, <2>3, <1>1, <1>2
        <3> QED
            BY <3>1, <1>2
    <2> QED
        BY <2>2, <2>3
<1>4. ASSUME NEW i \in DOMAIN s
      PROVE  i \in DOMAIN w /\ w[i] = s[i]
    BY <1>1, <1>2
<1>5. ASSUME NEW i \in DOMAIN t
      PROVE  i + Len(s) \in DOMAIN w /\ w[i + Len(s)] = t[i]
    <2>1. /\ i \in 1..Len(t) /\ i + Len(s) \in 1..(Len(s) + Len(t))
          /\ ~(i + Len(s) <= Len(s)) /\ i + Len(s) - Len(s) = i
        BY <1>2
    <2>2. w[i + Len(s)] = t[i + Len(s) - Len(s)]
        BY <2>1, <1>1
    <2> QED
        BY <2>1, <2>2, <1>2
<1>6. ASSUME NEW atoms
      PROVE  Has(w, atoms) <=> Has(s, atoms) \/ Has(t, atoms)
    <2>1. Has(w, atoms) => Has(s, atoms) \/ Has(t, atoms)
        BY <1>3 DEF Has
    <2>2. Has(s, atoms) => Has(w, atoms)
        BY <1>4 DEF Has
    <2>3. Has(t, atoms) => Has(w, atoms)
        BY <1>5 DEF Has
    <2> QED
        BY <2>1, <2>2, <2>3
<1>7. ASSUME Ordered(s), Ordered(t),
             \A a, b \in Ranked : Has(s, {a}) /\ Has(t, {b}) => Rank(a) < Rank(b),
             NEW i \in DOMAIN w, NEW j \in DOMAIN w, i < j, w[i] \in Ranked, w[j] \in Ranked
      PROVE  Rank(w[i]) < Rank(w[j])
    <2>0. i \in Int /\ j \in Int
        BY <1>2
    <2>1. CASE i \in DOMAIN s /\ j \in DOMAIN s
        BY <2>1, <1>4, <1>7 DEF Ordered
    <2>2. CASE i \in DOMAIN s /\ j \notin DOMAIN s
        <3>1. w[i] = s[i] /\ j - Len(s) \in DOMAIN t /\ w[j] = t[j - Len(s)]
            BY <2>2, <1>3
        <3>2. Has(s, {w[i]}) /\ Has(t, {w[j]})
            BY <2>2, <3>1 DEF Has
        <3> QED
            BY <3>2, <1>7
    <2>3. CASE i \notin DOMAIN s
        <3>1. j \notin DOMAIN s
            BY <2>0, <2>3, <1>2, <1>7
        <3>2. /\ i - Len(s) \in DOMAIN t /\ w[i] = t[i - Len(s)]
              /\ j - Len(s) \in DOMAIN t /\ w[j] = t[j - Len(s)]
            BY <2>3, <3>1, <1>3
        <3>3. i - Len(s) < j - Len(s)
            BY <2>0, <1>2, <1>7
        <3> QED
            BY <3>2, <3>3, <1>7 DEF Ordered
    <2> QED
        BY <2>1, <2>2, <2>3
<1>8. /\ Ordered(s) /\ Ordered(t)
      /\ \A a, b \in Ranked : Has(s, {a}) /\ Has(t, {b}) => Rank(a) < Rank(b)
      => Ordered(w)
    BY <1>7 DEF Ordered
<1> QED
    BY <1>1, <1>6, <1>8 DEF w

\* What a verdict is made of, in order.
LEMMA VerdictFacts ==
    ASSUME NEW t \in Task
    PROVE  /\ Verdict(t) \in Seq(Steps) /\ Ordered(Verdict(t))
           /\ \A atoms : Has(Verdict(t), atoms) <=>
                 \/ "inspected" \in atoms
                 \/ /\ t.matched
                    /\ \/ "matched" \in atoms \/ MatchLine(t.stream) \in atoms
                       \/ (IF t.stream THEN "matchedStreaming" ELSE "matchedNonStreaming") \in atoms
                       \/ t.blocked /\ \/ "blocked" \in atoms
                                       \/ (IF t.stream THEN "blockedStreaming" ELSE "blockedNonStreaming") \in atoms
                 \/ ~t.matched /\ t.kind = "response" /\ InspectLine(t.stream) \in atoms
<1> DEFINE m == IF t.stream THEN "matchedStreaming" ELSE "matchedNonStreaming"
           b == IF t.stream THEN "blockedStreaming" ELSE "blockedNonStreaming"
           l == MatchLine(t.stream)
           p == InspectLine(t.stream)
           ins == RecordInspectedResponse(t.matched, t.stream)
           blk == IF t.matched /\ t.blocked THEN RecordBlockedResponse(t.stream) ELSE <<>>
           lns == VerdictLines(t)
           sum == ins \o blk
<1>0. /\ {"inspected", "matched", "blocked", m, b, l, p} \subseteq Steps
      /\ Rank("inspected") = 2 /\ Rank("matched") = 3 /\ Rank(m) = 4 /\ Rank("blocked") = 5 /\ Rank(b) = 6
      /\ l \in Ranked => Rank(l) = 7
      /\ p \in Ranked => Rank(p) = 7
    <2>1. {"inspected", "matched", "blocked", m, b} \subseteq Counter
        BY CounterNames
    <2>2. l \in LineText /\ p \in LineText
        BY DEF MatchLine, InspectLine, LineText
    <2>3. \A x \in LineText : x \in Ranked => Rank(x) = 7
        BY RankFacts, StepNames DEF Ranked
    <2>4. /\ Rank("inspected") = 2 /\ Rank("matched") = 3 /\ Rank("blocked") = 5
          /\ Rank(m) = 4 /\ Rank(b) = 6
        BY RankFacts
    <2> QED
        BY <2>1, <2>2, <2>3, <2>4 DEF Steps
<1> HIDE DEF m, b, l, p
<1>1. /\ ins \in Seq(Steps) /\ Ordered(ins)
      /\ \A atoms : Has(ins, atoms) <=> \/ "inspected" \in atoms
                                        \/ t.matched /\ ("matched" \in atoms \/ m \in atoms)
    <2>1. CASE ~t.matched
        <3>1. ins = <<"inspected">>
            BY <2>1 DEF RecordInspectedResponse
        <3>2. ins \in Seq(Steps) /\ Len(ins) = 1 /\ ins[1] = "inspected"
            BY <3>1, <1>0
        <3> HIDE DEF ins
        <3>3. DOMAIN ins = 1..1
            BY <3>2
        <3>4. Ordered(ins)
            BY <3>3 DEF Ordered
        <3>5. \A atoms : Has(ins, atoms) <=> "inspected" \in atoms
            BY <3>2, <3>3 DEF Has
        <3> QED
            BY <2>1, <3>2, <3>4, <3>5
    <2>2. CASE t.matched
        <3>1. ins = <<"inspected", "matched", m>>
            BY <2>2 DEF RecordInspectedResponse, m
        <3>2. ins \in Seq(Steps) /\ Len(ins) = 3 /\ ins[1] = "inspected" /\ ins[2] = "matched" /\ ins[3] = m
            BY <3>1, <1>0
        <3> HIDE DEF ins
        <3>3. DOMAIN ins = 1..3
            BY <3>2
        <3>4. Ordered(ins)
            BY <3>2, <3>3, <1>0 DEF Ordered
        <3>5. \A atoms : Has(ins, atoms) <=> "inspected" \in atoms \/ "matched" \in atoms \/ m \in atoms
            BY <3>2, <3>3 DEF Has
        <3> QED
            BY <2>2, <3>2, <3>4, <3>5
    <2> QED
        BY <2>1, <2>2
<1>2. /\ blk \in Seq(Steps) /\ Ordered(blk)
      /\ \A atoms : Has(blk, atoms) <=> t.matched /\ t.blocked /\ ("blocked" \in atoms \/ b \in atoms)
    <2>1. CASE ~(t.matched /\ t.blocked)
        <3>1. blk = <<>>
            BY <2>1
        <3> QED
            BY <2>1, <3>1 DEF Has, Ordered
    <2>2. CASE t.matched /\ t.blocked
        <3>1. blk = <<"blocked", b>>
            BY <2>2 DEF RecordBlockedResponse, b
        <3>a. "blocked" \in Steps /\ b \in Steps
            BY <1>0
        <3> HIDE DEF blk
        <3>2. blk \in Seq(Steps) /\ Len(blk) = 2 /\ blk[1] = "blocked" /\ blk[2] = b
            BY <3>1, <3>a
        <3>3. DOMAIN blk = 1..2
            BY <3>2
        <3>4. Ordered(blk)
            BY <3>2, <3>3, <1>0 DEF Ordered
        <3>5. \A atoms : Has(blk, atoms) <=> "blocked" \in atoms \/ b \in atoms
            BY <3>2, <3>3 DEF Has
        <3> QED
            BY <2>2, <3>2, <3>4, <3>5
    <2> QED
        BY <2>1, <2>2
<1>3. /\ lns \in Seq(Steps) /\ Ordered(lns)
      /\ \A atoms : Has(lns, atoms) <=> \/ t.matched /\ l \in atoms
                                        \/ ~t.matched /\ t.kind = "response" /\ p \in atoms
    <2>1. lns \in {<<l>>, <<p>>, <<>>}
        BY DEF VerdictLines, l, p
    <2>2. lns = IF t.matched THEN <<l>> ELSE IF t.kind = "response" THEN <<p>> ELSE <<>>
        BY DEF VerdictLines, l, p
    <2> HIDE DEF lns
    <2> QED
        BY <2>1, <2>2, <1>0 DEF Has, Ordered
<1> HIDE DEF ins, blk, lns
<1>4. /\ sum \in Seq(Steps) /\ Ordered(sum)
      /\ \A atoms : Has(sum, atoms) <=> Has(ins, atoms) \/ Has(blk, atoms)
    <2>1. ASSUME NEW x \in Ranked, NEW y \in Ranked, Has(ins, {x}), Has(blk, {y})
          PROVE  Rank(x) < Rank(y)
        <3>1. x \in {"inspected", "matched", m} /\ y \in {"blocked", b}
            BY <2>1, <1>1, <1>2
        <3> QED
            BY <3>1, <1>0
    <2> QED
        BY <2>1, <1>1, <1>2, Concatenated
<1> HIDE DEF sum
<1>5. /\ sum \o lns \in Seq(Steps) /\ Ordered(sum \o lns)
      /\ \A atoms : Has(sum \o lns, atoms) <=> Has(sum, atoms) \/ Has(lns, atoms)
    <2>1. ASSUME NEW x \in Ranked, NEW y \in Ranked, Has(sum, {x}), Has(lns, {y})
          PROVE  Rank(x) < Rank(y)
        <3>1. Has(ins, {x}) \/ Has(blk, {x})
            BY <2>1, <1>4
        <3>2. x \in {"inspected", "matched", m, "blocked", b} /\ y \in {l, p}
            BY <2>1, <3>1, <1>1, <1>2, <1>3
        <3>3. Rank(x) <= 6 /\ Rank(x) \in Int /\ Rank(y) = 7
            BY <3>2, <1>0
        <3> QED
            BY <3>3
    <2> QED
        BY <2>1, <1>3, <1>4, Concatenated
<1>6. Verdict(t) = sum \o lns
    BY DEF Verdict, sum, ins, blk, lns
<1>7. ASSUME NEW atoms
      PROVE  Has(Verdict(t), atoms) <=>
                 \/ "inspected" \in atoms
                 \/ t.matched /\ ("matched" \in atoms \/ m \in atoms)
                 \/ t.matched /\ t.blocked /\ ("blocked" \in atoms \/ b \in atoms)
                 \/ t.matched /\ l \in atoms
                 \/ ~t.matched /\ t.kind = "response" /\ p \in atoms
    BY <1>1, <1>2, <1>3, <1>4, <1>5, <1>6
<1>8. ASSUME NEW atoms
      PROVE  Has(Verdict(t), atoms) <=>
                 \/ "inspected" \in atoms
                 \/ /\ t.matched
                    /\ \/ "matched" \in atoms \/ l \in atoms
                       \/ m \in atoms
                       \/ t.blocked /\ \/ "blocked" \in atoms
                                       \/ b \in atoms
                 \/ ~t.matched /\ t.kind = "response" /\ p \in atoms
    BY <1>7
<1>9. Verdict(t) \in Seq(Steps) /\ Ordered(Verdict(t))
    BY <1>5, <1>6
<1> QED
    BY <1>8, <1>9 DEF m, b, l, p

\* What a handler's call is made of, in order: the kind of a match and of a
\* block with it, nothing before what it is a part of, and no line of a verdict
\* before what it reports is counted.
LEMMA CallsFacts ==
    ASSUME NEW t \in Tasks
    PROVE  /\ Calls(t) \in Seq(Steps) /\ Ordered(Calls(t))
           /\ Has(Calls(t), {"matched"}) <=> Has(Calls(t), {"matchedStreaming", "matchedNonStreaming"})
           /\ Has(Calls(t), {"blocked"}) <=> Has(Calls(t), {"blockedStreaming", "blockedNonStreaming"})
           /\ Has(Calls(t), {"blocked"}) => Has(Calls(t), {"matched"})
           /\ Has(Calls(t), {"matched"}) => Has(Calls(t), {"inspected"})
           /\ Has(Calls(t), {"inspected"}) => Has(Calls(t), {"total"})
           /\ Has(Calls(t), {"match stream"}) => Has(Calls(t), {"matchedStreaming"})
           /\ Has(Calls(t), {"match non-stream"}) => Has(Calls(t), {"matchedNonStreaming"})
           /\ Has(Calls(t), Matches) => Has(Calls(t), {"matched"})
           /\ Has(Calls(t), Inspected) => Has(Calls(t), {"inspected"})
<1>0. t \in Task /\ (~t.stream => t.passes = 0) /\ t.passes \in Nat
    <2>1. t \in Task /\ (IF t.kind = "replay" THEN t.stream ELSE t.passes = 0)
        BY TasksAssumption
    <2> QED
        BY <2>1 DEF Task
<1>1. CASE t.kind = "request"
    <2>1. Calls(t) = <<"request">>
        BY <1>1 DEF Calls
    <2> DEFINE w == Calls(t)
    <2>2. w \in Seq(Steps) /\ Len(w) = 1 /\ w[1] = "request"
        BY <2>1 DEF Steps, LineText
    <2> HIDE DEF w
    <2>3. Ordered(w)
        BY <2>2 DEF Ordered
    <2>4. \A atoms : Has(w, atoms) <=> "request" \in atoms
        BY <2>2 DEF Has
    <2>5. ~Has(w, Matches) /\ ~Has(w, Inspected)
        BY <2>4 DEF Matches, Inspected
    <2>6. /\ ~Has(w, {"matched"}) /\ ~Has(w, {"matchedStreaming", "matchedNonStreaming"})
          /\ ~Has(w, {"blocked"}) /\ ~Has(w, {"blockedStreaming", "blockedNonStreaming"})
          /\ ~Has(w, {"inspected"}) /\ ~Has(w, {"match stream"}) /\ ~Has(w, {"match non-stream"})
        BY <2>4
    <2> QED
        BY <2>2, <2>3, <2>5, <2>6 DEF w
<1>2. CASE t.kind # "request"
    <2> DEFINE passes == [i \in 1..t.passes |-> InspectLine(t.stream)]
               start  == RecordProxyAttempt \o passes
               rest   == IF t.lost THEN <<>> ELSE Verdict(t)
               w      == start \o rest
    <2>1. Calls(t) = w
        BY <1>2 DEF Calls
    <2>2. /\ RecordProxyAttempt \in Seq(Steps) /\ Ordered(RecordProxyAttempt)
          /\ \A atoms : Has(RecordProxyAttempt, atoms) <=> "total" \in atoms
        <3>1. "total" \in Steps
            BY CounterNames DEF Steps
        <3>2. RecordProxyAttempt \in Seq(Steps) /\ Len(RecordProxyAttempt) = 1 /\ RecordProxyAttempt[1] = "total"
            BY <3>1 DEF RecordProxyAttempt
        <3> QED
            BY <3>2 DEF Has, Ordered
    <2>3. /\ passes \in Seq(Steps) /\ Ordered(passes)
          /\ \A atoms : Has(passes, atoms) => "inspect stream" \in atoms
        <3>1. \A i \in 1..t.passes : passes[i] = "inspect stream"
            <4>1. CASE t.stream
                BY <4>1 DEF InspectLine
            <4>2. CASE ~t.stream
                <5>1. 1..t.passes = {}
                    BY <4>2, <1>0
                <5> QED
                    BY <5>1
            <4> QED
                BY <4>1, <4>2
        <3>2. "inspect stream" \in Steps /\ "inspect stream" \notin Ranked
            <4>1. "inspect stream" \notin Counter
                BY CounterNames
            <4> QED
                BY <4>1 DEF Steps, LineText, Ranked, Inspected, Matches
        <3>3. passes \in [1..t.passes -> Steps] /\ DOMAIN passes = 1..t.passes
            BY <3>1, <3>2
        <3> HIDE DEF passes
        <3>4. passes \in Seq(Steps)
            BY <3>3, <1>0
        <3> QED
            BY <3>1, <3>2, <3>3, <3>4 DEF Has, Ordered
    <2> HIDE DEF passes
    <2>4. /\ start \in Seq(Steps) /\ Ordered(start)
          /\ \A atoms : Has(start, atoms) <=> "total" \in atoms \/ Has(passes, atoms)
        <3>1. ASSUME NEW y \in Ranked
              PROVE  ~Has(passes, {y})
            <4>1. "inspect stream" \notin Ranked
                BY CounterNames DEF Ranked, Inspected, Matches
            <4> QED
                BY <4>1, <2>3
        <3> QED
            BY <3>1, <2>2, <2>3, Concatenated
    <2> HIDE DEF start
    <2>5. /\ rest \in Seq(Steps) /\ Ordered(rest)
          /\ t.lost => \A atoms : ~Has(rest, atoms)
          /\ ~t.lost => rest = Verdict(t)
        <3>1. CASE t.lost
            <4>1. rest = <<>>
                BY <3>1
            <4> QED
                BY <3>1, <4>1 DEF Has, Ordered
        <3>2. CASE ~t.lost
            BY <3>2, <1>0, VerdictFacts
        <3> QED
            BY <3>1, <3>2
    <2>6. /\ Has(rest, {"matched"}) <=> Has(rest, {"matchedStreaming", "matchedNonStreaming"})
          /\ Has(rest, {"blocked"}) <=> Has(rest, {"blockedStreaming", "blockedNonStreaming"})
          /\ Has(rest, {"blocked"}) => Has(rest, {"matched"})
          /\ Has(rest, {"matched"}) => Has(rest, {"inspected"})
          /\ Has(rest, {"match stream"}) => Has(rest, {"matchedStreaming"})
          /\ Has(rest, {"match non-stream"}) => Has(rest, {"matchedNonStreaming"})
          /\ Has(rest, Matches) => Has(rest, {"matched"})
          /\ Has(rest, Inspected) => Has(rest, {"inspected"})
          /\ ~Has(rest, {"total"})
        <3>1. CASE t.lost
            BY <3>1, <2>5
        <3>2. CASE ~t.lost
            <4> DEFINE m == IF t.stream THEN "matchedStreaming" ELSE "matchedNonStreaming"
                       b == IF t.stream THEN "blockedStreaming" ELSE "blockedNonStreaming"
                       l == MatchLine(t.stream)
                       p == InspectLine(t.stream)
            <4>1. \A atoms : Has(rest, atoms) <=>
                 \/ "inspected" \in atoms
                 \/ /\ t.matched
                    /\ \/ "matched" \in atoms \/ l \in atoms
                       \/ m \in atoms
                       \/ t.blocked /\ \/ "blocked" \in atoms
                                       \/ b \in atoms
                 \/ ~t.matched /\ t.kind = "response" /\ p \in atoms
                <5>1. rest = Verdict(t)
                    BY <3>2
                <5> HIDE DEF rest
                <5> QED
                    BY <1>0, <5>1, VerdictFacts
            <4>2. /\ m \in {"matchedStreaming", "matchedNonStreaming"}
                  /\ b \in {"blockedStreaming", "blockedNonStreaming"}
                  /\ l \in {"match stream", "match non-stream"}
                  /\ p \in {"inspect stream", "inspect non-stream"}
                  /\ l = "match stream" => m = "matchedStreaming"
                  /\ l = "match non-stream" => m = "matchedNonStreaming"
                BY DEF MatchLine, InspectLine
            <4> HIDE DEF m, b, l, p, rest
            <4>3. CASE ~t.matched
                <5>1. /\ \A atoms : Has(rest, atoms) => "inspected" \in atoms \/ p \in atoms
                      /\ Has(rest, {"inspected"})
                    BY <4>1, <4>3
                <5> QED
                    BY <4>2, <5>1 DEF Matches
            <4>4. CASE t.matched /\ ~t.blocked
                <5>1. \A atoms : Has(rest, atoms) <=>
                           \/ "inspected" \in atoms \/ "matched" \in atoms \/ m \in atoms \/ l \in atoms
                    BY <4>1, <4>4
                <5> QED
                    BY <4>2, <5>1 DEF Matches
            <4>5. CASE t.matched /\ t.blocked
                <5>1. \A atoms : Has(rest, atoms) <=>
                           \/ "inspected" \in atoms \/ "matched" \in atoms \/ m \in atoms \/ l \in atoms
                           \/ "blocked" \in atoms \/ b \in atoms
                    BY <4>1, <4>5
                <5> QED
                    BY <4>2, <5>1 DEF Matches
            <4> QED
                BY <4>3, <4>4, <4>5
        <3> QED
            BY <3>1, <3>2
    <2>7. ASSUME NEW y \in Ranked, Has(rest, {y})
          PROVE  Rank(y) > 1
        <3>1. y # "total"
            BY <2>6, <2>7
        <3>2. y \in Inspected => Rank(y) = 7
            BY RankFacts
        <3>3. y \in Counter /\ y # "total" => Rank(y) > 1
            BY CounterNames, RankFacts
        <3> QED
            BY <3>1, <3>2, <3>3 DEF Ranked
    <2> HIDE DEF rest
    <2>8. /\ w \in Seq(Steps) /\ Ordered(w)
          /\ \A atoms : Has(w, atoms) <=> Has(start, atoms) \/ Has(rest, atoms)
        <3>1. ASSUME NEW x \in Ranked, NEW y \in Ranked, Has(start, {x}), Has(rest, {y})
              PROVE  Rank(x) < Rank(y)
            <4>1. x = "total"
                <5>1. "inspect stream" \notin Ranked
                    BY CounterNames DEF Ranked, Inspected, Matches
                <5> QED
                    BY <5>1, <3>1, <2>3, <2>4
            <4> QED
                BY <4>1, <3>1, <2>7, RankFacts
        <3> QED
            BY <3>1, <2>4, <2>5, Concatenated
    <2> HIDE DEF w
    <2>9. ASSUME NEW atoms, "total" \notin atoms, "inspect stream" \notin atoms
          PROVE  Has(w, atoms) <=> Has(rest, atoms)
        BY <2>9, <2>3, <2>4, <2>8
    <2>10. Has(w, {"total"})
        BY <2>4, <2>8
    <2>11. /\ "total" \notin Matches /\ "inspect stream" \notin Matches
           /\ "total" \notin Inspected /\ "inspect stream" \notin Inspected
        BY DEF Matches, Inspected
    <2>12. /\ Has(w, {"matched"}) <=> Has(rest, {"matched"})
           /\ Has(w, {"blocked"}) <=> Has(rest, {"blocked"})
           /\ Has(w, {"inspected"}) <=> Has(rest, {"inspected"})
           /\ Has(w, {"matchedStreaming"}) <=> Has(rest, {"matchedStreaming"})
           /\ Has(w, {"matchedNonStreaming"}) <=> Has(rest, {"matchedNonStreaming"})
        BY <2>9
    <2>13. /\ Has(w, {"matchedStreaming", "matchedNonStreaming"}) <=> Has(rest, {"matchedStreaming", "matchedNonStreaming"})
           /\ Has(w, {"blockedStreaming", "blockedNonStreaming"}) <=> Has(rest, {"blockedStreaming", "blockedNonStreaming"})
           /\ Has(w, {"match stream"}) <=> Has(rest, {"match stream"})
           /\ Has(w, {"match non-stream"}) <=> Has(rest, {"match non-stream"})
        BY <2>9
    <2>14. (Has(w, Matches) <=> Has(rest, Matches)) /\ (Has(w, Inspected) <=> Has(rest, Inspected))
        BY <2>9, <2>11
    <2> QED
        BY <2>1, <2>6, <2>8, <2>10, <2>12, <2>13, <2>14
<1> QED
    BY <1>1, <1>2

-----------------------------------------------------------------------------
(* Counting.                                                                *)

\* One handler's step changes a number of handlers by that handler.
LEMMA Recount ==
    ASSUME NEW S \in SUBSET Handlers, NEW T \in SUBSET Handlers, NEW h \in Handlers,
           \A k \in Handlers \ {h} : k \in T <=> k \in S
    PROVE  /\ Cardinality(S) \in Nat /\ Cardinality(T) \in Nat
           /\ Cardinality(T) + (IF h \in S THEN 1 ELSE 0) = Cardinality(S) + (IF h \in T THEN 1 ELSE 0)
<1> DEFINE rest == S \ {h}
<1>1. IsFiniteSet(S) /\ IsFiniteSet(T) /\ IsFiniteSet(rest)
    BY HandlersAssumption, FS_Subset
<1>2. rest = T \ {h}
    OBVIOUS
<1>3. Cardinality(rest) = IF h \in S THEN Cardinality(S) - 1 ELSE Cardinality(S)
    BY <1>1, FS_RemoveElement
<1>4. Cardinality(rest) = IF h \in T THEN Cardinality(T) - 1 ELSE Cardinality(T)
    BY <1>1, <1>2, FS_RemoveElement
<1>5. Cardinality(S) \in Nat /\ Cardinality(T) \in Nat /\ Cardinality(rest) \in Nat
    BY <1>1, FS_CardinalityType
<1> QED
    BY <1>3, <1>4, <1>5

\* A line more, and perhaps the oldest fewer.
LEMMA AppendedFacts ==
    ASSUME NEW log \in Seq(LogEntry), NEW e \in LogEntry, Len(log) <= MaxLogEntries
    PROVE  /\ Appended(log, e) \in Seq(LogEntry)
           /\ Len(Appended(log, e)) = IF Len(log) < MaxLogEntries THEN Len(log) + 1 ELSE MaxLogEntries
           /\ \E off \in {0, 1} :
                 /\ Len(Appended(log, e)) = Len(log) + 1 - off
                 /\ \A i \in 1..(Len(log) - off) : Appended(log, e)[i] = log[i + off]
           /\ Appended(log, e)[Len(Appended(log, e))] = e
<1> DEFINE longer == Append(log, e)
<1>1. /\ longer \in Seq(LogEntry) /\ Len(longer) = Len(log) + 1
      /\ \A i \in 1..Len(log) : longer[i] = log[i]
      /\ longer[Len(log) + 1] = e
    BY AppendProperties
<1>2. Len(log) \in Nat /\ MaxLogEntries \in Nat /\ MaxLogEntries > 0
    BY LogAssumption
<1>3. CASE Len(log) < MaxLogEntries
    <2>1. Appended(log, e) = longer
        BY <1>1, <1>2, <1>3 DEF Appended
    <2> QED
        BY <2>1, <1>1, <1>2, <1>3
<1>4. CASE Len(log) = MaxLogEntries
    <2>1. Appended(log, e) = SubSeq(longer, Len(longer) - MaxLogEntries + 1, Len(longer))
        BY <1>1, <1>2, <1>4 DEF Appended
    <2>2. Len(longer) - MaxLogEntries + 1 = 2 /\ Len(longer) = MaxLogEntries + 1
        BY <1>1, <1>2, <1>4
    <2> HIDE DEF longer
    <2> DEFINE cut == SubSeq(longer, 2, MaxLogEntries + 1)
    <2>3. \A i \in 2..(MaxLogEntries + 1) : longer[i] \in LogEntry
        BY <1>1, <1>2, <1>4
    <2>4. /\ cut \in Seq(LogEntry)
          /\ Len(cut) = MaxLogEntries
          /\ \A i \in 1..MaxLogEntries : cut[i] = longer[i + 1]
        BY <1>2, <2>3
    <2>5. Appended(log, e) = cut
        BY <2>1, <2>2
    <2> HIDE DEF cut
    <2>6. \A i \in 1..(Len(log) - 1) : cut[i] = log[i + 1]
        BY <2>4, <1>1, <1>2, <1>4
    <2>7. cut[MaxLogEntries] = e
        BY <2>4, <1>1, <1>2, <1>4
    <2> QED
        BY <2>4, <2>5, <2>6, <2>7, <1>2, <1>4
<1> QED
    BY <1>2, <1>3, <1>4

\* Lines are counted: none at first, one more at most by a line of their kind,
\* none more by another.
LEMMA LinesFacts ==
    ASSUME NEW log \in Seq(LogEntry), NEW e \in LogEntry, Len(log) <= MaxLogEntries, NEW texts
    PROVE  /\ Lines(log, texts) \in Nat
           /\ Lines(Appended(log, e), texts) \in Nat
           /\ Lines(Appended(log, e), texts) <= Lines(log, texts) + (IF e.text \in texts THEN 1 ELSE 0)
<1> DEFINE new == Appended(log, e)
           S == {i \in DOMAIN log : log[i].text \in texts}
           T == {i \in DOMAIN new : new[i].text \in texts}
           R == T \ {Len(new)}
<1>1. PICK off \in {0, 1} : /\ Len(new) = Len(log) + 1 - off
                            /\ \A i \in 1..(Len(log) - off) : new[i] = log[i + off]
    BY AppendedFacts
<1>2. new \in Seq(LogEntry) /\ new[Len(new)] = e
    BY AppendedFacts
<1> HIDE DEF new
<1>3. /\ Len(new) \in Nat /\ Len(log) \in Nat
      /\ DOMAIN new = 1..Len(new) /\ DOMAIN log = 1..Len(log)
    BY <1>2
<1>4. IsFiniteSet(S) /\ IsFiniteSet(T) /\ IsFiniteSet(R)
    <2>1. IsFiniteSet(1..Len(log)) /\ IsFiniteSet(1..Len(new))
        BY <1>3, FS_Interval
    <2> QED
        BY <2>1, <1>3, FS_Subset
<1>5. Cardinality(R) <= Cardinality(S)
    <2> DEFINE f == [i \in R |-> i + off]
    <2>1. ASSUME NEW i \in R
          PROVE  i + off \in S
        <3>1. i \in 1..Len(new) /\ i # Len(new) /\ new[i].text \in texts
            BY <1>3
        <3>2. i \in 1..(Len(log) - off) /\ i + off \in 1..Len(log)
            BY <3>1, <1>1, <1>3
        <3>3. new[i] = log[i + off]
            BY <3>2, <1>1
        <3> QED
            BY <3>1, <3>2, <3>3, <1>3
    <2>2. R \subseteq Int /\ off \in Int
        BY <1>3
    <2> HIDE DEF S, R
    <2>a. f \in [R -> S]
        BY <2>1
    <2>b. \A i, j \in R : f[i] = f[j] => i = j
        BY <2>2
    <2>3. f \in Injection(R, S)
        BY <2>a, <2>b DEF Injection, IsInjective
    <2> QED
        BY <2>3, <1>4, FS_Injection
<1>6. Cardinality(T) <= Cardinality(R) + (IF e.text \in texts THEN 1 ELSE 0)
    <2>1. Cardinality(R) = IF Len(new) \in T THEN Cardinality(T) - 1 ELSE Cardinality(T)
        BY <1>4, FS_RemoveElement
    <2>2. Len(new) \in T => e.text \in texts
        BY <1>2
    <2> QED
        BY <2>1, <2>2, <1>4, FS_CardinalityType
<1>7. Cardinality(S) \in Nat /\ Cardinality(T) \in Nat /\ Cardinality(R) \in Nat
    BY <1>4, FS_CardinalityType
<1>8. Lines(log, texts) = Cardinality(S) /\ Lines(Appended(log, e), texts) = Cardinality(T)
    BY DEF Lines, new
<1> HIDE DEF S, T, R
<1> QED
    BY <1>5, <1>6, <1>7, <1>8

-----------------------------------------------------------------------------
(* The inductive invariant.                                                 *)

\* A call is made in order; the line being appended is the one it is at.
CallInv ==
    \A h \in Handlers :
        /\ Ordered(work[h])
        /\ entry[h] # NoEntry => /\ work[h] # <<>> /\ Head(work[h]) \in LineText
                                 /\ entry[h] \in LogEntry
                                 /\ entry[h].by = h
                                 /\ entry[h].text = Head(work[h])

\* A reset under way has still to clear it.
Doomed(c) == \E g \in Managers : mpc[g] = "resetting" /\ Has(sweep[g], {c})

ForgetInv ==
    /\ \A c \in Counter \cup {"nextLogSeq"} : atomics[c] <= since[c] \/ Doomed(c)
    /\ ~Resetting => /\ Len(logEntries) <= since["appended"]
                     /\ profile = "captured" => since["captured"] > 0

\* While a reset nothing has overlapped with is under way, nothing else is.
ResetInv ==
    ~torn /\ Resetting =>
        /\ ~Busy
        /\ \A c \in Counter \cup {"nextLogSeq"} : atomics[c] = 0 \/ Doomed(c)

\* The handlers that have still to add to d, and not to c.
Between(c, d) == {h \in Handlers : Has(work[h], {d}) /\ ~Has(work[h], {c})}

\* All that adds to d added to c before.
Nests(c, d) == atomics[d] + Cardinality(Between(c, d)) <= atomics[c]

\* A sum is what its two parts are, but for what is owed.
Splits(c, d, e) ==
    atomics[c] + Owing({c}) = atomics[d] + atomics[e] + Owing({d, e})

Settled == ~torn /\ ~Resetting

SumsInv ==
    Settled =>
        /\ Splits("matched", "matchedStreaming", "matchedNonStreaming")
        /\ Splits("blocked", "blockedStreaming", "blockedNonStreaming")
        /\ Nests("total", "inspected") /\ Nests("inspected", "matched") /\ Nests("matched", "blocked")

Appending == {h \in Handlers : entry[h] # NoEntry}

\* Numbers drawn, and not in the log yet.
LogInv ==
    Settled =>
        /\ Cardinality(Appending) <= atomics["nextLogSeq"]
        /\ LET drawn == atomics["nextLogSeq"] - Cardinality(Appending)
           IN  Len(logEntries) = IF drawn < MaxLogEntries THEN drawn ELSE MaxLogEntries
        /\ \A i \in DOMAIN logEntries : logEntries[i].seq <= atomics["nextLogSeq"]
        /\ \A i, j \in DOMAIN logEntries : i < j =>
              /\ logEntries[i].seq # logEntries[j].seq
              /\ logEntries[i].by = logEntries[j].by => logEntries[i].seq < logEntries[j].seq
        /\ \A h \in Appending :
              /\ entry[h].seq <= atomics["nextLogSeq"]
              /\ \A k \in Appending : k # h => entry[h].seq # entry[k].seq
              /\ \A i \in DOMAIN logEntries :
                    /\ logEntries[i].seq # entry[h].seq
                    /\ logEntries[i].by = h => logEntries[i].seq < entry[h].seq

\* The handlers that have still to log one of texts and have added to c.
Credit(c, texts) == {h \in Handlers : Has(work[h], texts) /\ ~Has(work[h], {c})}

Covered(c, texts) == Lines(logEntries, texts) + Cardinality(Credit(c, texts)) <= atomics[c]

\* What counts the lines of which texts.
Counted == {<<"matchedStreaming", {"match stream"}>>, <<"matchedNonStreaming", {"match non-stream"}>>,
            <<"matched", Matches>>, <<"inspected", Inspected>>, <<"total", Inspected>>}

CreditInv == Settled => \A p \in Counted : Covered(p[1], p[2])

SnapInv ==
    \A g \in Managers : ~excused[g] =>
        /\ mpc[g] \in {"copying", "loading"} => Settled
        /\ \A p \in Counted :
              LET lines == Lines(snapshot[g].log, p[2])
              IN  /\ mpc[g] = "loading" => /\ lines <= atomics[p[1]]
                                           /\ Has(sweep[g], {p[1]}) \/ lines <= snapshot[g].counters[p[1]]
                  /\ mpc[g] = "served" => lines <= snapshot[g].counters[p[1]]

IInv == TypeOK /\ CallInv /\ ForgetInv /\ ResetInv /\ SumsInv /\ LogInv /\ CreditInv /\ SnapInv

-----------------------------------------------------------------------------
(* Types.                                                                   *)

\* Initially every variable has its type.
LEMMA InitType == Init => TypeOK
<1> SUFFICES ASSUME Init PROVE TypeOK
    OBVIOUS
<1> USE DEF Init
<1>1. NoSnapshot \in [log : Seq(LogEntry), counters : [Counter -> Nat]]
    BY DEF NoSnapshot
<1>2. /\ atomics \in [Counter \cup {"nextLogSeq"} -> Nat]
      /\ logEntries \in Seq(LogEntry) /\ Len(logEntries) <= MaxLogEntries
      /\ profile \in {"none", "captured"}
      /\ work \in [Handlers -> Seq(Counter \cup LineText)]
      /\ entry \in [Handlers -> LogEntry \cup {NoEntry}]
    BY LogAssumption
<1>3. /\ mpc \in [Managers -> {"idle", "resetting", "copying", "loading", "served"}]
      /\ sweep \in [Managers -> Seq(Counter \cup {"nextLogSeq"})]
      /\ snapshot \in [Managers -> [log : Seq(LogEntry), counters : [Counter -> Nat]]]
    BY <1>1
<1>4. begun \in 0..MaxTasks
    BY BoundAssumption
<1>5. since \in [Deeds -> Nat] /\ torn \in BOOLEAN /\ excused \in [Managers -> BOOLEAN]
    OBVIOUS
<1> QED
    BY <1>2, <1>3, <1>4, <1>5 DEF TypeOK

\* The history keeps its type.
LEMMA DidType ==
    ASSUME TypeOK, NEW deeds, Did(deeds)
    PROVE  since' \in [Deeds -> Nat] /\ torn' \in BOOLEAN
<1>1. \A d \in Deeds : since[d] \in Nat
    BY DEF TypeOK
<1>2. Resetting \in BOOLEAN
    BY DEF Resetting
<1> QED
    BY <1>1, <1>2 DEF Did, TypeOK

\* A handler's step preserves the types.
LEMMA HandleType ==
    ASSUME TypeOK, CallInv, NEW h \in Handlers, Handle(h)
    PROVE  TypeOK'
<1> USE DEF TypeOK
<1>1. ASSUME NEW t \in Tasks, Begin(h, t)
      PROVE  TypeOK'
    <2>1. Calls(t) \in Seq(Counter \cup LineText)
        BY CallsFacts DEF Steps
    <2>2. since' \in [Deeds -> Nat] /\ torn' \in BOOLEAN
        BY <1>1, DidType DEF Begin
    <2>3. begun' \in 0..MaxTasks
        BY <1>1, BoundAssumption DEF Begin
    <2> QED
        BY <1>1, <2>1, <2>2, <2>3 DEF Begin, managerVars
<1>2. CASE Add(h)
    <2>1. Head(work[h]) \in Counter /\ Tail(work[h]) \in Seq(Counter \cup LineText)
        BY <1>2, Visit DEF Add, Adds
    <2>2. since' \in [Deeds -> Nat] /\ torn' \in BOOLEAN
        BY <1>2, DidType DEF Add
    <2>3. atomics' \in [Counter \cup {"nextLogSeq"} -> Nat]
        BY <1>2, <2>1 DEF Add
    <2> QED
        BY <1>2, <2>1, <2>2, <2>3 DEF Add, managerVars
<1>3. CASE DrawSeq(h)
    <2>1. since' \in [Deeds -> Nat] /\ torn' \in BOOLEAN
        BY <1>3, DidType DEF DrawSeq
    <2>2. atomics["nextLogSeq"] \in Nat
        OBVIOUS
    <2>3. [by |-> h, seq |-> atomics["nextLogSeq"] + 1, text |-> Head(work[h])] \in LogEntry
        BY <1>3, <2>2 DEF LogEntry, DrawSeq, Logs
    <2>4. atomics' \in [Counter \cup {"nextLogSeq"} -> Nat]
        BY <1>3, <2>2 DEF DrawSeq
    <2> QED
        BY <1>3, <2>1, <2>3, <2>4 DEF DrawSeq, managerVars
<1>4. CASE AppendEntry(h)
    <2>0. entry[h] \in LogEntry /\ work[h] # <<>>
        BY <1>4 DEF AppendEntry, CallInv
    <2>1. since' \in [Deeds -> Nat] /\ torn' \in BOOLEAN
        BY <1>4, DidType DEF AppendEntry
    <2>2. Appended(logEntries, entry[h]) \in Seq(LogEntry) /\ Len(Appended(logEntries, entry[h])) <= MaxLogEntries
        <3>1. Len(logEntries) \in Nat /\ MaxLogEntries \in Nat
            BY LogAssumption
        <3> QED
            BY <2>0, <3>1, AppendedFacts
    <2>3. Tail(work[h]) \in Seq(Counter \cup LineText)
        BY <2>0, Visit
    <2> QED
        BY <1>4, <2>1, <2>2, <2>3 DEF AppendEntry, managerVars
<1>5. CASE SkipLog(h)
    <2>1. since' \in [Deeds -> Nat] /\ torn' \in BOOLEAN
        BY <1>5, DidType DEF SkipLog
    <2>2. Tail(work[h]) \in Seq(Counter \cup LineText)
        BY <1>5, Visit DEF SkipLog, Logs
    <2> QED
        BY <1>5, <2>1, <2>2 DEF SkipLog, managerVars
<1> QED
    BY <1>1, <1>2, <1>3, <1>4, <1>5 DEF Handle

\* Nor does a step of a management request change them.
LEMMA ManageType ==
    ASSUME TypeOK, NEW g \in Managers, Manage(g)
    PROVE  TypeOK'
<1> USE DEF TypeOK
<1> DEFINE all == Counter \cup {"nextLogSeq"}
<1>0. sweep[g] # <<>> => Head(sweep[g]) \in all /\ Tail(sweep[g]) \in Seq(all)
    BY Visit
<1>1. CASE StartReset(g)
    <2>1. since' \in [Deeds -> Nat] /\ torn' \in BOOLEAN
        BY <1>1 DEF StartReset, Busy
    <2>2. excused' \in [Managers -> BOOLEAN]
        BY <1>1 DEF StartReset
    <2> QED
        BY <1>1, <2>1, <2>2, CounterNames DEF StartReset, handlerVars
<1>2. CASE Zero(g)
    BY <1>2, <1>0 DEF Zero, handlerVars
<1>3. CASE ClearLog(g)
    <2>1. excused' \in [Managers -> BOOLEAN]
        BY <1>3 DEF ClearLog
    <2>2. logEntries' \in Seq(LogEntry) /\ Len(logEntries') <= MaxLogEntries
        BY <1>3, LogAssumption DEF ClearLog
    <2> QED
        BY <1>3, <2>1, <2>2 DEF ClearLog, handlerVars
<1>4. CASE Poll(g)
    <2>1. excused' \in [Managers -> BOOLEAN]
        BY <1>4 DEF Poll, Resetting
    <2> QED
        BY <1>4, <2>1 DEF Poll, handlerVars
<1>5. CASE CopyLog(g)
    <2>1. Counters \in Seq(all)
        BY CounterVisits, Zenon
    <2> QED
        BY <1>5, <2>1 DEF CopyLog, handlerVars
<1>6. CASE Load(g)
    <2>1. atomics[Head(sweep[g])] \in Nat
        BY <1>6, <1>0 DEF Load
    <2>2. snapshot' \in [Managers -> [log : Seq(LogEntry), counters : [Counter -> Nat]]]
        BY <1>6, <2>1 DEF Load
    <2> QED
        BY <1>6, <1>0, <2>2 DEF Load, handlerVars
<1> QED
    BY <1>1, <1>2, <1>3, <1>4, <1>5, <1>6 DEF Manage

\* No handler has been called yet.
LEMMA CallInit == Init => CallInv
BY DEF Init, CallInv, Ordered

\* A call is made in order.
LEMMA HandleCall ==
    ASSUME TypeOK, CallInv, NEW h \in Handlers, Handle(h)
    PROVE  CallInv'
<1> SUFFICES ASSUME NEW k \in Handlers
             PROVE  /\ Ordered(work'[k])
                    /\ entry'[k] # NoEntry => /\ work'[k] # <<>> /\ Head(work'[k]) \in LineText
                                              /\ entry'[k] \in LogEntry
                                              /\ entry'[k].by = k
                                              /\ entry'[k].text = Head(work'[k])
    BY DEF CallInv
<1>t. work \in [Handlers -> Seq(Steps)] /\ entry \in [Handlers -> LogEntry \cup {NoEntry}]
    BY DEF TypeOK, Steps
<1>k. /\ Ordered(work[k])
      /\ entry[k] # NoEntry => /\ work[k] # <<>> /\ Head(work[k]) \in LineText
                               /\ entry[k] \in LogEntry
                               /\ entry[k].by = k
                               /\ entry[k].text = Head(work[k])
    BY DEF CallInv
<1>o. k # h => work'[k] = work[k] /\ entry'[k] = entry[k]
    BY <1>t DEF Handle, Begin, Add, DrawSeq, AppendEntry, SkipLog
<1>1. CASE k # h
    BY <1>1, <1>k, <1>o
<1>2. CASE k = h /\ \E t \in Tasks : Begin(h, t)
    <2>1. PICK t \in Tasks : Begin(h, t)
        BY <1>2
    <2>2. Ordered(Calls(t)) /\ work'[h] = Calls(t) /\ entry'[h] = entry[h] /\ work[h] = <<>>
        BY <2>1, <1>t, CallsFacts DEF Begin
    <2> QED
        BY <1>2, <1>k, <2>2
<1>3. CASE k = h /\ (Add(h) \/ SkipLog(h) \/ AppendEntry(h))
    <2>1. work[h] # <<>> /\ work'[h] = Tail(work[h])
        BY <1>3, <1>k, <1>t DEF Add, SkipLog, AppendEntry, Adds, Logs
    <2>2. Ordered(Tail(work[h]))
        BY <1>3, <1>k, <1>t, <2>1, VisitOrdered
    <2>3. entry'[h] = NoEntry
        <3>1. Add(h) => entry[h] = NoEntry
            BY <1>3, <1>k, StepNames DEF Add, Adds
        <3> QED
            BY <1>3, <1>t, <3>1 DEF Add, SkipLog, AppendEntry
    <2> QED
        BY <1>3, <2>1, <2>2, <2>3
<1>4. CASE k = h /\ DrawSeq(h)
    <2>1. /\ work'[h] = work[h] /\ work[h] # <<>> /\ Head(work[h]) \in LineText
          /\ entry'[h] = [by |-> h, seq |-> atomics["nextLogSeq"] + 1, text |-> Head(work[h])]
        BY <1>4, <1>t DEF DrawSeq, Logs
    <2>2. atomics["nextLogSeq"] \in Nat
        BY DEF TypeOK
    <2>3. entry'[h] \in LogEntry
        BY <2>1, <2>2 DEF LogEntry
    <2> QED
        BY <1>4, <1>k, <2>1, <2>3
<1> QED
    BY <1>1, <1>2, <1>3, <1>4 DEF Handle

\* Management requests leave the handlers alone.
LEMMA ManageCall ==
    ASSUME CallInv, NEW g \in Managers, Manage(g)
    PROVE  UNCHANGED handlerVars /\ CallInv'
<1>1. UNCHANGED handlerVars
    BY DEF Manage, StartReset, Zero, ClearLog, Poll, CopyLog, Load
<1> QED
    BY <1>1 DEF CallInv, handlerVars

-----------------------------------------------------------------------------
(* Resets.                                                                  *)

\* A handler's step is counted, and torn if a reset is under way.
LEMMA HandleSince ==
    ASSUME TypeOK, NEW h \in Handlers, Handle(h)
    PROVE  /\ UNCHANGED managerVars
           /\ Resetting' = Resetting
           /\ \A c : Doomed(c)' <=> Doomed(c)
           /\ torn' = (torn \/ Resetting)
           /\ Settled' => Settled
           /\ \A d \in Deeds : since'[d] \in Nat /\ since'[d] >= since[d]
<1>1. UNCHANGED managerVars
    BY DEF Handle, Begin, Add, DrawSeq, AppendEntry, SkipLog
<1>2. \E deeds : Did(deeds)
    BY DEF Handle, Begin, Add, DrawSeq, AppendEntry, SkipLog
<1>3. torn' = (torn \/ Resetting) /\ \A d \in Deeds : since'[d] \in Nat /\ since'[d] >= since[d]
    BY <1>2 DEF Did, TypeOK
<1>4. Resetting' = Resetting /\ \A c : Doomed(c)' <=> Doomed(c)
    BY <1>1 DEF managerVars, Resetting, Doomed
<1> QED
    BY <1>1, <1>3, <1>4 DEF Settled

\* What a reset has to clear it clears, or goes on having to.
LEMMA Sweeping ==
    ASSUME TypeOK, NEW g \in Managers, Manage(g), NEW c \in Counter \cup {"nextLogSeq"}
    PROVE  /\ StartReset(g) => Doomed(c)'
           /\ Doomed(c) => Doomed(c)' \/ atomics'[c] = 0
           /\ atomics'[c] \in {atomics[c], 0}
           /\ atomics'[c] # atomics[c] => Resetting
<1> USE DEF TypeOK
<1>1. CASE StartReset(g)
    <2>1. Has(ResetOrder, {c})
        BY CounterNames DEF Has
    <2>2. Doomed(c)'
        BY <1>1, <2>1 DEF StartReset, Doomed
    <2> QED
        BY <1>1, <2>2 DEF StartReset
<1>2. CASE Zero(g)
    <2>1. Has(sweep[g], {c}) => Head(sweep[g]) = c \/ Has(Tail(sweep[g]), {c})
        BY <1>2, Visit DEF Zero
    <2>2. Head(sweep[g]) = c => atomics'[c] = 0
        BY <1>2 DEF Zero
    <2>3. ASSUME NEW f \in Managers, mpc[f] = "resetting", Has(sweep[f], {c})
          PROVE  Doomed(c)' \/ atomics'[c] = 0
        <3>1. f # g => mpc'[f] = "resetting" /\ Has(sweep'[f], {c})
            BY <1>2, <2>3 DEF Zero
        <3>2. f = g /\ Head(sweep[g]) # c => mpc'[f] = "resetting" /\ Has(sweep'[f], {c})
            BY <1>2, <2>1, <2>3 DEF Zero
        <3> QED
            BY <2>2, <3>1, <3>2 DEF Doomed
    <2>4. atomics'[c] \in {atomics[c], 0}
        BY <1>2 DEF Zero
    <2>5. Resetting /\ ~StartReset(g)
        BY <1>2 DEF Zero, Resetting, StartReset
    <2> QED
        BY <2>3, <2>4, <2>5 DEF Doomed
<1>3. CASE ClearLog(g) \/ Poll(g) \/ CopyLog(g) \/ Load(g)
    <2>1. atomics' = atomics
        BY <1>3 DEF ClearLog, Poll, CopyLog, Load
    <2>2. ASSUME NEW f \in Managers, mpc[f] = "resetting", Has(sweep[f], {c})
          PROVE  mpc'[f] = "resetting" /\ Has(sweep'[f], {c})
        <3>1. f # g
            BY <1>3, <2>2 DEF ClearLog, Poll, CopyLog, Load, Has
        <3> QED
            BY <1>3, <2>2, <3>1 DEF ClearLog, Poll, CopyLog, Load
    <2>3. StartReset(g) => Doomed(c)'
        BY <1>1
    <2> QED
        BY <2>1, <2>2, <2>3 DEF Doomed
<1> QED
    BY <1>1, <1>2, <1>3 DEF Manage

\* Which management steps change what the handlers' invariants speak of.
LEMMA ManageFrame ==
    ASSUME TypeOK, NEW g \in Managers, Manage(g)
    PROVE  /\ StartReset(g) => Resetting' /\ torn' = Busy
           /\ ~StartReset(g) => UNCHANGED <<since, torn>>
           /\ Zero(g) => Resetting /\ Resetting'
           /\ ~ClearLog(g) => UNCHANGED <<logEntries, profile>>
           /\ ClearLog(g) => /\ Resetting /\ logEntries' = <<>> /\ profile' = "none"
                             /\ UNCHANGED atomics
           /\ ~(StartReset(g) \/ ClearLog(g)) => Resetting' = Resetting
           /\ ~(StartReset(g) \/ Zero(g) \/ ClearLog(g)) => UNCHANGED atomics
<1> USE DEF TypeOK
<1>1. CASE StartReset(g)
    BY <1>1 DEF StartReset, Resetting, ClearLog, Zero
<1>2. CASE Zero(g)
    BY <1>2 DEF StartReset, Resetting, ClearLog, Zero
<1>3. CASE ClearLog(g)
    BY <1>3 DEF StartReset, Resetting, ClearLog, Zero
<1>4. CASE Poll(g) \/ CopyLog(g) \/ Load(g)
    <2>1. \A f \in Managers : mpc'[f] = "resetting" <=> mpc[f] = "resetting"
        BY <1>4 DEF Poll, CopyLog, Load
    <2>2. UNCHANGED <<atomics, logEntries, profile, since, torn>>
        BY <1>4 DEF Poll, CopyLog, Load
    <2>3. ~Zero(g) /\ ~ClearLog(g)
        BY <1>4 DEF Poll, CopyLog, Load, Zero, ClearLog
    <2> QED
        BY <2>1, <2>2, <2>3, <1>1 DEF Resetting
<1> QED
    BY <1>1, <1>2, <1>3, <1>4 DEF Manage

\* A handler's deeds are counted as done since the last reset began.
LEMMA HandleForget ==
    ASSUME TypeOK, CallInv, ForgetInv, NEW h \in Handlers, Handle(h)
    PROVE  ForgetInv'
<1> USE DEF TypeOK
<1>0. /\ Resetting' = Resetting /\ \A c : Doomed(c)' <=> Doomed(c)
      /\ \A d \in Deeds : since'[d] \in Nat /\ since'[d] >= since[d]
    BY HandleSince
<1> DEFINE all == Counter \cup {"nextLogSeq"}
<1>t. /\ all \subseteq Deeds /\ {"appended", "captured"} \subseteq Deeds
      /\ \A c \in all : atomics[c] \in Nat
      /\ \A d \in Deeds : since[d] \in Nat
    BY DEF Deeds
<1>1. ASSUME NEW c \in all
      PROVE  atomics'[c] <= since'[c] \/ Doomed(c)'
    <2>1. ASSUME NEW d \in all, atomics' = [atomics EXCEPT ![d] = @ + 1], Did({d})
          PROVE  atomics'[c] <= since'[c] \/ Doomed(c)'
        <3>1. atomics'[c] = (IF c = d THEN atomics[c] + 1 ELSE atomics[c])
            BY <2>1
        <3>2. since'[c] = since[c] + (IF c = d THEN 1 ELSE 0)
            BY <2>1, <1>t DEF Did
        <3>3. atomics[c] <= since[c] \/ Doomed(c)
            BY DEF ForgetInv
        <3> QED
            BY <3>1, <3>2, <3>3, <1>t, <1>0
    <2>2. CASE UNCHANGED atomics
        <3>1. atomics[c] <= since[c] \/ Doomed(c)
            BY DEF ForgetInv
        <3>2. since'[c] \in Nat /\ since'[c] >= since[c] /\ since[c] \in Nat /\ atomics[c] \in Nat
            BY <1>0, <1>t
        <3> QED
            BY <2>2, <3>1, <3>2, <1>0
    <2>3. CASE Add(h)
        <3>1. Head(work[h]) \in all
            BY <2>3 DEF Add, Adds
        <3> QED
            BY <2>1, <2>3, <3>1 DEF Add
    <2>4. CASE DrawSeq(h)
        BY <2>1, <2>4 DEF DrawSeq
    <2> QED
        BY <2>2, <2>3, <2>4 DEF Handle, Begin, AppendEntry, SkipLog
<1>2. ASSUME ~Resetting
      PROVE  Len(logEntries') <= since'["appended"]
    <2>1. Len(logEntries) <= since["appended"] /\ Len(logEntries) \in Nat
        BY <1>2 DEF ForgetInv
    <2>2. CASE AppendEntry(h)
        <3>1. Len(logEntries') <= Len(logEntries) + 1 /\ Len(logEntries') \in Nat
            <4>1. entry[h] \in LogEntry
                BY <2>2 DEF CallInv, AppendEntry
            <4>2. Appended(logEntries, entry[h]) \in Seq(LogEntry)
                BY <4>1, AppendedFacts
            <4>3. Len(Appended(logEntries, entry[h])) <= Len(logEntries) + 1
                BY <4>1, <2>1, AppendedFacts
            <4> QED
                BY <2>2, <4>2, <4>3 DEF AppendEntry
        <3>2. since'["appended"] = since["appended"] + 1
            BY <2>2, <1>t DEF AppendEntry, Did
        <3> QED
            BY <2>1, <3>1, <3>2, <1>t
    <2>3. CASE UNCHANGED logEntries
        BY <2>1, <2>3, <1>0, <1>t
    <2> QED
        BY <2>2, <2>3 DEF Handle, Begin, Add, DrawSeq, SkipLog
<1>3. ASSUME ~Resetting, profile' = "captured"
      PROVE  since'["captured"] > 0
    <2>1. CASE UNCHANGED profile
        BY <2>1, <1>3, <1>0, <1>t DEF ForgetInv
    <2>2. CASE profile' # profile
        <3>1. since'["captured"] = since["captured"] + 1
            BY <2>2, <1>t DEF Handle, Begin, Add, DrawSeq, AppendEntry, SkipLog, Did
        <3> QED
            BY <3>1, <1>t
    <2> QED
        BY <2>1, <2>2
<1> QED
    BY <1>0, <1>1, <1>2, <1>3 DEF ForgetInv

\* A reset forgets what was before it.
LEMMA ManageForget ==
    ASSUME TypeOK, ForgetInv, NEW g \in Managers, Manage(g)
    PROVE  ForgetInv'
<1>t. \A d \in Deeds : since[d] \in Nat
    BY DEF TypeOK
<1>d. Counter \cup {"nextLogSeq"} \subseteq Deeds /\ {"appended", "captured"} \subseteq Deeds
    BY DEF Deeds
<1>1. CASE StartReset(g)
    BY <1>1, Sweeping, ManageFrame DEF ForgetInv
<1>2. CASE ~StartReset(g)
    <2>1. ASSUME NEW c \in Counter \cup {"nextLogSeq"}
          PROVE  atomics'[c] <= since'[c] \/ Doomed(c)'
        <3>1. since'[c] = since[c] /\ since[c] \in Nat
            BY <1>2, <1>t, <1>d, ManageFrame
        <3>2. atomics[c] <= since[c] \/ Doomed(c)
            BY DEF ForgetInv
        <3>3. Doomed(c) => Doomed(c)' \/ atomics'[c] = 0
            BY Sweeping
        <3>4. atomics'[c] \in {atomics[c], 0}
            BY Sweeping
        <3> QED
            BY <3>1, <3>2, <3>3, <3>4
    <2>2. ASSUME ~Resetting'
          PROVE  Len(logEntries') <= since'["appended"] /\ (profile' = "captured" => since'["captured"] > 0)
        <3>1. UNCHANGED since
            BY <1>2, ManageFrame
        <3>2. CASE ClearLog(g)
            <4>1. logEntries' = <<>> /\ profile' = "none"
                BY <3>2, ManageFrame
            <4> QED
                BY <4>1, <3>1, <1>t, <1>d
        <3>3. CASE ~ClearLog(g)
            <4>1. ~Resetting /\ UNCHANGED <<logEntries, profile>>
                BY <3>3, <1>2, <2>2, ManageFrame
            <4> QED
                BY <4>1, <3>1 DEF ForgetInv
        <3> QED
            BY <3>2, <3>3
    <2> QED
        BY <2>1, <2>2 DEF ForgetInv
<1> QED
    BY <1>1, <1>2

\* Nothing is under way while an undisturbed reset is.
LEMMA HandleReset ==
    ASSUME TypeOK, ResetInv, NEW h \in Handlers, Handle(h)
    PROVE  ResetInv'
BY HandleSince DEF ResetInv

\* See above.
LEMMA ManageReset ==
    ASSUME TypeOK, ResetInv, CallInv, NEW g \in Managers, Manage(g)
    PROVE  ResetInv'
<1> SUFFICES ASSUME ~torn', Resetting'
             PROVE  ~Busy' /\ \A c \in Counter \cup {"nextLogSeq"} : atomics'[c] = 0 \/ Doomed(c)'
    BY DEF ResetInv
<1>0. Busy' = Busy
    BY ManageCall DEF Busy, handlerVars
<1>1. CASE StartReset(g)
    BY <1>0, <1>1, ManageFrame, Sweeping
<1>2. CASE ~StartReset(g)
    <2>1. ~torn /\ Resetting
        BY <1>2, ManageFrame
    <2>2. ~Busy /\ \A c \in Counter \cup {"nextLogSeq"} : atomics[c] = 0 \/ Doomed(c)
        BY <2>1 DEF ResetInv
    <2>3. ASSUME NEW c \in Counter \cup {"nextLogSeq"}
          PROVE  atomics'[c] = 0 \/ Doomed(c)'
        BY <2>2, Sweeping
    <2> QED
        BY <1>0, <2>2, <2>3
<1> QED
    BY <1>1, <1>2

Zeroed ==
    /\ logEntries = <<>>
    /\ \A c \in Counter \cup {"nextLogSeq"} : atomics[c] = 0
    /\ \A h \in Handlers : work[h] = <<>> /\ entry[h] = NoEntry

\* A management step leaves counts, calls and log alone, or everything is zero
\* after it: the end of a reset.
LEMMA ManageSettled ==
    ASSUME TypeOK, ResetInv, CallInv, NEW g \in Managers, Manage(g), Settled'
    PROVE  \/ Settled /\ UNCHANGED <<atomics, logEntries, handlerVars>>
           \/ Zeroed'
<1>0. ~torn' /\ ~Resetting' /\ UNCHANGED handlerVars
    BY ManageCall DEF Settled
<1>1. ~StartReset(g) /\ ~Zero(g) /\ ~torn
    BY <1>0, ManageFrame
<1>2. CASE ClearLog(g)
    <2>1. Resetting /\ logEntries' = <<>>
        BY <1>2, ManageFrame
    <2>2. ~Busy /\ \A c \in Counter \cup {"nextLogSeq"} : atomics[c] = 0 \/ Doomed(c)
        BY <1>1, <2>1 DEF ResetInv
    <2>3. \A c : ~Doomed(c)'
        BY <1>0 DEF Resetting, Doomed
    <2>4. \A c \in Counter \cup {"nextLogSeq"} : atomics'[c] = 0
        BY <2>2, <2>3, Sweeping
    <2>5. \A h \in Handlers : work'[h] = <<>> /\ entry'[h] = NoEntry
        BY <2>2, <1>0 DEF Busy, CallInv, handlerVars
    <2> QED
        BY <2>1, <2>4, <2>5 DEF Zeroed
<1>3. CASE ~ClearLog(g)
    BY <1>0, <1>1, <1>3, ManageFrame DEF Settled
<1> QED
    BY <1>2, <1>3

-----------------------------------------------------------------------------
(* Sums.                                                                    *)

Owers(counters) == {h \in Handlers : Has(work[h], counters)}

\* How many owe changes by the one whose list changes.
LEMMA OwingStep ==
    ASSUME TypeOK, NEW h \in Handlers, \A k \in Handlers \ {h} : work'[k] = work[k]
    PROVE  /\ \A C : /\ Owing(C) \in Nat /\ Owing(C)' \in Nat
                     /\ Owing(C)' + (IF Has(work[h], C) THEN 1 ELSE 0)
                            = Owing(C) + (IF Has(work'[h], C) THEN 1 ELSE 0)
           /\ \A c, d : /\ Cardinality(Between(c, d)) \in Nat /\ Cardinality(Between(c, d)') \in Nat
                        /\ Cardinality(Between(c, d)') + (IF h \in Between(c, d) THEN 1 ELSE 0)
                              = Cardinality(Between(c, d)) + (IF h \in Between(c, d)' THEN 1 ELSE 0)
<1>1. ASSUME NEW C
      PROVE  /\ Owing(C) \in Nat /\ Owing(C)' \in Nat
             /\ Owing(C)' + (IF Has(work[h], C) THEN 1 ELSE 0)
                    = Owing(C) + (IF Has(work'[h], C) THEN 1 ELSE 0)
    <2>1. Owing(C) = Cardinality(Owers(C)) /\ Owing(C)' = Cardinality(Owers(C)')
        BY DEF Owing, Owers, Has
    <2>2. Owers(C) \in SUBSET Handlers /\ Owers(C)' \in SUBSET Handlers
        BY DEF Owers
    <2>3. \A k \in Handlers \ {h} : k \in Owers(C)' <=> k \in Owers(C)
        BY DEF Owers
    <2>4. (h \in Owers(C) <=> Has(work[h], C)) /\ (h \in Owers(C)' <=> Has(work'[h], C))
        BY DEF Owers
    <2>5. /\ Cardinality(Owers(C)) \in Nat /\ Cardinality(Owers(C)') \in Nat
          /\ Cardinality(Owers(C)') + (IF h \in Owers(C) THEN 1 ELSE 0)
                = Cardinality(Owers(C)) + (IF h \in Owers(C)' THEN 1 ELSE 0)
        BY <2>2, <2>3, Recount
    <2> QED
        BY <2>1, <2>4, <2>5
<1>2. ASSUME NEW c, NEW d
      PROVE  /\ Cardinality(Between(c, d)) \in Nat /\ Cardinality(Between(c, d)') \in Nat
             /\ Cardinality(Between(c, d)') + (IF h \in Between(c, d) THEN 1 ELSE 0)
                   = Cardinality(Between(c, d)) + (IF h \in Between(c, d)' THEN 1 ELSE 0)
    <2>2. Between(c, d) \in SUBSET Handlers /\ Between(c, d)' \in SUBSET Handlers
        BY DEF Between
    <2>3. \A k \in Handlers \ {h} : k \in Between(c, d)' <=> k \in Between(c, d)
        BY DEF Between
    <2> QED
        BY <2>2, <2>3, Recount
<1> QED
    BY <1>1, <1>2

\* What a handler has still to add, and the counters, are not touched by its
\* logging.
LEMMA LoggingStep ==
    ASSUME TypeOK, CallInv, NEW h \in Handlers, DrawSeq(h) \/ AppendEntry(h) \/ SkipLog(h)
    PROVE  /\ \A A \in SUBSET Counter : Has(work'[h], A) <=> Has(work[h], A)
           /\ \A y \in Counter : atomics'[y] = atomics[y]
<1>1. \A y \in Counter : atomics'[y] = atomics[y]
    BY StepNames DEF DrawSeq, AppendEntry, SkipLog, TypeOK
<1>2. CASE DrawSeq(h)
    BY <1>1, <1>2 DEF DrawSeq
<1>3. CASE AppendEntry(h) \/ SkipLog(h)
    <2>1. /\ work[h] \in Seq(Counter \cup LineText) /\ work[h] # <<>>
          /\ Head(work[h]) \in LineText /\ work'[h] = Tail(work[h])
        BY <1>3 DEF AppendEntry, SkipLog, Logs, CallInv, TypeOK
    <2>2. \A A : Has(work[h], A) <=> Head(work[h]) \in A \/ Has(work'[h], A)
        BY <2>1, Visit
    <2> QED
        BY <1>1, <2>1, <2>2, StepNames
<1> QED
    BY <1>2, <1>3

\* A sum and its parts, as a handler begins or adds.
LEMMA SplitsStep ==
    ASSUME TypeOK, CallInv, NEW h \in Handlers, Handle(h),
           NEW c \in Counter, NEW d \in Counter, NEW e \in Counter,
           c # d, c # e, d # e, Rank(d) = Rank(e),
           \A t \in Tasks : Has(Calls(t), {c}) <=> Has(Calls(t), {d, e}),
           Splits(c, d, e)
    PROVE  Splits(c, d, e)'
<1>t. \A x \in Counter : atomics[x] \in Nat
    BY DEF TypeOK
<1>k. \A k \in Handlers \ {h} : work'[k] = work[k]
    BY DEF TypeOK, Handle, Begin, Add, DrawSeq, AppendEntry, SkipLog
<1>s. atomics[c] + Owing({c}) = atomics[d] + atomics[e] + Owing({d, e})
    BY DEF Splits
<1>o. /\ Owing({c}) \in Nat /\ Owing({c})' \in Nat /\ Owing({d, e}) \in Nat /\ Owing({d, e})' \in Nat
      /\ Owing({c})' + (IF Has(work[h], {c}) THEN 1 ELSE 0)
            = Owing({c}) + (IF Has(work'[h], {c}) THEN 1 ELSE 0)
      /\ Owing({d, e})' + (IF Has(work[h], {d, e}) THEN 1 ELSE 0)
            = Owing({d, e}) + (IF Has(work'[h], {d, e}) THEN 1 ELSE 0)
    BY <1>k, OwingStep
<1>g. SUFFICES atomics'[c] + Owing({c})' = atomics'[d] + atomics'[e] + Owing({d, e})'
    BY DEF Splits
<1>1. ASSUME NEW t \in Tasks, Begin(h, t)
      PROVE  atomics'[c] + Owing({c})' = atomics'[d] + atomics'[e] + Owing({d, e})'
    <2>1. atomics' = atomics /\ work[h] = <<>> /\ work'[h] = Calls(t)
        BY <1>1 DEF Begin, CallInv, TypeOK
    <2>2. ~Has(work[h], {c}) /\ ~Has(work[h], {d, e})
        BY <2>1 DEF Has
    <2>3. Has(work'[h], {c}) <=> Has(work'[h], {d, e})
        BY <2>1
    <2>4. /\ atomics'[c] = atomics[c] /\ atomics'[d] = atomics[d] /\ atomics'[e] = atomics[e]
          /\ atomics[c] \in Nat /\ atomics[d] \in Nat /\ atomics[e] \in Nat
        BY <2>1, <1>t
    <2>5. CASE Has(work'[h], {c})
        <3>1. Owing({c})' = Owing({c}) + 1 /\ Owing({d, e})' = Owing({d, e}) + 1
            BY <2>2, <2>3, <2>5, <1>o
        <3> QED
            BY <3>1, <2>4, <1>s, <1>o
    <2>6. CASE ~Has(work'[h], {c})
        <3>1. Owing({c})' = Owing({c}) /\ Owing({d, e})' = Owing({d, e})
            BY <2>2, <2>3, <2>6, <1>o
        <3> QED
            BY <3>1, <2>4, <1>s, <1>o
    <2> QED
        BY <2>5, <2>6
<1>2. CASE Add(h)
    <2> DEFINE x == Head(work[h])
    <2>1. work[h] # <<>> /\ work[h] \in Seq(Steps) /\ Ordered(work[h])
        BY <1>2 DEF Add, Adds, TypeOK, CallInv, Steps
    <2>2. x \in Counter /\ x \in Ranked /\ work'[h] = Tail(work[h])
        BY <1>2 DEF Add, Adds, TypeOK, Ranked
    <2>3. \A y \in Counter : atomics'[y] = atomics[y] + (IF y = x THEN 1 ELSE 0)
        BY <1>2, <1>t DEF Add, TypeOK
    <2>4. \A C : Has(work[h], C) <=> x \in C \/ Has(work'[h], C)
        BY <2>1, <2>2, Visit
    <2>5. \A y \in Counter : Rank(y) <= Rank(x) => ~Has(work'[h], {y})
        BY <2>1, <2>2, VisitOrdered DEF Ranked
    <2> HIDE DEF x
    <2>6. x \in {d, e} => ~Has(work'[h], {d, e})
        <3>1. Rank(d) <= Rank(d) /\ Rank(d) <= Rank(e) /\ Rank(e) <= Rank(d)
            BY RankFacts
        <3>2. x \in {d, e} => ~Has(work'[h], {d}) /\ ~Has(work'[h], {e})
            BY <2>5, <3>1
        <3> QED
            BY <3>2 DEF Has
    <2>7. x = c => ~Has(work'[h], {c})
        <3>1. Rank(c) <= Rank(c)
            BY RankFacts
        <3> QED
            BY <2>5, <3>1
    <2>8. /\ Has(work[h], {c}) <=> x = c \/ Has(work'[h], {c})
          /\ Has(work[h], {d, e}) <=> x \in {d, e} \/ Has(work'[h], {d, e})
        BY <2>4
    <2>9. /\ atomics'[c] = atomics[c] + (IF x = c THEN 1 ELSE 0)
          /\ atomics'[d] = atomics[d] + (IF x = d THEN 1 ELSE 0)
          /\ atomics'[e] = atomics[e] + (IF x = e THEN 1 ELSE 0)
        BY <2>3
    <2>10. atomics[c] \in Nat /\ atomics[d] \in Nat /\ atomics[e] \in Nat
        BY <1>t
    <2> QED
        BY <2>6, <2>7, <2>8, <2>9, <2>10, <1>s, <1>o
<1>3. CASE DrawSeq(h) \/ AppendEntry(h) \/ SkipLog(h)
    <2>1. (\A A \in SUBSET Counter : Has(work'[h], A) <=> Has(work[h], A)) /\ \A y \in Counter : atomics'[y] = atomics[y]
        BY <1>3, LoggingStep
    <2> QED
        BY <2>1, <1>t, <1>s, <1>o
<1> QED
    BY <1>1, <1>2, <1>3 DEF Handle

\* What a count becomes when one element may leave it and the same may enter.
LEMMA Exchange ==
    ASSUME NEW m \in Nat, NEW n \in Nat, NEW p \in BOOLEAN, NEW q \in BOOLEAN,
           n + (IF p THEN 1 ELSE 0) = m + (IF q THEN 1 ELSE 0)
    PROVE  ~q => n <= m
<1>1. CASE p
    BY <1>1
<1>2. CASE ~p
    BY <1>2
<1> QED
    BY <1>1, <1>2

\* A part and the whole, as a handler begins or adds.
LEMMA NestsStep ==
    ASSUME TypeOK, CallInv, NEW h \in Handlers, Handle(h),
           NEW c \in Counter, NEW d \in Counter, c # d, Rank(c) < Rank(d),
           \A t \in Tasks : Has(Calls(t), {d}) => Has(Calls(t), {c}),
           Nests(c, d)
    PROVE  Nests(c, d)'
<1>t. \A x \in Counter : atomics[x] \in Nat
    BY DEF TypeOK
<1>n. atomics[c] \in Nat /\ atomics[d] \in Nat
    BY <1>t
<1>k. \A k \in Handlers \ {h} : work'[k] = work[k]
    BY DEF TypeOK, Handle, Begin, Add, DrawSeq, AppendEntry, SkipLog
<1> DEFINE B == Cardinality(Between(c, d))
           before == Has(work[h], {d}) /\ ~Has(work[h], {c})
           after == Has(work'[h], {d}) /\ ~Has(work'[h], {c})
<1>s. atomics[d] + B <= atomics[c]
    BY DEF Nests
<1>o. /\ B \in Nat /\ B' \in Nat
      /\ B' + (IF before THEN 1 ELSE 0) = B + (IF after THEN 1 ELSE 0)
    <2>1. (h \in Between(c, d) <=> before) /\ (h \in Between(c, d)' <=> after)
        BY DEF Between
    <2> QED
        BY <2>1, <1>k, OwingStep
<1>f. ~after => B' <= B
    BY <1>o, Exchange
<1>g. SUFFICES atomics'[d] + B' <= atomics'[c]
    BY DEF Nests
<1> HIDE DEF B
<1>1. ASSUME NEW t \in Tasks, Begin(h, t)
      PROVE  atomics'[d] + B' <= atomics'[c]
    <2>1. atomics' = atomics /\ work'[h] = Calls(t)
        BY <1>1 DEF Begin, CallInv, TypeOK
    <2>2. ~after
        BY <2>1
    <2>3. atomics'[c] = atomics[c] /\ atomics'[d] = atomics[d]
        BY <2>1
    <2>4. B' <= B
        BY <2>2, <1>f
    <2> QED
        BY <2>3, <2>4, <1>n, <1>s, <1>o
<1>2. CASE Add(h)
    <2> DEFINE x == Head(work[h])
    <2>1. work[h] # <<>> /\ work[h] \in Seq(Steps) /\ Ordered(work[h])
        BY <1>2 DEF Add, Adds, TypeOK, CallInv, Steps
    <2>2. x \in Counter /\ x \in Ranked /\ work'[h] = Tail(work[h])
        BY <1>2 DEF Add, Adds, TypeOK, Ranked
    <2>3. \A y \in Counter : atomics'[y] = atomics[y] + (IF y = x THEN 1 ELSE 0)
        BY <1>2, <1>t DEF Add, TypeOK
    <2>4. \A C : Has(work[h], C) <=> x \in C \/ Has(work'[h], C)
        BY <2>1, <2>2, Visit
    <2>5. \A y \in Counter : Rank(y) <= Rank(x) => ~Has(work'[h], {y})
        BY <2>1, <2>2, VisitOrdered DEF Ranked
    <2> HIDE DEF x
    <2>6. x = d => ~Has(work'[h], {c}) /\ ~Has(work'[h], {d})
        <3>1. Rank(d) <= Rank(d) /\ Rank(c) <= Rank(d)
            BY RankFacts
        <3> QED
            BY <2>5, <3>1
    <2>8. /\ Has(work[h], {c}) <=> x = c \/ Has(work'[h], {c})
          /\ Has(work[h], {d}) <=> x = d \/ Has(work'[h], {d})
        BY <2>4
    <2>9. /\ atomics'[c] = atomics[c] + (IF x = c THEN 1 ELSE 0)
          /\ atomics'[d] = atomics[d] + (IF x = d THEN 1 ELSE 0)
        BY <2>3
    <2>10. CASE x = c
        <3>1. B' <= B + 1
            BY <1>o
        <3>2. atomics'[c] = atomics[c] + 1 /\ atomics'[d] = atomics[d]
            BY <1>n, <2>9, <2>10
        <3> QED
            BY <3>1, <3>2, <1>n, <1>s, <1>o
    <2>11. CASE x = d
        <3>1. before /\ ~after
            BY <2>6, <2>8, <2>11
        <3>2. B' = B - 1
            BY <3>1, <1>o
        <3>3. atomics'[c] = atomics[c] /\ atomics'[d] = atomics[d] + 1
            BY <1>n, <2>9, <2>11
        <3> QED
            BY <3>2, <3>3, <1>n, <1>s, <1>o
    <2>12. CASE x \notin {c, d}
        <3>1. before <=> after
            BY <2>8, <2>12
        <3>2. B' = B
            BY <3>1, <1>o
        <3>3. atomics'[c] = atomics[c] /\ atomics'[d] = atomics[d]
            BY <1>n, <2>9, <2>12
        <3> QED
            BY <3>2, <3>3, <1>n, <1>s, <1>o
    <2> QED
        BY <2>10, <2>11, <2>12
<1>3. CASE DrawSeq(h) \/ AppendEntry(h) \/ SkipLog(h)
    <2>1. (\A A \in SUBSET Counter : Has(work'[h], A) <=> Has(work[h], A)) /\ \A y \in Counter : atomics'[y] = atomics[y]
        BY <1>3, LoggingStep
    <2>2. B' = B
        <3>1. before <=> after
            BY <2>1
        <3> QED
            BY <3>1, <1>o
    <2> QED
        BY <2>1, <2>2, <1>n, <1>s, <1>o
<1> QED
    BY <1>1, <1>2, <1>3 DEF Handle

\* The sums while handlers count.
LEMMA HandleSums ==
    ASSUME TypeOK, CallInv, SumsInv, NEW h \in Handlers, Handle(h)
    PROVE  SumsInv'
<1> SUFFICES ASSUME Settled'
             PROVE  /\ Splits("matched", "matchedStreaming", "matchedNonStreaming")'
                    /\ Splits("blocked", "blockedStreaming", "blockedNonStreaming")'
                    /\ Nests("total", "inspected")' /\ Nests("inspected", "matched")'
                    /\ Nests("matched", "blocked")'
    BY DEF SumsInv
<1>1. /\ Splits("matched", "matchedStreaming", "matchedNonStreaming")
      /\ Splits("blocked", "blockedStreaming", "blockedNonStreaming")
      /\ Nests("total", "inspected") /\ Nests("inspected", "matched") /\ Nests("matched", "blocked")
    BY HandleSince DEF SumsInv
<1>2. \A t \in Tasks :
          /\ Has(Calls(t), {"matched"}) <=> Has(Calls(t), {"matchedStreaming", "matchedNonStreaming"})
          /\ Has(Calls(t), {"blocked"}) <=> Has(Calls(t), {"blockedStreaming", "blockedNonStreaming"})
          /\ Has(Calls(t), {"blocked"}) => Has(Calls(t), {"matched"})
          /\ Has(Calls(t), {"matched"}) => Has(Calls(t), {"inspected"})
          /\ Has(Calls(t), {"inspected"}) => Has(Calls(t), {"total"})
    BY CallsFacts
<1>3. /\ Rank("total") < Rank("inspected") /\ Rank("inspected") < Rank("matched")
      /\ Rank("matched") < Rank("blocked")
      /\ Rank("matchedStreaming") = Rank("matchedNonStreaming")
      /\ Rank("blockedStreaming") = Rank("blockedNonStreaming")
    BY RankFacts
<1>4. {"total", "inspected", "matched", "blocked", "matchedStreaming",
       "matchedNonStreaming", "blockedStreaming", "blockedNonStreaming"} \subseteq Counter
    BY CounterNames
<1>5. Splits("matched", "matchedStreaming", "matchedNonStreaming")'
    BY <1>1, <1>2, <1>3, <1>4, SplitsStep
<1>6. Splits("blocked", "blockedStreaming", "blockedNonStreaming")'
    BY <1>1, <1>2, <1>3, <1>4, SplitsStep
<1>7. Nests("total", "inspected")'
    BY <1>1, <1>2, <1>3, <1>4, NestsStep
<1>8. Nests("inspected", "matched")'
    BY <1>1, <1>2, <1>3, <1>4, NestsStep
<1>9. Nests("matched", "blocked")'
    BY <1>1, <1>2, <1>3, <1>4, NestsStep
<1> QED
    BY <1>5, <1>6, <1>7, <1>8, <1>9

\* With nothing counted and nobody counting, everything adds up.
LEMMA ZeroSums ==
    Zeroed => SumsInv
<1> SUFFICES ASSUME Zeroed PROVE SumsInv
    OBVIOUS
<1> USE DEF Zeroed
<1>1. \A C : Owers(C) = {} /\ Owing(C) = Cardinality(Owers(C))
    BY DEF Owers, Owing, Has
<1>2. \A C : Owing(C) = 0
    BY <1>1, FS_EmptySet
<1>3. \A c, d : Between(c, d) = {}
    BY DEF Between, Has
<1>4. \A c, d : Cardinality(Between(c, d)) = 0
    BY <1>3, FS_EmptySet
<1>5. \A c \in Counter : atomics[c] = 0
    OBVIOUS
<1>6. \A c, d, e \in Counter : Splits(c, d, e) /\ Nests(c, d)
    BY <1>2, <1>4, <1>5 DEF Splits, Nests
<1> QED
    BY <1>6, CounterNames DEF SumsInv

\* The sums while management requests are served.
LEMMA ManageSums ==
    ASSUME TypeOK, ResetInv, CallInv, SumsInv, NEW g \in Managers, Manage(g)
    PROVE  SumsInv'
<1>1. CASE Settled' /\ Settled /\ UNCHANGED <<atomics, logEntries, handlerVars>>
    BY <1>1 DEF SumsInv, Splits, Nests, Owing, Between, handlerVars
<1>2. CASE Zeroed'
    BY <1>2, ZeroSums, PTL
<1>3. CASE ~Settled'
    BY <1>3 DEF SumsInv
<1> QED
    BY <1>1, <1>2, <1>3, ManageSettled

-----------------------------------------------------------------------------
(* The log.                                                                 *)

\* The number appending changes by the handler that takes the step.
LEMMA AppendingStep ==
    ASSUME NEW h \in Handlers, \A k \in Handlers \ {h} : entry'[k] = entry[k]
    PROVE  /\ Cardinality(Appending) \in Nat /\ Cardinality(Appending)' \in Nat
           /\ h \notin Appending /\ h \in Appending' => Cardinality(Appending)' = Cardinality(Appending) + 1
           /\ h \in Appending /\ h \notin Appending' => Cardinality(Appending)' = Cardinality(Appending) - 1
           /\ (h \in Appending <=> h \in Appending') => Cardinality(Appending)' = Cardinality(Appending)
<1>1. Appending \in SUBSET Handlers /\ Appending' \in SUBSET Handlers
    BY DEF Appending
<1>2. \A k \in Handlers \ {h} : k \in Appending' <=> k \in Appending
    BY DEF Appending
<1>3. /\ Cardinality(Appending) \in Nat /\ Cardinality(Appending') \in Nat
      /\ Cardinality(Appending') + (IF h \in Appending THEN 1 ELSE 0)
            = Cardinality(Appending) + (IF h \in Appending' THEN 1 ELSE 0)
    BY <1>1, <1>2, Recount
<1> QED
    BY <1>3

\* Lines in the log and on their way have numbers.
LEMMA SeqTypes ==
    ASSUME TypeOK, CallInv
    PROVE  /\ \A i \in DOMAIN logEntries : logEntries[i].seq \in Nat
           /\ \A l \in Appending : entry[l].seq \in Nat
           /\ Appending \subseteq Handlers
<1>1. \A i \in DOMAIN logEntries : logEntries[i] \in LogEntry
    BY DEF TypeOK
<1>2. Appending \subseteq Handlers /\ \A l \in Appending : entry[l] \in LogEntry
    BY DEF Appending, CallInv
<1>3. \A e \in LogEntry : e.seq \in Nat
    BY DEF LogEntry
<1> QED
    BY <1>1, <1>2, <1>3

\* A number drawn is a new one.
LEMMA DrawLog ==
    ASSUME TypeOK, CallInv, LogInv, Settled, NEW h \in Handlers, DrawSeq(h)
    PROVE  LogInv'
<1> USE DEF TypeOK
<1> DEFINE n == atomics["nextLogSeq"]
<1>1. /\ n \in Nat /\ n' = n + 1 /\ logEntries' = logEntries
      /\ entry'[h].seq = n + 1 /\ \A k \in Handlers \ {h} : entry'[k] = entry[k]
    BY DEF DrawSeq
<1>2. Appending' = Appending \cup {h} /\ h \notin Appending
    <2>1. entry'[h] # NoEntry
        <3>1. NoEntry.seq = 0 /\ entry'[h].seq # 0
            BY <1>1 DEF NoEntry
        <3> QED
            BY <3>1
    <2> QED
        BY <2>1, <1>1 DEF DrawSeq, Appending
<1>3. /\ Cardinality(Appending) \in Nat
      /\ Cardinality(Appending)' = Cardinality(Appending) + 1
    BY <1>1, <1>2, AppendingStep
<1>4. /\ Cardinality(Appending) <= n
      /\ LET drawn == n - Cardinality(Appending)
         IN  Len(logEntries) = IF drawn < MaxLogEntries THEN drawn ELSE MaxLogEntries
      /\ \A i \in DOMAIN logEntries : logEntries[i].seq <= n
      /\ \A i, j \in DOMAIN logEntries : i < j =>
            /\ logEntries[i].seq # logEntries[j].seq
            /\ logEntries[i].by = logEntries[j].by => logEntries[i].seq < logEntries[j].seq
      /\ \A l \in Appending :
            /\ entry[l].seq <= n
            /\ \A k \in Appending : k # l => entry[l].seq # entry[k].seq
            /\ \A i \in DOMAIN logEntries :
                  /\ logEntries[i].seq # entry[l].seq
                  /\ logEntries[i].by = l => logEntries[i].seq < entry[l].seq
    BY DEF LogInv
<1>5. /\ \A i \in DOMAIN logEntries : logEntries[i].seq \in Nat
      /\ \A l \in Appending : entry[l].seq \in Nat
      /\ Appending \subseteq Handlers
    BY SeqTypes
<1> HIDE DEF n
<1>6. Cardinality(Appending)' <= n'
    BY <1>1, <1>3, <1>4
<1>7. LET drawn == n' - Cardinality(Appending)'
      IN  Len(logEntries') = IF drawn < MaxLogEntries THEN drawn ELSE MaxLogEntries
    <2>1. n' - Cardinality(Appending)' = n - Cardinality(Appending)
        BY <1>1, <1>3
    <2> QED
        BY <1>1, <1>4, <2>1
<1>8. \A i \in DOMAIN logEntries' : logEntries'[i].seq <= n'
    BY <1>1, <1>4, <1>5
<1>9. ASSUME NEW l \in Appending'
      PROVE  /\ entry'[l].seq <= n'
             /\ \A k \in Appending' : k # l => entry'[l].seq # entry'[k].seq
             /\ \A i \in DOMAIN logEntries' :
                  /\ logEntries'[i].seq # entry'[l].seq
                  /\ logEntries'[i].by = l => logEntries'[i].seq < entry'[l].seq
    <2>1. CASE l = h
        <3>1. entry'[l].seq = n + 1
            BY <1>1, <2>1
        <3>2. \A k \in Appending' : k # l => k \in Appending /\ entry'[k] = entry[k]
            BY <1>1, <1>2, <1>5, <2>1
        <3>3. \A k \in Appending' : k # l => entry'[l].seq # entry'[k].seq
            BY <3>1, <3>2, <1>1, <1>4, <1>5
        <3>4. \A i \in DOMAIN logEntries' : logEntries'[i].seq < entry'[l].seq
            BY <3>1, <1>1, <1>4, <1>5
        <3>5. \A i \in DOMAIN logEntries' : logEntries'[i].seq \in Nat
            BY <1>1, <1>5
        <3> QED
            BY <3>1, <3>3, <3>4, <3>5, <1>1
    <2>2. CASE l # h
        <3>1. l \in Appending /\ entry'[l] = entry[l]
            BY <1>1, <1>2, <1>5, <2>2
        <3>2. ASSUME NEW k \in Appending', k # l
              PROVE  entry'[l].seq # entry'[k].seq
            <4>1. CASE k = h
                BY <4>1, <3>1, <1>1, <1>4, <1>5
            <4>2. CASE k # h
                BY <4>2, <3>1, <3>2, <1>1, <1>2, <1>4, <1>5
            <4> QED
                BY <4>1, <4>2
        <3>3. entry'[l].seq <= n'
            BY <3>1, <1>1, <1>4, <1>5
        <3> QED
            BY <3>1, <3>2, <3>3, <1>1, <1>4
    <2> QED
        BY <2>1, <2>2
<1>10. \A i, j \in DOMAIN logEntries' : i < j =>
          /\ logEntries'[i].seq # logEntries'[j].seq
          /\ logEntries'[i].by = logEntries'[j].by => logEntries'[i].seq < logEntries'[j].seq
    BY <1>1, <1>4
<1> QED
    BY <1>6, <1>7, <1>8, <1>9, <1>10 DEF LogInv, n

\* An appended line is the only one of its number, and the last of its handler.
LEMMA AppendLog ==
    ASSUME TypeOK, CallInv, LogInv, Settled, NEW h \in Handlers, AppendEntry(h)
    PROVE  LogInv'
<1> USE DEF TypeOK
<1> DEFINE n == atomics["nextLogSeq"]
           e == entry[h]
           new == Appended(logEntries, e)
<1>0. h \in Appending /\ e \in LogEntry /\ e.by = h /\ n \in Nat
    BY DEF AppendEntry, Appending, CallInv
<1>1. /\ n' = n /\ logEntries' = new
      /\ \A k \in Handlers \ {h} : entry'[k] = entry[k]
    BY DEF AppendEntry
<1>2. Appending' = Appending \ {h}
    BY DEF AppendEntry, Appending
<1>3. /\ Cardinality(Appending) \in Nat /\ Cardinality(Appending)' \in Nat
      /\ Cardinality(Appending)' = Cardinality(Appending) - 1
    BY <1>0, <1>1, <1>2, AppendingStep
<1>4. /\ Cardinality(Appending) <= n
      /\ LET drawn == n - Cardinality(Appending)
         IN  Len(logEntries) = IF drawn < MaxLogEntries THEN drawn ELSE MaxLogEntries
      /\ \A i \in DOMAIN logEntries : logEntries[i].seq <= n
      /\ \A i, j \in DOMAIN logEntries : i < j =>
            /\ logEntries[i].seq # logEntries[j].seq
            /\ logEntries[i].by = logEntries[j].by => logEntries[i].seq < logEntries[j].seq
      /\ \A l \in Appending :
            /\ entry[l].seq <= n
            /\ \A k \in Appending : k # l => entry[l].seq # entry[k].seq
            /\ \A i \in DOMAIN logEntries :
                  /\ logEntries[i].seq # entry[l].seq
                  /\ logEntries[i].by = l => logEntries[i].seq < entry[l].seq
    BY DEF LogInv
<1>5. /\ \A i \in DOMAIN logEntries : logEntries[i].seq \in Nat
      /\ \A l \in Appending : entry[l].seq \in Nat
      /\ Appending \subseteq Handlers
      /\ Len(logEntries) \in Nat /\ DOMAIN logEntries = 1..Len(logEntries)
      /\ MaxLogEntries \in Nat /\ MaxLogEntries > 0
    BY LogAssumption, SeqTypes
<1>6. /\ new \in Seq(LogEntry)
      /\ Len(new) = IF Len(logEntries) < MaxLogEntries THEN Len(logEntries) + 1 ELSE MaxLogEntries
      /\ new[Len(new)] = e
    BY <1>0, AppendedFacts
<1>7. PICK off \in {0, 1} :
          /\ Len(new) = Len(logEntries) + 1 - off
          /\ \A i \in 1..(Len(logEntries) - off) : new[i] = logEntries[i + off]
    BY <1>0, AppendedFacts
<1>8. Len(new) \in Nat /\ DOMAIN new = 1..Len(new)
    BY <1>6
<1> HIDE DEF n, e, new
<1>9. ASSUME NEW i \in DOMAIN new, i # Len(new)
      PROVE  i + off \in DOMAIN logEntries /\ new[i] = logEntries[i + off] /\ i \in Int /\ off \in Int
    <2>1. i \in 1..Len(new) /\ off \in Int
        BY <1>8
    <2>2. i \in 1..(Len(logEntries) - off)
        BY <2>1, <1>5, <1>7, <1>9
    <2>3. i + off \in 1..Len(logEntries)
        BY <2>1, <2>2, <1>5
    <2> QED
        BY <2>1, <2>2, <2>3, <1>5, <1>7
<1>10. LET drawn == n' - Cardinality(Appending)'
       IN  Len(new) = IF drawn < MaxLogEntries THEN drawn ELSE MaxLogEntries
    <2>1. n' - Cardinality(Appending)' = n - Cardinality(Appending) + 1
        BY <1>0, <1>1, <1>3
    <2>2. n - Cardinality(Appending) \in Nat
        BY <1>0, <1>3, <1>4
    <2> QED
        BY <1>4, <1>5, <1>6, <2>1, <2>2
<1>11. Cardinality(Appending)' <= n'
    BY <1>0, <1>1, <1>3, <1>4
<1>12. e.seq <= n /\ e.seq \in Nat
    BY <1>0, <1>4, <1>5 DEF e
<1>13. \A i \in DOMAIN new : new[i].seq <= n'
    <2> SUFFICES ASSUME NEW i \in DOMAIN new PROVE new[i].seq <= n
        BY <1>1
    <2>1. CASE i = Len(new)
        BY <2>1, <1>6, <1>12
    <2>2. CASE i # Len(new)
        BY <2>2, <1>9, <1>4
    <2> QED
        BY <2>1, <2>2
<1>14. ASSUME NEW i \in DOMAIN new, NEW j \in DOMAIN new, i < j
       PROVE  /\ new[i].seq # new[j].seq
              /\ new[i].by = new[j].by => new[i].seq < new[j].seq
    <2>0. i # Len(new)
        BY <1>8, <1>14
    <2>i. i + off \in DOMAIN logEntries /\ new[i] = logEntries[i + off] /\ i \in Int /\ off \in Int
        BY <2>0, <1>9
    <2>1. CASE j = Len(new)
        <3>1. new[j] = e
            BY <2>1, <1>6
        <3>2. /\ logEntries[i + off].seq # e.seq
              /\ logEntries[i + off].by = h => logEntries[i + off].seq < e.seq
            BY <2>i, <1>0, <1>4 DEF e
        <3> QED
            BY <3>1, <3>2, <2>i, <1>0
    <2>2. CASE j # Len(new)
        <3>1. j + off \in DOMAIN logEntries /\ new[j] = logEntries[j + off] /\ j \in Int
            BY <2>2, <1>9
        <3>2. i + off < j + off
            BY <3>1, <2>i, <1>14
        <3> QED
            BY <3>1, <3>2, <2>i, <1>4
    <2> QED
        BY <2>1, <2>2
<1>15. ASSUME NEW l \in Appending'
       PROVE  /\ entry'[l].seq <= n'
              /\ \A k \in Appending' : k # l => entry'[l].seq # entry'[k].seq
              /\ \A i \in DOMAIN new :
                  /\ new[i].seq # entry'[l].seq
                  /\ new[i].by = l => new[i].seq < entry'[l].seq
    <2>1. l \in Appending /\ l # h /\ entry'[l] = entry[l]
        BY <1>1, <1>2, <1>5
    <2>2. \A k \in Appending' : k \in Appending /\ entry'[k] = entry[k]
        BY <1>1, <1>2, <1>5
    <2>3. ASSUME NEW i \in DOMAIN new
          PROVE  /\ new[i].seq # entry[l].seq
                 /\ new[i].by = l => new[i].seq < entry[l].seq
        <3>1. CASE i = Len(new)
            <4>1. new[i] = e /\ e.seq # entry[l].seq
                BY <3>1, <2>1, <1>0, <1>4, <1>6 DEF e
            <4> QED
                BY <4>1, <2>1, <1>0
        <3>2. CASE i # Len(new)
            BY <3>2, <2>1, <1>4, <1>9
        <3> QED
            BY <3>1, <3>2
    <2>4. entry[l].seq <= n'
        BY <2>1, <1>1, <1>4
    <2>5. \A k \in Appending' : k # l => entry[l].seq # entry[k].seq
        BY <2>1, <2>2, <1>4
    <2> QED
        BY <2>1, <2>2, <2>3, <2>4, <2>5
<1> QED
    BY <1>1, <1>10, <1>11, <1>13, <1>14, <1>15 DEF LogInv, n

\* The log while handlers count and log.
LEMMA HandleLog ==
    ASSUME TypeOK, CallInv, LogInv, NEW h \in Handlers, Handle(h)
    PROVE  LogInv'
<1>1. CASE ~Settled'
    BY <1>1 DEF LogInv
<1>2. CASE Settled'
    <2>1. Settled
        BY <1>2, HandleSince
    <2>2. CASE (\E t \in Tasks : Begin(h, t)) \/ Add(h) \/ SkipLog(h)
        <3>1. UNCHANGED <<logEntries, entry>>
            BY <2>2 DEF Begin, Add, SkipLog
        <3>2. Appending' = Appending
            BY <3>1 DEF Appending
        <3>3. atomics'["nextLogSeq"] = atomics["nextLogSeq"]
            <4>1. Add(h) => Head(work[h]) \in Counter
                BY DEF Add, Adds
            <4>2. "nextLogSeq" \notin Counter
                BY StepNames
            <4> QED
                BY <2>2, <4>1, <4>2 DEF Begin, Add, SkipLog, TypeOK
        <3> QED
            BY <2>1, <3>1, <3>2, <3>3 DEF LogInv
    <2> QED
        BY <2>1, <2>2, DrawLog, AppendLog DEF Handle
<1> QED
    BY <1>1, <1>2

\* With nothing logged and nobody logging, the log is complete.
LEMMA ZeroLog == Zeroed => LogInv
<1> SUFFICES ASSUME Zeroed PROVE LogInv
    OBVIOUS
<1>1. Appending = {}
    BY DEF Appending, Zeroed
<1>2. Cardinality(Appending) = 0
    BY <1>1, FS_EmptySet
<1>3. logEntries = <<>> /\ atomics["nextLogSeq"] = 0
    BY DEF Zeroed
<1> QED
    BY <1>1, <1>2, <1>3, LogAssumption DEF LogInv

\* The log while management requests are served.
LEMMA ManageLog ==
    ASSUME TypeOK, ResetInv, CallInv, LogInv, NEW g \in Managers, Manage(g)
    PROVE  LogInv'
<1>1. CASE Settled' /\ Settled /\ UNCHANGED <<atomics, logEntries, handlerVars>>
    BY <1>1 DEF LogInv, Appending, handlerVars
<1>2. CASE Zeroed'
    BY <1>2, ZeroLog, PTL
<1>3. CASE ~Settled'
    BY <1>3 DEF LogInv
<1> QED
    BY <1>1, <1>2, <1>3, ManageSettled

-----------------------------------------------------------------------------
(* Lines and counts.                                                        *)

\* What Counted holds.
LEMMA CountedFacts ==
    ASSUME NEW p \in Counted
    PROVE  /\ p[1] \in Counter
           /\ p[2] \subseteq Inspected
           /\ \A t \in Tasks : Has(Calls(t), p[2]) => Has(Calls(t), {p[1]})
<1>a. \/ p = <<"matchedStreaming", {"match stream"}>>
      \/ p = <<"matchedNonStreaming", {"match non-stream"}>>
      \/ p = <<"matched", Matches>>
      \/ p = <<"inspected", Inspected>>
      \/ p = <<"total", Inspected>>
    BY DEF Counted
<1>1. \/ p[1] = "matchedStreaming" /\ p[2] = {"match stream"}
      \/ p[1] = "matchedNonStreaming" /\ p[2] = {"match non-stream"}
      \/ p[1] = "matched" /\ p[2] = Matches
      \/ p[1] = "inspected" /\ p[2] = Inspected
      \/ p[1] = "total" /\ p[2] = Inspected
    <2>1. \A a, b : p = <<a, b>> => p[1] = a /\ p[2] = b
        OBVIOUS
    <2> QED
        BY <1>a, <2>1, Zenon
<1>2. p[1] \in Counter
    BY <1>1, CounterNames
<1>3. p[2] \subseteq Inspected
    BY <1>1 DEF Inspected, Matches
<1>4. ASSUME NEW t \in Tasks, Has(Calls(t), p[2])
      PROVE  Has(Calls(t), {p[1]})
    <2>1. /\ Has(Calls(t), {"inspected"}) => Has(Calls(t), {"total"})
          /\ Has(Calls(t), {"match stream"}) => Has(Calls(t), {"matchedStreaming"})
          /\ Has(Calls(t), {"match non-stream"}) => Has(Calls(t), {"matchedNonStreaming"})
          /\ Has(Calls(t), Matches) => Has(Calls(t), {"matched"})
          /\ Has(Calls(t), Inspected) => Has(Calls(t), {"inspected"})
        BY CallsFacts
    <2> QED
        BY <1>1, <1>4, <2>1
<1> QED
    BY <1>2, <1>3, <1>4

\* The handlers with a line to write change by the one that takes the step.
LEMMA CreditStep ==
    ASSUME NEW h \in Handlers, NEW c, NEW texts,
           \A k \in Handlers \ {h} : work'[k] = work[k]
    PROVE  /\ Cardinality(Credit(c, texts)) \in Nat /\ Cardinality(Credit(c, texts))' \in Nat
           /\ Cardinality(Credit(c, texts))' <= Cardinality(Credit(c, texts)) + 1
           /\ (h \in Credit(c, texts)' => h \in Credit(c, texts)) =>
                 Cardinality(Credit(c, texts))' <= Cardinality(Credit(c, texts))
           /\ h \in Credit(c, texts) /\ h \notin Credit(c, texts)' =>
                 Cardinality(Credit(c, texts))' = Cardinality(Credit(c, texts)) - 1
<1>1. Credit(c, texts) \in SUBSET Handlers /\ Credit(c, texts)' \in SUBSET Handlers
    BY DEF Credit
<1>2. \A k \in Handlers \ {h} : k \in Credit(c, texts)' <=> k \in Credit(c, texts)
    BY DEF Credit
<1>3. /\ Cardinality(Credit(c, texts)) \in Nat /\ Cardinality(Credit(c, texts)') \in Nat
      /\ Cardinality(Credit(c, texts)') + (IF h \in Credit(c, texts) THEN 1 ELSE 0)
            = Cardinality(Credit(c, texts)) + (IF h \in Credit(c, texts)' THEN 1 ELSE 0)
    BY <1>1, <1>2, Recount
<1> QED
    BY <1>3

\* The line of a verdict is written only after what it reports was counted.
LEMMA CoveredStep ==
    ASSUME TypeOK, CallInv, NEW h \in Handlers, Handle(h), NEW p \in Counted, Covered(p[1], p[2])
    PROVE  Covered(p[1], p[2])'
<1> USE DEF TypeOK
<1> DEFINE c == p[1]
           texts == p[2]
           credit == Credit(c, texts)
           lines == Lines(logEntries, texts)
<1>0. /\ c \in Counter /\ texts \subseteq Inspected
      /\ \A t \in Tasks : Has(Calls(t), texts) => Has(Calls(t), {c})
    BY CountedFacts
<1>n. atomics[c] \in Nat
    BY <1>0
<1>l. lines \in Nat
    <2>1. IsFiniteSet(DOMAIN logEntries)
        BY FS_Interval
    <2>2. IsFiniteSet({i \in DOMAIN logEntries : logEntries[i].text \in texts})
        BY <2>1, FS_Subset
    <2> QED
        BY <2>2, FS_CardinalityType DEF Lines
<1>k. \A k \in Handlers \ {h} : work'[k] = work[k]
    BY DEF Handle, Begin, Add, DrawSeq, AppendEntry, SkipLog
<1> DEFINE has == Has(work[h], texts) /\ ~Has(work[h], {c})
<1>i. (h \in credit <=> has) /\ (h \in credit' <=> has')
    BY DEF Credit
<1>s. /\ Cardinality(credit) \in Nat /\ Cardinality(credit)' \in Nat
      /\ Cardinality(credit)' <= Cardinality(credit) + 1
      /\ (has' => has) => Cardinality(credit)' <= Cardinality(credit)
      /\ has /\ ~has' => Cardinality(credit)' = Cardinality(credit) - 1
    BY <1>i, <1>k, CreditStep
<1>c. lines + Cardinality(credit) <= atomics[c]
    BY DEF Covered
<1> SUFFICES lines' + Cardinality(credit)' <= atomics'[c]
    BY DEF Covered
<1> HIDE DEF credit, c, texts
<1>1. ASSUME NEW t \in Tasks, Begin(h, t)
      PROVE  lines' + Cardinality(credit)' <= atomics'[c]
    <2>1. ~has'
        <3>1. work'[h] = Calls(t)
            BY <1>1 DEF Begin
        <3> QED
            BY <3>1, <1>0
    <2>2. atomics' = atomics /\ lines' = lines
        BY <1>1 DEF Begin, texts
    <2> HIDE DEF has, lines
    <2> QED
        BY <2>1, <2>2, <1>c, <1>s, <1>n, <1>l
<1>2. CASE Add(h)
    <2> DEFINE x == Head(work[h])
    <2>1. x \in Counter /\ \A C : Has(work[h], C) <=> x \in C \/ Has(work'[h], C)
        BY <1>2, Visit DEF Add, Adds
    <2>2. atomics'[c] = atomics[c] + (IF x = c THEN 1 ELSE 0)
        BY <1>2, <1>0, <1>n, <2>1 DEF Add
    <2>3. lines' = lines
        BY <1>2 DEF Add, texts
    <2> HIDE DEF x, lines
    <2>5. CASE x = c
        <3>1. atomics'[c] = atomics[c] + 1
            BY <2>2, <2>5
        <3> HIDE DEF has
        <3> QED
            BY <3>1, <2>3, <1>c, <1>s, <1>n, <1>l
    <2>6. CASE x # c
        <3>1. has' => has
            BY <2>1, <2>6
        <3>2. atomics'[c] = atomics[c]
            BY <2>2, <2>6, <1>n
        <3> HIDE DEF has
        <3> QED
            BY <3>1, <3>2, <2>3, <1>c, <1>s, <1>n, <1>l
    <2> QED
        BY <2>5, <2>6
<1>3. CASE DrawSeq(h) \/ SkipLog(h)
    <2>1. has' => has
        <3>1. CASE DrawSeq(h)
            BY <3>1 DEF DrawSeq
        <3>2. CASE SkipLog(h)
            <4>1. Head(work[h]) \in LineText /\ Head(work[h]) # c
                BY <3>2, <1>0, StepNames DEF SkipLog, Logs
            <4>2. \A A : Has(work[h], A) <=> Head(work[h]) \in A \/ Has(work'[h], A)
                BY <3>2, Visit DEF SkipLog, Logs
            <4> QED
                BY <4>1, <4>2
        <3> QED
            BY <1>3, <3>1, <3>2
    <2>2. atomics'[c] = atomics[c]
        BY <1>0, <1>3, LoggingStep
    <2>3. lines' = lines
        BY <1>3 DEF DrawSeq, SkipLog, texts
    <2> HIDE DEF has, lines
    <2> QED
        BY <2>1, <2>2, <2>3, <1>c, <1>s, <1>n, <1>l
<1>4. CASE AppendEntry(h)
    <2> DEFINE x == Head(work[h])
    <2>1. /\ entry[h] \in LogEntry /\ entry[h].text = x /\ x \in LineText
          /\ work[h] # <<>> /\ work'[h] = Tail(work[h])
        BY <1>4 DEF AppendEntry, CallInv
    <2>2. \A A : Has(work[h], A) <=> x \in A \/ Has(work'[h], A)
        BY <2>1, Visit
    <2>3. x # c
        BY <2>1, <1>0, StepNames
    <2>4. atomics' = atomics /\ logEntries' = Appended(logEntries, entry[h])
        BY <1>4 DEF AppendEntry
    <2>5. lines' = Lines(Appended(logEntries, entry[h]), texts)
        BY <2>4 DEF texts
    <2>6. lines' \in Nat /\ lines' <= lines + (IF x \in texts THEN 1 ELSE 0)
        BY <2>1, <2>5, LinesFacts
    <2>7. x \in texts => has /\ ~has'
        <3> SUFFICES ASSUME x \in texts PROVE has /\ ~has'
            OBVIOUS
        <3>1. x \in Ranked /\ c \in Ranked /\ texts \subseteq Ranked
            BY <1>0 DEF Ranked
        <3>a. x \in Inspected
            BY <1>0
        <3>2. Rank(x) = 7 /\ \A y \in Ranked : Rank(y) <= Rank(x)
            <4> HIDE DEF x
            <4>1. Rank(x) = 7
                BY <3>a, RankFacts
            <4>2. ASSUME NEW y \in Ranked
                  PROVE  Rank(y) <= 7
                <5>1. Rank(y) \in 1..7
                    BY RankFacts
                <5> QED
                    BY <5>1
            <4> QED
                BY <4>1, <4>2
        <3>3. work[h] \in Seq(Steps) /\ Ordered(work[h])
            BY DEF CallInv, Steps
        <3>4. \A y \in Ranked : ~Has(work'[h], {y})
            <4>1. Rank(x) <= Rank(x) /\ work[h] # <<>> /\ work'[h] = Tail(work[h])
                BY <2>1, <3>1, <3>2
            <4>2. \A y \in Ranked : Rank(y) <= Rank(x) => ~Has(Tail(work[h]), {y})
                BY <4>1, <3>1, <3>3, VisitOrdered
            <4> QED
                BY <4>1, <4>2, <3>2
        <3>5. ~Has(work'[h], {c}) /\ ~Has(work'[h], texts)
            <4>1. ~Has(work'[h], {c})
                BY <3>1, <3>4
            <4>2. ASSUME NEW i \in DOMAIN work'[h], work'[h][i] \in texts
                  PROVE  FALSE
                <5>1. Has(work'[h], {work'[h][i]})
                    BY DEF Has
                <5> QED
                    BY <4>2, <5>1, <3>1, <3>4
            <4> QED
                BY <4>1, <4>2 DEF Has
        <3> QED
            BY <2>2, <2>3, <3>5
    <2>8. x \notin texts => (has' => has)
        BY <2>2, <2>3
    <2> HIDE DEF has, lines, x
    <2>9. CASE x \in texts
        <3>1. lines' <= lines + 1
            BY <2>6, <2>9, <1>l
        <3>2. Cardinality(credit)' = Cardinality(credit) - 1
            BY <2>7, <2>9, <1>s
        <3>3. atomics'[c] = atomics[c] /\ lines' \in Nat
            BY <2>4, <2>6
        <3> QED
            BY <3>1, <3>2, <3>3, <1>c, <1>s, <1>n, <1>l
    <2>10. CASE x \notin texts
        <3>1. lines' <= lines
            BY <2>6, <2>10, <1>l
        <3>2. Cardinality(credit)' <= Cardinality(credit)
            BY <2>8, <2>10, <1>s
        <3>3. atomics'[c] = atomics[c] /\ lines' \in Nat
            BY <2>4, <2>6
        <3> QED
            BY <3>1, <3>2, <3>3, <1>c, <1>s, <1>n, <1>l
    <2> QED
        BY <2>9, <2>10
<1> QED
    BY <1>1, <1>2, <1>3, <1>4 DEF Handle

\* See above.
LEMMA HandleCredit ==
    ASSUME TypeOK, CallInv, CreditInv, NEW h \in Handlers, Handle(h)
    PROVE  CreditInv'
<1> SUFFICES ASSUME Settled', NEW p \in Counted
             PROVE  Covered(p[1], p[2])'
    BY DEF CreditInv, Counted
<1>1. Covered(p[1], p[2])
    BY HandleSince DEF CreditInv
<1> QED
    BY <1>1, CoveredStep

\* An empty log shows nothing that was not counted.
LEMMA ZeroCredit == Zeroed => CreditInv
<1> SUFFICES ASSUME Zeroed, NEW p \in Counted PROVE Covered(p[1], p[2])
    BY DEF CreditInv
<1>1. Credit(p[1], p[2]) = {}
    BY DEF Credit, Zeroed, Has
<1>2. {i \in DOMAIN logEntries : logEntries[i].text \in p[2]} = {}
    BY DEF Zeroed
<1>3. Lines(logEntries, p[2]) = 0 /\ Cardinality(Credit(p[1], p[2])) = 0
    BY <1>1, <1>2, FS_EmptySet DEF Lines
<1>4. atomics[p[1]] = 0
    BY CountedFacts DEF Zeroed
<1> QED
    BY <1>3, <1>4 DEF Covered

\* Lines and counts while management requests are served.
LEMMA ManageCredit ==
    ASSUME TypeOK, ResetInv, CallInv, CreditInv, NEW g \in Managers, Manage(g)
    PROVE  CreditInv'
<1>1. CASE Settled' /\ Settled /\ UNCHANGED <<atomics, logEntries, handlerVars>>
    BY <1>1 DEF CreditInv, Covered, Credit, Counted, handlerVars
<1>2. CASE Zeroed'
    BY <1>2, ZeroCredit, PTL
<1>3. CASE ~Settled'
    BY <1>3 DEF CreditInv
<1> QED
    BY <1>1, <1>2, <1>3, ManageSettled

-----------------------------------------------------------------------------
(* Snapshots.                                                               *)

\* Counters only grow while a snapshot is taken that no reset disturbs.
LEMMA HandleSnap ==
    ASSUME TypeOK, SnapInv, NEW h \in Handlers, Handle(h)
    PROVE  SnapInv'
<1>1. /\ UNCHANGED managerVars /\ Resetting' = Resetting /\ torn' = (torn \/ Resetting)
    BY HandleSince
<1>2. Settled => Settled'
    BY <1>1 DEF Settled
<1>3. ASSUME NEW c \in Counter
      PROVE  atomics[c] \in Nat /\ atomics'[c] \in Nat /\ atomics'[c] >= atomics[c]
    <2>1. Handle(h) => \/ atomics' = atomics
                       \/ \E d \in Counter \cup {"nextLogSeq"} : atomics' = [atomics EXCEPT ![d] = @ + 1]
        <3>1. Add(h) => Head(work[h]) \in Counter
            BY DEF Add, Adds
        <3> QED
            BY <3>1 DEF Handle, Begin, Add, DrawSeq, AppendEntry, SkipLog
    <2>2. atomics[c] \in Nat /\ \A d \in Counter \cup {"nextLogSeq"} : atomics[d] \in Nat
        BY DEF TypeOK
    <2>3. CASE atomics' = atomics
        BY <2>2, <2>3
    <2>4. ASSUME NEW d \in Counter \cup {"nextLogSeq"}, atomics' = [atomics EXCEPT ![d] = @ + 1]
          PROVE  atomics'[c] = atomics[c] \/ atomics'[c] = atomics[c] + 1
        BY <2>2, <2>4 DEF TypeOK
    <2> QED
        BY <2>1, <2>2, <2>3, <2>4
<1>4. ASSUME NEW g \in Managers, ~excused[g], NEW p \in Counted, mpc[g] = "loading"
      PROVE  Lines(snapshot[g].log, p[2]) <= atomics'[p[1]]
    <2> DEFINE lines == Lines(snapshot[g].log, p[2])
    <2>1. lines <= atomics[p[1]] /\ p[1] \in Counter
        BY <1>4, CountedFacts DEF SnapInv
    <2>2. lines \in Nat
        <3>1. snapshot[g].log \in Seq(LogEntry)
            BY DEF TypeOK
        <3>2. IsFiniteSet(DOMAIN snapshot[g].log)
            BY <3>1, FS_Interval
        <3>3. IsFiniteSet({i \in DOMAIN snapshot[g].log : snapshot[g].log[i].text \in p[2]})
            BY <3>2, FS_Subset
        <3> QED
            BY <3>3, FS_CardinalityType DEF Lines
    <2> HIDE DEF lines
    <2> QED
        BY <2>1, <2>2, <1>3 DEF lines
<1>5. SUFFICES ASSUME NEW g \in Managers, ~excused[g]
               PROVE  /\ mpc[g] \in {"copying", "loading"} => Settled'
                      /\ \A p \in Counted :
                          /\ mpc[g] = "loading" =>
                                /\ Lines(snapshot[g].log, p[2]) <= atomics'[p[1]]
                                /\ \/ Has(sweep[g], {p[1]})
                                   \/ Lines(snapshot[g].log, p[2]) <= snapshot[g].counters[p[1]]
                          /\ mpc[g] = "served" => Lines(snapshot[g].log, p[2]) <= snapshot[g].counters[p[1]]
    BY <1>1 DEF SnapInv, managerVars, Counted
<1>6. mpc[g] \in {"copying", "loading"} => Settled
    BY <1>5 DEF SnapInv
<1>7. ASSUME NEW p \in Counted
      PROVE  /\ mpc[g] = "loading" => \/ Has(sweep[g], {p[1]})
                                      \/ Lines(snapshot[g].log, p[2]) <= snapshot[g].counters[p[1]]
             /\ mpc[g] = "served" => Lines(snapshot[g].log, p[2]) <= snapshot[g].counters[p[1]]
    BY <1>5 DEF SnapInv
<1> QED
    BY <1>2, <1>4, <1>5, <1>6, <1>7

\* The snapshot that makes the step.
LEMMA OwnSnap ==
    ASSUME TypeOK, CreditInv, SnapInv, NEW g \in Managers, Manage(g), ~excused'[g], NEW p \in Counted
    PROVE  LET lines == Lines(snapshot'[g].log, p[2])
           IN  /\ mpc'[g] \in {"copying", "loading"} => Settled'
               /\ mpc'[g] = "loading" => /\ lines <= atomics'[p[1]]
                                         /\ Has(sweep'[g], {p[1]}) \/ lines <= snapshot'[g].counters[p[1]]
               /\ mpc'[g] = "served" => lines <= snapshot'[g].counters[p[1]]
<1> USE DEF TypeOK
<1> DEFINE c == p[1]
<1>c. c \in Counter
    BY CountedFacts
<1>1. CASE StartReset(g) \/ Zero(g)
    BY <1>1 DEF StartReset, Zero
<1>2. CASE ClearLog(g) \/ Poll(g)
    <2> DEFINE other == \E f \in Managers \ {g} : mpc[f] = "resetting"
    <2>a. ClearLog(g) => excused'[g] = (torn \/ other)
        BY DEF ClearLog
    <2>b. Poll(g) => excused'[g] = (torn \/ Resetting)
        BY DEF Poll
    <2>c. other => Resetting
        BY DEF Resetting
    <2>d. ~torn /\ ~other
        BY <1>2, <2>a, <2>b, <2>c
    <2>1. mpc'[g] = "copying" /\ ~torn' /\ \A f \in Managers \ {g} : mpc[f] # "resetting"
        BY <1>2, <2>d DEF ClearLog, Poll
    <2>2. ~Resetting'
        BY <1>2, <2>1 DEF ClearLog, Poll, Resetting
    <2> QED
        BY <2>1, <2>2 DEF Settled
<1>3. CASE CopyLog(g)
    <2>1. Settled /\ mpc'[g] = "loading" /\ snapshot'[g].log = logEntries /\ sweep'[g] = Counters
        BY <1>3 DEF CopyLog, SnapInv
    <2>2. Settled' /\ atomics' = atomics
        BY <1>3, <2>1 DEF CopyLog, Settled, Resetting
    <2>3. Lines(logEntries, p[2]) <= atomics[c]
        <3>1. Covered(c, p[2])
            BY <2>1 DEF CreditInv
        <3>2. Lines(logEntries, p[2]) \in Nat
            <4>1. IsFiniteSet(DOMAIN logEntries)
                BY FS_Interval
            <4>2. IsFiniteSet({i \in DOMAIN logEntries : logEntries[i].text \in p[2]})
                BY <4>1, FS_Subset
            <4> QED
                BY <4>2, FS_CardinalityType DEF Lines
        <3>3. Cardinality(Credit(c, p[2])) \in Nat
            BY HandlersAssumption, FS_Subset, FS_CardinalityType DEF Credit
        <3>4. atomics[c] \in Nat
            BY <1>c
        <3> QED
            BY <3>1, <3>2, <3>3, <3>4 DEF Covered
    <2>4. Has(Counters, {c})
        BY <1>c, CounterVisits, Zenon
    <2> QED
        BY <2>1, <2>2, <2>3, <2>4
<1>4. CASE Load(g)
    <2> DEFINE x == Head(sweep[g])
               lines == Lines(snapshot[g].log, p[2])
    <2>1. Settled /\ lines <= atomics[c] /\ (Has(sweep[g], {c}) \/ lines <= snapshot[g].counters[c])
        BY <1>4 DEF Load, SnapInv
    <2>2. Settled' /\ atomics' = atomics
        BY <1>4, <2>1 DEF Load, Settled, Resetting
    <2>3. /\ snapshot'[g].log = snapshot[g].log
          /\ snapshot'[g].counters[c] = IF x = c THEN atomics[c] ELSE snapshot[g].counters[c]
        BY <1>4, <1>c DEF Load
    <2>4. Has(sweep[g], {c}) <=> x = c \/ Has(sweep'[g], {c})
        BY <1>4, Visit DEF Load
    <2>5. Has(sweep'[g], {c}) \/ lines <= snapshot'[g].counters[c]
        BY <2>1, <2>3, <2>4
    <2>6. mpc'[g] = "served" => ~Has(sweep'[g], {c})
        <3>1. mpc'[g] = "served" => Len(sweep[g]) = 1
            BY <1>4 DEF Load
        <3>2. ASSUME Len(sweep[g]) = 1
              PROVE  sweep'[g] = <<>>
            <4> DEFINE rest == Tail(sweep[g])
            <4>1. sweep'[g] = Tail(sweep[g]) /\ sweep[g] # <<>> /\ sweep[g] \in Seq(Counter \cup {"nextLogSeq"})
                BY <1>4 DEF Load
            <4>2. Tail(sweep[g]) \in Seq(Counter \cup {"nextLogSeq"}) /\ Len(Tail(sweep[g])) = Len(sweep[g]) - 1
                BY <4>1, HeadTailProperties
            <4>3. \A s \in Seq(Counter \cup {"nextLogSeq"}) : Len(s) = 0 => s = <<>>
                BY EmptySeq
            <4>4. Len(rest) = 0 /\ rest \in Seq(Counter \cup {"nextLogSeq"})
                BY <3>2, <4>2
            <4> HIDE DEF rest
            <4>5. rest = <<>>
                BY <4>3, <4>4
            <4> QED
                BY <4>1, <4>5 DEF rest
        <3> QED
            BY <3>1, <3>2 DEF Has
    <2> HIDE DEF x
    <2> QED
        BY <2>1, <2>2, <2>3, <2>5, <2>6
<1> QED
    BY <1>1, <1>2, <1>3, <1>4 DEF Manage

\* The snapshots that others take.
LEMMA ManageSnap ==
    ASSUME TypeOK, CreditInv, SnapInv, NEW g \in Managers, Manage(g)
    PROVE  SnapInv'
<1> USE DEF TypeOK
<1> SUFFICES ASSUME NEW f \in Managers, ~excused'[f]
             PROVE  /\ mpc'[f] \in {"copying", "loading"} => Settled'
                    /\ \A p \in Counted :
                          LET lines == Lines(snapshot'[f].log, p[2])
                          IN  /\ mpc'[f] = "loading" => /\ lines <= atomics'[p[1]]
                                                        /\ Has(sweep'[f], {p[1]}) \/ lines <= snapshot'[f].counters[p[1]]
                              /\ mpc'[f] = "served" => lines <= snapshot'[f].counters[p[1]]
    BY DEF SnapInv, Counted
<1>1. CASE f = g
    <2>1. \E p : p \in Counted
        BY DEF Counted
    <2> QED
        BY <1>1, <2>1, OwnSnap
<1>2. CASE f # g
    <2>1. UNCHANGED <<mpc[f], sweep[f], snapshot[f]>>
        BY <1>2 DEF Manage, StartReset, Zero, ClearLog, Poll, CopyLog, Load
    <2>2. ~excused[f]
        BY <1>2 DEF Manage, StartReset, Zero, ClearLog, Poll, CopyLog, Load
    <2>3. mpc[f] \in {"copying", "loading"} => Settled /\ ~StartReset(g)
        BY <1>2, <2>2 DEF SnapInv, StartReset
    <2>4. mpc[f] \in {"copying", "loading"} => Settled' /\ UNCHANGED atomics
        BY <2>3, ManageFrame DEF Settled
    <2> QED
        BY <2>1, <2>2, <2>4 DEF SnapInv
<1> QED
    BY <1>1, <1>2

-----------------------------------------------------------------------------
(* The theorems.                                                            *)

\* The inductive invariant holds at first.
LEMMA InitInv == Init => IInv
<1> SUFFICES ASSUME Init PROVE IInv
    OBVIOUS
<1>1. TypeOK /\ CallInv
    BY InitType, CallInit
<1>2. Zeroed
    BY DEF Init, Zeroed
<1>3. SumsInv /\ LogInv /\ CreditInv
    BY <1>2, ZeroSums, ZeroLog, ZeroCredit
<1>4. ~Resetting
    BY DEF Init, Resetting
<1>5. ForgetInv
    <2>1. Counter \cup {"nextLogSeq"} \subseteq Deeds /\ "appended" \in Deeds
        BY DEF Deeds
    <2> QED
        BY <2>1 DEF Init, ForgetInv
<1>6. ResetInv
    BY <1>4 DEF ResetInv
<1>7. SnapInv
    BY DEF Init, SnapInv
<1> QED
    BY <1>1, <1>3, <1>5, <1>6, <1>7 DEF IInv

\* Every step preserves it.
LEMMA NextInv == IInv /\ [Next]_vars => IInv'
<1> SUFFICES ASSUME IInv, [Next]_vars PROVE IInv'
    OBVIOUS
<1>0. TypeOK /\ CallInv /\ ForgetInv /\ ResetInv /\ SumsInv /\ LogInv /\ CreditInv /\ SnapInv
    BY DEF IInv
<1>1. ASSUME NEW h \in Handlers, Handle(h)
      PROVE  IInv'
    <2>1. TypeOK' /\ CallInv'
        BY <1>0, <1>1, HandleType, HandleCall
    <2>2. ForgetInv' /\ ResetInv'
        BY <1>0, <1>1, HandleForget, HandleReset
    <2>3. SumsInv' /\ LogInv'
        BY <1>0, <1>1, HandleSums, HandleLog
    <2>4. CreditInv' /\ SnapInv'
        BY <1>0, <1>1, HandleCredit, HandleSnap
    <2> QED
        BY <2>1, <2>2, <2>3, <2>4 DEF IInv
<1>2. ASSUME NEW g \in Managers, Manage(g)
      PROVE  IInv'
    <2>1. TypeOK' /\ CallInv'
        BY <1>0, <1>2, ManageType, ManageCall
    <2>2. ForgetInv' /\ ResetInv'
        BY <1>0, <1>2, ManageForget, ManageReset
    <2>3. SumsInv' /\ LogInv'
        BY <1>0, <1>2, ManageSums, ManageLog
    <2>4. CreditInv' /\ SnapInv'
        BY <1>0, <1>2, ManageCredit, ManageSnap
    <2> QED
        BY <2>1, <2>2, <2>3, <2>4 DEF IInv
<1>3. CASE UNCHANGED vars
    <2> USE <1>3 DEF vars, handlerVars, managerVars
    <2>1. TypeOK' /\ CallInv'
        BY <1>0 DEF TypeOK, CallInv
    <2>2. Resetting' = Resetting /\ Busy' = Busy /\ Settled' = Settled
        BY DEF Resetting, Busy, Settled
    <2>3. \A c : Doomed(c)' <=> Doomed(c)
        BY DEF Doomed
    <2>4. ForgetInv' /\ ResetInv'
        BY <1>0, <2>2, <2>3 DEF ForgetInv, ResetInv
    <2>5. SumsInv'
        BY <1>0, <2>2 DEF SumsInv, Splits, Nests, Owing, Between
    <2>6. LogInv'
        BY <1>0, <2>2 DEF LogInv, Appending
    <2>7. CreditInv'
        BY <1>0, <2>2 DEF CreditInv, Covered, Credit, Counted
    <2>8. SnapInv'
        BY <1>0, <2>2 DEF SnapInv, Counted
    <2> QED
        BY <2>1, <2>4, <2>5, <2>6, <2>7, <2>8 DEF IInv
<1> QED
    BY <1>1, <1>2, <1>3 DEF Next

\* In every state of every run.
THEOREM Invariance == Spec => []IInv
BY InitInv, NextInv, PTL DEF Spec

\* Every variable keeps its type.
THEOREM TypeCorrect == Spec => []TypeOK
<1>1. IInv => TypeOK
    BY DEF IInv
<1> QED
    BY <1>1, Invariance, PTL

\* Whatever overlaps with it, a finished reset leaves nothing of the time
\* before it began.
THEOREM ResetForgetsThePastHolds == Spec => []ResetForgetsThePast
<1>1. IInv => ResetForgetsThePast
    <2> SUFFICES ASSUME IInv, ~Resetting PROVE ResetForgetsThePast
        BY DEF ResetForgetsThePast
    <2>1. TypeOK /\ ForgetInv
        BY DEF IInv
    <2>2. \A c : ~Doomed(c)
        BY DEF Doomed, Resetting
    <2>3. DOMAIN atomics = Counter \cup {"nextLogSeq"}
        BY <2>1 DEF TypeOK
    <2> QED
        BY <2>1, <2>2, <2>3 DEF ForgetInv, ResetForgetsThePast
<1> QED
    BY <1>1, Invariance, PTL

\* The counters add up while handlers are between two additions.
THEOREM CountsAddUpHolds == Spec => []CountsAddUp
<1>1. IInv => CountsAddUp
    <2> SUFFICES ASSUME IInv, Settled PROVE CountsAddUp
        BY DEF CountsAddUp, Settled
    <2>1. TypeOK /\ SumsInv
        BY DEF IInv
    <2>2. /\ Splits("matched", "matchedStreaming", "matchedNonStreaming")
          /\ Splits("blocked", "blockedStreaming", "blockedNonStreaming")
        BY <2>1 DEF SumsInv
    <2>3. \A c, d : Cardinality(Between(c, d)) \in Nat
        BY HandlersAssumption, FS_Subset, FS_CardinalityType DEF Between
    <2>4. ASSUME NEW c \in Counter, NEW d \in Counter, Nests(c, d)
          PROVE  atomics[d] <= atomics[c]
        <3>1. atomics[c] \in Nat /\ atomics[d] \in Nat
            BY <2>1 DEF TypeOK
        <3> QED
            BY <2>3, <2>4, <3>1 DEF Nests
    <2>5. Nested(atomics)
        BY <2>1, <2>4, CounterNames DEF SumsInv, Nested
    <2> QED
        BY <2>2, <2>5 DEF CountsAddUp, Splits
<1> QED
    BY <1>1, Invariance, PTL

\* The log misses no line, has no number twice, and keeps each handler's order.
THEOREM LogCompleteHolds == Spec => []LogComplete
<1>1. IInv => LogComplete
    <2> SUFFICES ASSUME IInv, Settled PROVE LogComplete
        BY DEF LogComplete, Settled
    <2>1. LogInv
        BY DEF IInv
    <2> QED
        BY <2>1 DEF LogInv, LogComplete, Appending
<1> QED
    BY <1>1, Invariance, PTL

\* A snapshot shows no more lines of a verdict than it counts verdicts.
THEOREM SnapshotCountsItsLogHolds == Spec => []SnapshotCountsItsLog
<1>1. IInv => SnapshotCountsItsLog
    <2> SUFFICES ASSUME IInv, NEW g \in Managers, mpc[g] = "served", ~excused[g]
                 PROVE  /\ Lines(snapshot[g].log, {"match stream"}) <= snapshot[g].counters["matchedStreaming"]
                        /\ Lines(snapshot[g].log, {"match non-stream"}) <= snapshot[g].counters["matchedNonStreaming"]
                        /\ Lines(snapshot[g].log, Matches) <= snapshot[g].counters["matched"]
                        /\ Lines(snapshot[g].log, Inspected) <= snapshot[g].counters["inspected"]
                        /\ Lines(snapshot[g].log, Inspected) <= snapshot[g].counters["total"]
        BY DEF SnapshotCountsItsLog
    <2>1. \A p \in Counted : Lines(snapshot[g].log, p[2]) <= snapshot[g].counters[p[1]]
        BY DEF IInv, SnapInv
    <2> QED
        BY <2>1 DEF Counted
<1> QED
    BY <1>1, Invariance, PTL
=============================================================================
