-------------------------- MODULE StreamGuardProofs --------------------------
(****************************************************************************)
(* What holds of the guard of streams for any number of streams, any        *)
(* sources, any retried streams and any configurations the plugin accepts.  *)
(****************************************************************************)
EXTENDS StreamGuard, SequenceLemmas, FiniteSetTheorems

-----------------------------------------------------------------------------
(* Facts about configurations and the inspector.                            *)

\* A configuration the plugin holds has a budget that is a natural number.
LEMMA ConfigFacts ==
    ASSUME NEW c \in Configs
    PROVE  c \in Config /\ c.GuardRetryAttempts \in Nat /\ c.InterceptStreaming \in BOOLEAN
<1>1. c \in Config /\ Accepted(c)
    BY StreamConfigsAssumption DEF StoredConfig
<1> QED
    BY <1>1 DEF Config, Accepted

\* The retries a chunk is granted are a natural number.
LEMMA GrantedFacts ==
    ASSUME NEW c \in Configs, NEW i \in Nat
    PROVE  /\ Granted(c, i) \in Nat
           /\ c.InterceptStreaming /\ ~(c.StreamAction = "disconnect" /\ i > 1)
                => Granted(c, i) = c.GuardRetryAttempts
BY ConfigFacts DEF Granted

\* The inspector's decision is well formed.
LEMMA InspectType ==
    ASSUME NEW c \in Configs, NEW chunk, NEW n \in Nat, NEW w \in BOOLEAN
    PROVE  InspectStreamChunk(c, chunk, n, w) \in StreamDecision
<1>1. c.InterceptStreaming \in BOOLEAN
    BY ConfigFacts
<1>2. ReasoningMatched(c, LastReport(chunk)) \in BOOLEAN
    BY DEF ReasoningMatched
<1> HIDE DEF ReasoningMatched, LastReport, ReportingLines
<1> QED
    BY <1>1, <1>2 DEF InspectStreamChunk, StreamDecision

\* It orders a retry only with interception on, budget left and, in disconnect
\* mode, nothing written; what is suspicious is retried, dropped or replaced.
LEMMA InspectFacts ==
    ASSUME NEW c, NEW chunk, NEW n \in Nat, NEW w \in BOOLEAN
    PROVE  LET v == InspectStreamChunk(c, chunk, n, w)
           IN  /\ v.Matched = Suspicious(c, chunk)
               /\ v.Retry => /\ v.Matched /\ c.InterceptStreaming /\ n > 0
                             /\ ~(c.StreamAction = "disconnect" /\ w)
               /\ v.Matched /\ ~v.Retry => \/ ~c.InterceptStreaming \/ n = 0
                                           \/ c.StreamAction = "disconnect" /\ w
               /\ v.Matched /\ ~v.Retry => Disposal(v) \in {"dropped", "blocked"}
               /\ ~v.Matched => Disposal(v) = "original"
<1> DEFINE matched    == Suspicious(c, chunk)
           disconnect == c.StreamAction = "disconnect" /\ w
           retry      == matched /\ c.InterceptStreaming /\ n > 0 /\ ~disconnect
           v          == InspectStreamChunk(c, chunk, n, w)
<1>1. /\ v.Matched = matched
      /\ v.Retry = retry
      /\ v.DropChunk = (matched /\ ~retry /\ disconnect)
      /\ v.ReplacementChunk = (matched /\ ~retry /\ ~disconnect)
    BY DEF InspectStreamChunk, Suspicious
<1>2. matched \in BOOLEAN /\ retry \in BOOLEAN /\ disconnect \in BOOLEAN
    BY DEF Suspicious
<1> HIDE DEF matched, disconnect, v
<1>3. v.Matched /\ ~v.Retry => Disposal(v) \in {"dropped", "blocked"}
    BY <1>1, <1>2 DEF Disposal
<1>4. ~v.Matched => Disposal(v) = "original"
    BY <1>1, <1>2 DEF Disposal
<1>5. v.Retry => v.Matched /\ c.InterceptStreaming /\ n > 0 /\ ~disconnect
    BY <1>1
<1>6. v.Matched /\ ~v.Retry => ~c.InterceptStreaming \/ n = 0 \/ disconnect
    <2>1. n > 0 \/ n = 0
        OBVIOUS
    <2> QED
        BY <1>1, <1>2, <2>1, Zenon
<1> QED
    BY <1>1, <1>3, <1>4, <1>5, <1>6 DEF v, matched, disconnect

\* What is done to a chunk that is not retried is one of three things.
LEMMA DisposalKinds ==
    ASSUME NEW v
    PROVE  Disposal(v) \in {"dropped", "blocked", "original"}
BY DEF Disposal

-----------------------------------------------------------------------------
(* Steps.                                                                   *)

Locals(s) == <<pc[s], source[s], buffered[s], cfg[s], verdict[s], left[s], calls[s],
               kept[s], result[s], open[s], out[s], steady[s]>>

\* The kind and the lines of the reply that ends a chunk.
Given(s, what) == IF what = "replay" /\ kept[s] = <<>> THEN "original" ELSE what

LinesOf(s, kind) == IF kind = "replay" THEN FlattenSeq(kept[s])
                    ELSE IF kind = "original" THEN Shown(s) ELSE <<>>

\* A reply finishes the chunk with them.
LEMMA ReplyFinishes ==
    ASSUME NEW s \in Streams, NEW what, Reply(s, what)
    PROVE  Finish(s, Given(s, what), LinesOf(s, Given(s, what)))
<1>1. CASE what = "replay" /\ kept[s] # <<>>
    BY <1>1 DEF Reply, Given, LinesOf
<1>2. CASE what = "replay" /\ kept[s] = <<>>
    BY <1>2 DEF Reply, Given, LinesOf
<1>3. CASE what = "original"
    BY <1>3 DEF Reply, Given, LinesOf
<1>4. CASE what \notin {"original", "replay"}
    BY <1>4 DEF Reply, Given, LinesOf
<1> QED
    BY <1>1, <1>2, <1>3, <1>4

\* What finishing a chunk does.
LEMMA FinishFacts ==
    ASSUME TypeOK, NEW s \in Streams, NEW kind, NEW lines, Finish(s, kind, lines)
    PROVE  /\ calls'[s] = 0
           /\ Len(out[s]) \in Nat /\ Len(out'[s]) = Len(out[s]) + 1
           /\ \A i \in 1..Len(out[s]) : out'[s][i] = out[s][i]
           /\ out'[s][Len(out[s]) + 1] = [kind |-> kind, lines |-> lines, calls |-> calls[s], cfg |-> cfg[s]]
           /\ pc'[s] \in {"waiting", "done"}
           /\ pc'[s] = "waiting" => ~buffered[s] /\ kind # "failed" /\ Len(out[s]) + 1 # Len(source[s])
           /\ \A q \in Streams \ {s} : out'[q] = out[q] /\ calls'[q] = calls[q] /\ pc'[q] = pc[q]
<1> DEFINE item == [kind |-> kind, lines |-> lines, calls |-> calls[s], cfg |-> cfg[s]]
<1>1. out[s] \in Seq(Item)
    BY DEF TypeOK
<1>2. out'[s] = Append(out[s], item)
    BY DEF Finish, TypeOK
<1> HIDE DEF item
<1>3. /\ Len(out[s]) \in Nat /\ Len(out'[s]) = Len(out[s]) + 1
      /\ \A i \in 1..Len(out[s]) : out'[s][i] = out[s][i]
      /\ out'[s][Len(out[s]) + 1] = item
    BY <1>1, <1>2
<1>4. calls'[s] = 0 /\ \A q \in Streams \ {s} : out'[q] = out[q] /\ calls'[q] = calls[q] /\ pc'[q] = pc[q]
    BY DEF Finish, TypeOK
<1>5. /\ pc'[s] \in {"waiting", "done"}
      /\ pc'[s] = "waiting" => ~buffered[s] /\ kind # "failed" /\ Len(out[s]) + 1 # Len(source[s])
    BY DEF Finish, TypeOK
<1> QED
    BY <1>3, <1>4, <1>5 DEF item

\* A handler touches its own stream only.
LEMMA OthersUntouched ==
    ASSUME TypeOK, NEW s \in Streams, Handle(s), NEW q \in Streams \ {s}
    PROVE  Locals(q)' = Locals(q)
<1> USE DEF TypeOK, Locals
<1>1. ASSUME NEW kind, NEW lines, Finish(s, kind, lines)
      PROVE  out'[q] = out[q] /\ calls'[q] = calls[q] /\ pc'[q] = pc[q]
    BY <1>1, FinishFacts
<1>2. ASSUME NEW what, Reply(s, what)
      PROVE  out'[q] = out[q] /\ calls'[q] = calls[q] /\ pc'[q] = pc[q]
    BY <1>1, <1>2, ReplyFinishes
<1>3. CASE HeaderInit(s)
    BY <1>3 DEF HeaderInit
<1>4. CASE PassBy(s)
    BY <1>1, <1>4 DEF PassBy
<1>5. CASE Inspect(s)
    BY <1>5 DEF Inspect
<1>6. CASE Answer(s)
    BY <1>2, <1>6 DEF Answer
<1>7. CASE StartReplay(s)
    BY <1>7 DEF StartReplay, Execute
<1>8. CASE OpenFails(s)
    BY <1>2, <1>8 DEF OpenFails
<1>9. CASE Open(s)
    BY <1>9 DEF Open
<1>10. CASE ReadFails(s)
    BY <1>10 DEF ReadFails, Leave
<1>11. ASSUME NEW chunk \in RetryChunks, ReadSuspicious(s, chunk) PROVE Locals(q)' = Locals(q)
    BY <1>11 DEF ReadSuspicious, Leave
<1>12. ASSUME NEW chunk \in RetryChunks, ReadMore(s, chunk) PROVE Locals(q)' = Locals(q)
    BY <1>12 DEF ReadMore
<1>13. ASSUME NEW payload, ReadEnd(s, payload) PROVE Locals(q)' = Locals(q)
    BY <1>13 DEF ReadEnd, Leave
<1>14. CASE Close(s)
    <2>1. CASE result[s] = "again" /\ left[s] > 1
        BY <1>14, <2>1 DEF Close, Execute
    <2>2. CASE ~(result[s] = "again" /\ left[s] > 1)
        BY <1>2, <1>14, <2>2 DEF Close
    <2> QED
        BY <2>1, <2>2
<1> QED
    BY <1>3, <1>4, <1>5, <1>6, <1>7, <1>8, <1>9, <1>10, <1>11, <1>12, <1>13, <1>14 DEF Handle, Read

-----------------------------------------------------------------------------
(* Type correctness.  There is a chunk to show while a stream is handled,   *)
(* and a stream of the host to close while one is read.                     *)

Rounds == {"opening", "reading", "closing"}

PlaceInv(s) ==
    /\ pc[s] = "header" => out[s] = <<>>
    /\ pc[s] # "done" => Len(out[s]) < Len(source[s]) /\ (buffered[s] => out[s] = <<>>)
    /\ open[s] = IF pc[s] \in {"reading", "closing"} THEN 1 ELSE 0
    /\ pc[s] = "closing" => result[s] \in {"again", "failed", "replay", "blocked", "dropped", "original"}

TypeInv == TypeOK /\ \A s \in Streams : PlaceInv(s)

\* Counting keeps every counter a natural number.
LEMMA CountType ==
    ASSUME metrics \in [Counter -> Nat], NEW counted, Count(counted)
    PROVE  metrics' \in [Counter -> Nat]
BY DEF Count

\* The chunk shown is a chunk.
LEMMA ShownType ==
    ASSUME TypeOK, NEW s \in Streams, PlaceInv(s), pc[s] # "done"
    PROVE  Shown(s) \in Chunk
<1>1. source[s] \in Seq(Chunk) /\ source[s] # <<>>
    BY SourcesAssumption DEF TypeOK
<1>2. FlattenSeq(source[s]) \in Chunk
    BY <1>1, FlattenType DEF Chunk
<1>3. Len(out[s]) \in Nat /\ Len(out[s]) < Len(source[s])
    BY DEF TypeOK, PlaceInv
<1>4. source[s][Len(out[s]) + 1] \in Chunk
    BY <1>1, <1>3, ElementOfSeq
<1> QED
    BY <1>2, <1>4 DEF Shown

\* What is finished is a well-formed item, and the stream stays in order.
LEMMA FinishType ==
    ASSUME TypeOK, NEW s \in Streams, PlaceInv(s), pc[s] # "done",
           NEW kind \in Kind, NEW lines \in Chunk, Finish(s, kind, lines),
           open'[s] = 0, buffered'[s] = buffered[s], source'[s] = source[s]
    PROVE  /\ out' \in [Streams -> Seq(Item)]
           /\ calls' \in [Streams -> Nat]
           /\ pc' \in [Streams -> Pc]
           /\ PlaceInv(s)'
<1> DEFINE item == [kind |-> kind, lines |-> lines, calls |-> calls[s], cfg |-> cfg[s]]
<1>1. item \in Item
    BY DEF TypeOK, Item
<1>2. out' = [out EXCEPT ![s] = Append(out[s], item)]
    BY DEF Finish
<1>3. out' \in [Streams -> Seq(Item)]
    <2> HIDE DEF item
    <2>1. Append(out[s], item) \in Seq(Item)
        BY <1>1 DEF TypeOK
    <2> QED
        BY <1>2, <2>1 DEF TypeOK
<1>4. calls' \in [Streams -> Nat] /\ pc' \in [Streams -> Pc]
    BY DEF Finish, TypeOK, Pc
<1>5. PlaceInv(s)'
    <2>1. /\ Len(out[s]) \in Nat /\ Len(out'[s]) = Len(out[s]) + 1
          /\ pc'[s] \in {"waiting", "done"}
          /\ pc'[s] = "waiting" => ~buffered[s] /\ Len(out[s]) + 1 # Len(source[s])
        BY FinishFacts
    <2>2. Len(source[s]) \in Nat /\ Len(out[s]) < Len(source[s])
        BY SourcesAssumption DEF TypeOK, PlaceInv
    <2> QED
        BY <2>1, <2>2 DEF PlaceInv
<1> QED
    BY <1>3, <1>4, <1>5

\* So is a reply, whatever it is.
LEMMA ReplyType ==
    ASSUME TypeOK, NEW s \in Streams, PlaceInv(s), pc[s] # "done",
           NEW what \in {"dropped", "blocked", "original", "replay", "failed"}, Reply(s, what),
           open'[s] = 0, buffered'[s] = buffered[s], source'[s] = source[s]
    PROVE  /\ out' \in [Streams -> Seq(Item)]
           /\ calls' \in [Streams -> Nat]
           /\ pc' \in [Streams -> Pc]
           /\ PlaceInv(s)'
<1>1. Given(s, what) \in Kind
    BY DEF Given, Kind
<1>2. kept[s] \in Seq(Chunk)
    BY DEF TypeOK
<1>3. LinesOf(s, Given(s, what)) \in Chunk
    <2>1. FlattenSeq(kept[s]) \in Chunk
        BY <1>2, FlattenType DEF Chunk
    <2>2. Shown(s) \in Chunk /\ <<>> \in Chunk
        BY ShownType DEF Chunk
    <2> QED
        BY <2>1, <2>2 DEF LinesOf
<1>4. Finish(s, Given(s, what), LinesOf(s, Given(s, what)))
    BY ReplyFinishes
<1> QED
    BY <1>1, <1>3, <1>4, FinishType

\* The typing holds before any stream begins ...
LEMMA InitType == Init => TypeInv
<1> SUFFICES ASSUME Init PROVE TypeInv
    OBVIOUS
<1>1. NoVerdict \in StreamDecision
    BY DEF NoVerdict, StreamDecision
<1>2. TypeOK
    BY <1>1 DEF Init, TypeOK, Pc, Result, Counter
<1>3. ASSUME NEW s \in Streams PROVE PlaceInv(s)
    <2>1. source[s] \in Seq(Chunk) /\ source[s] # <<>>
        BY SourcesAssumption DEF Init
    <2>2. Len(source[s]) > 0
        BY <2>1
    <2> QED
        BY <2>2 DEF Init, PlaceInv
<1> QED
    BY <1>2, <1>3 DEF TypeInv

\* ... and every step keeps it.
LEMMA NextType == TypeInv /\ [Next]_vars => TypeInv'
<1> SUFFICES ASSUME TypeInv, [Next]_vars PROVE TypeInv'
    OBVIOUS
<1>0. TypeOK /\ \A s \in Streams : PlaceInv(s)
    BY DEF TypeInv
<1>1. ASSUME NEW s \in Streams, NEW q \in Streams, Handle(s), q # s PROVE PlaceInv(q)'
    <2>1. Locals(q)' = Locals(q)
        BY <1>0, <1>1, OthersUntouched
    <2> QED
        BY <1>0, <2>1 DEF PlaceInv, Locals
<1>2. ASSUME NEW s \in Streams, Handle(s), TypeOK', PlaceInv(s)' PROVE TypeInv'
    BY <1>1, <1>2 DEF TypeInv
<1> USE DEF Pc
<1>3. ASSUME NEW s \in Streams, HeaderInit(s) PROVE TypeOK' /\ PlaceInv(s)'
    BY <1>0, <1>3 DEF HeaderInit, TypeOK, PlaceInv
<1>4. ASSUME NEW s \in Streams, PassBy(s) PROVE TypeOK' /\ PlaceInv(s)'
    <2>1. Shown(s) \in Chunk /\ "unguarded" \in Kind /\ open'[s] = 0
        BY <1>0, <1>4, ShownType DEF PassBy, Kind, PlaceInv
    <2>2. /\ out' \in [Streams -> Seq(Item)] /\ calls' \in [Streams -> Nat]
          /\ pc' \in [Streams -> Pc] /\ PlaceInv(s)'
        BY <1>0, <1>4, <2>1, FinishType DEF PassBy
    <2> QED
        BY <1>0, <1>4, <2>2 DEF PassBy, TypeOK
<1>5. ASSUME NEW s \in Streams, Inspect(s) PROVE TypeOK' /\ PlaceInv(s)'
    <2>1. config.GuardRetryAttempts \in Nat /\ (ChunkIndex(s) > 0) \in BOOLEAN
        BY <1>0, ConfigFacts DEF TypeOK
    <2>2. InspectStreamChunk(config, Shown(s), config.GuardRetryAttempts, ChunkIndex(s) > 0) \in StreamDecision
        BY <1>0, <2>1, InspectType DEF TypeOK
    <2>3. metrics' \in [Counter -> Nat]
        BY <1>0, <1>5, CountType DEF Inspect, TypeOK
    <2>4. TypeOK'
        BY <1>0, <1>5, <2>2, <2>3 DEF Inspect, TypeOK
    <2> QED
        BY <1>0, <1>5, <2>4 DEF Inspect, TypeOK, PlaceInv
<1>6. ASSUME NEW s \in Streams, Answer(s) PROVE TypeOK' /\ PlaceInv(s)'
    <2>1. Disposal(verdict[s]) \in {"dropped", "blocked", "original", "replay", "failed"} /\ open'[s] = 0
        BY <1>0, <1>6, DisposalKinds DEF Answer, PlaceInv
    <2>2. /\ out' \in [Streams -> Seq(Item)] /\ calls' \in [Streams -> Nat]
          /\ pc' \in [Streams -> Pc] /\ PlaceInv(s)'
        BY <1>0, <1>6, <2>1, ReplyType DEF Answer
    <2> QED
        BY <1>0, <1>6, <2>2 DEF Answer, TypeOK
<1>7. ASSUME NEW s \in Streams, StartReplay(s) PROVE TypeOK' /\ PlaceInv(s)'
    <2>1. cfg[s].GuardRetryAttempts \in Nat
        BY <1>0, ConfigFacts DEF TypeOK
    <2>2. metrics' \in [Counter -> Nat]
        BY <1>0, <1>7, CountType DEF StartReplay, Execute, TypeOK
    <2>3. TypeOK'
        BY <1>0, <1>7, <2>1, <2>2 DEF StartReplay, Execute, TypeOK
    <2> QED
        BY <1>0, <1>7, <2>3 DEF StartReplay, Execute, TypeOK, PlaceInv
<1>8. ASSUME NEW s \in Streams, OpenFails(s) PROVE TypeOK' /\ PlaceInv(s)'
    <2>1. open'[s] = 0
        BY <1>0, <1>8 DEF OpenFails, PlaceInv
    <2>2. /\ out' \in [Streams -> Seq(Item)] /\ calls' \in [Streams -> Nat]
          /\ pc' \in [Streams -> Pc] /\ PlaceInv(s)'
        BY <1>0, <1>8, <2>1, ReplyType DEF OpenFails
    <2> QED
        BY <1>0, <1>8, <2>2 DEF OpenFails, TypeOK
<1>9. ASSUME NEW s \in Streams, Open(s) PROVE TypeOK' /\ PlaceInv(s)'
    <2>1. TypeOK'
        BY <1>0, <1>9 DEF Open, TypeOK
    <2>2. open[s] = 0 /\ pc[s] = "opening" /\ PlaceInv(s)
        BY <1>0, <1>9 DEF Open, PlaceInv
    <2>3. open'[s] = 1 /\ pc'[s] = "reading"
        BY <1>0, <1>9, <2>2 DEF Open, TypeOK
    <2>4. out'[s] = out[s] /\ source'[s] = source[s] /\ buffered'[s] = buffered[s]
        BY <1>9 DEF Open
    <2> QED
        BY <2>1, <2>2, <2>3, <2>4 DEF PlaceInv
<1>10. ASSUME NEW s \in Streams, ReadFails(s) PROVE TypeOK' /\ PlaceInv(s)'
    BY <1>0, <1>10 DEF ReadFails, Leave, TypeOK, PlaceInv, Result
<1>11. ASSUME NEW s \in Streams, NEW chunk \in RetryChunks, ReadSuspicious(s, chunk) PROVE TypeOK' /\ PlaceInv(s)'
    <2> DEFINE v == RetryVerdict(s, chunk)
               how == IF v.Retry /\ left[s] > 1 THEN "again" ELSE Disposal(v)
    <2>1. how \in {"again", "dropped", "blocked", "original"} /\ Leave(s, how) /\ pc[s] = "reading"
        BY <1>11, DisposalKinds DEF ReadSuspicious
    <2>2. metrics' \in [Counter -> Nat]
        BY <1>0, <1>11, CountType DEF ReadSuspicious, TypeOK
    <2>3. kept' \in [Streams -> Seq(Chunk)]
        <3>1. chunk \in Chunk /\ kept[s] \in Seq(Chunk)
            BY <1>0, SourcesAssumption DEF TypeOK
        <3> QED
            BY <1>0, <1>11, <3>1 DEF ReadSuspicious, TypeOK
    <2> HIDE DEF how
    <2>4. TypeOK'
        BY <1>0, <1>11, <2>1, <2>2, <2>3 DEF ReadSuspicious, Leave, TypeOK, Result
    <2> QED
        BY <1>0, <1>11, <2>1, <2>4 DEF ReadSuspicious, Leave, TypeOK, PlaceInv
<1>12. ASSUME NEW s \in Streams, NEW chunk \in RetryChunks, ReadMore(s, chunk) PROVE TypeOK' /\ PlaceInv(s)'
    <2>1. kept' \in [Streams -> Seq(Chunk)]
        <3>1. chunk \in Chunk /\ kept[s] \in Seq(Chunk)
            BY <1>0, SourcesAssumption DEF TypeOK
        <3> QED
            BY <1>0, <1>12, <3>1 DEF ReadMore, TypeOK
    <2> QED
        BY <1>0, <1>12, <2>1 DEF ReadMore, TypeOK, PlaceInv
<1>13. ASSUME NEW s \in Streams, NEW payload \in {{}} \cup {{chunk} : chunk \in RetryChunks}, ReadEnd(s, payload)
       PROVE  TypeOK' /\ PlaceInv(s)'
    <2>1. kept' \in [Streams -> Seq(Chunk)]
        <3>1. kept[s] \in Seq(Chunk)
            BY <1>0 DEF TypeOK
        <3>2. payload # {} => (CHOOSE chunk \in payload : TRUE) \in Chunk
            BY SourcesAssumption
        <3>3. payload # {} => Append(kept[s], CHOOSE chunk \in payload : TRUE) \in Seq(Chunk)
            BY <3>1, <3>2
        <3> QED
            BY <1>0, <1>13, <3>1, <3>3 DEF ReadEnd, TypeOK
    <2>2. metrics' \in [Counter -> Nat]
        BY <1>0, <1>13, CountType DEF ReadEnd, TypeOK
    <2>3. TypeOK'
        BY <1>0, <1>13, <2>1, <2>2 DEF ReadEnd, Leave, TypeOK, Result
    <2> QED
        BY <1>0, <1>13, <2>3 DEF ReadEnd, Leave, TypeOK, PlaceInv
<1>14. ASSUME NEW s \in Streams, Close(s) PROVE TypeOK' /\ PlaceInv(s)'
    <2>1. open[s] = 1 /\ open' \in [Streams -> Nat] /\ open'[s] = 0
        BY <1>0, <1>14 DEF Close, TypeOK, PlaceInv
    <2>2. CASE result[s] = "again" /\ left[s] > 1
        <3>1. left[s] - 1 \in Nat /\ calls[s] + 1 \in Nat
            BY <1>0, <2>2 DEF TypeOK
        <3>2. metrics' \in [Counter -> Nat]
            BY <1>0, <1>14, <2>2, CountType DEF Close, Execute, TypeOK
        <3>3. TypeOK'
            <4>1. /\ left' = [left EXCEPT ![s] = left[s] - 1] /\ calls' = [calls EXCEPT ![s] = calls[s] + 1]
                  /\ pc' = [pc EXCEPT ![s] = "opening"] /\ result' = [result EXCEPT ![s] = "none"]
                  /\ UNCHANGED <<config, source, buffered, cfg, verdict, kept, steady, out>>
                BY <1>14, <2>2 DEF Close, Execute
            <4> QED
                BY <1>0, <2>1, <3>1, <3>2, <4>1 DEF TypeOK, Result
        <3>4. pc[s] = "closing" /\ pc'[s] = "opening" /\ out'[s] = out[s] /\ source'[s] = source[s]
              /\ buffered'[s] = buffered[s]
            BY <1>0, <1>14, <2>2 DEF Close, Execute, TypeOK
        <3>5. PlaceInv(s)'
            BY <1>0, <2>1, <3>4 DEF PlaceInv
        <3> QED
            BY <3>3, <3>5
    <2>3. CASE ~(result[s] = "again" /\ left[s] > 1)
        <3> DEFINE what == IF result[s] = "again" THEN "original" ELSE result[s]
        <3>1. Reply(s, what) /\ UNCHANGED <<left, metrics>>
            BY <1>14, <2>3 DEF Close
        <3>2. what \in {"dropped", "blocked", "original", "replay", "failed"}
            BY <1>0, <1>14 DEF Close, PlaceInv
        <3>3. pc[s] # "done" /\ buffered'[s] = buffered[s] /\ source'[s] = source[s]
            BY <1>14 DEF Close
        <3> HIDE DEF what
        <3>4. /\ out' \in [Streams -> Seq(Item)] /\ calls' \in [Streams -> Nat]
              /\ pc' \in [Streams -> Pc] /\ PlaceInv(s)'
            BY <1>0, <2>1, <3>1, <3>2, <3>3, ReplyType
        <3> QED
            BY <1>0, <1>14, <2>1, <3>1, <3>4 DEF Close, TypeOK, Result
    <2> QED
        BY <2>2, <2>3
<1>15. ASSUME NEW s \in Streams, Handle(s) PROVE TypeOK' /\ PlaceInv(s)'
    BY <1>3, <1>4, <1>5, <1>6, <1>7, <1>8, <1>9, <1>10, <1>11, <1>12, <1>13, <1>14, <1>15
       DEF Handle, Read
<1>16. ASSUME NEW c \in Configs, Reconfigure(c) PROVE TypeInv'
    BY <1>0, <1>16 DEF Reconfigure, handling, TypeInv, TypeOK, PlaceInv
<1>17. CASE UNCHANGED vars
    BY <1>0, <1>17 DEF vars, handling, TypeInv, TypeOK, PlaceInv
<1> QED
    BY <1>2, <1>15, <1>16, <1>17 DEF Next

\* Type correctness of the guard of streams, with what makes it inductive.
THEOREM TypeCorrect == Spec => []TypeInv
BY InitType, NextType, PTL DEF Spec

\* Every variable keeps its type in every reachable state.
THEOREM TypeOKHolds == Spec => []TypeOK
<1>1. TypeInv => TypeOK
    BY DEF TypeInv
<1> QED
    BY <1>1, TypeCorrect, PTL

\* The host holds a retried stream open for a handler exactly while the
\* handler reads it, on every path by which reading ends.
THEOREM HostStreamsClosedHolds == Spec => []HostStreamsClosed
<1>1. TypeInv => HostStreamsClosed
    BY DEF TypeInv, PlaceInv, HostStreamsClosed
<1> QED
    BY <1>1, TypeCorrect, PTL

-----------------------------------------------------------------------------
(* Budgets, and output before a replay.  RoundInv relates the rounds begun, *)
(* the attempts left and the way a round ended; SteadyInv what header init  *)
(* had buffered to the configuration, as long as that stays.                *)

RoundInv(s) ==
    /\ pc[s] \notin Rounds => calls[s] = 0
    /\ pc[s] \in Rounds =>
          /\ calls[s] > 0 /\ left[s] > 0 /\ calls[s] + left[s] = cfg[s].GuardRetryAttempts + 1
          /\ cfg[s].InterceptStreaming
          /\ ~(cfg[s].StreamAction = "disconnect" /\ Len(out[s]) > 0)
    /\ pc[s] = "closing" =>
          /\ result[s] \in {"again", "failed", "replay", "blocked", "dropped"}
          /\ result[s] = "again" => left[s] > 1
          /\ result[s] \in {"blocked", "dropped"} => left[s] = 1
    /\ pc[s] = "judged" =>
          verdict[s] = InspectStreamChunk(cfg[s], Shown(s), cfg[s].GuardRetryAttempts, Len(out[s]) > 0)

ItemsInv(s) == \A i \in 1..Len(out[s]) :
    /\ out[s][i].calls <= Granted(out[s][i].cfg, i)
    /\ out[s][i].kind = "failed" => pc[s] = "done"

SteadyInv(s) == steady[s] =>
    /\ pc[s] # "header" =>
          (buffered[s] <=> /\ modelMatches(config, StreamModel[s])
                           /\ config.InterceptStreaming
                           /\ config.StreamAction # "disconnect")
    /\ pc[s] \in {"judged"} \cup Rounds => cfg[s] = config /\ modelMatches(config, StreamModel[s])
    /\ \A i \in 1..Len(out[s]) : out[s][i].calls > 0 => i = 1

StreamInv(s) == RoundInv(s) /\ ItemsInv(s) /\ SteadyInv(s)

IInv == TypeInv /\ \A s \in Streams : StreamInv(s)

\* What the handlers of other streams do does not concern a stream.
LEMMA Frame ==
    ASSUME NEW q \in Streams, StreamInv(q), Locals(q)' = Locals(q), config' = config \/ ~steady'[q]
    PROVE  StreamInv(q)'
<1> USE DEF Locals
<1>1. RoundInv(q)'
    BY DEF StreamInv, RoundInv, Shown
<1>2. ItemsInv(q)'
    BY DEF StreamInv, ItemsInv
<1>3. SteadyInv(q)'
    BY DEF StreamInv, SteadyInv
<1> QED
    BY <1>1, <1>2, <1>3 DEF StreamInv

\* What a chunk has cost is within its budget, and nothing has been sent of a
\* steady stream when it costs anything.
LEMMA CostWithinBudget ==
    ASSUME TypeOK, NEW s \in Streams, PlaceInv(s), StreamInv(s), pc[s] # "header", pc[s] # "done"
    PROVE  /\ Granted(cfg[s], Len(out[s]) + 1) \in Nat
           /\ calls[s] <= Granted(cfg[s], Len(out[s]) + 1)
           /\ pc[s] \in Rounds => Granted(cfg[s], Len(out[s]) + 1) = cfg[s].GuardRetryAttempts
           /\ steady[s] /\ calls[s] > 0 => Len(out[s]) = 0
<1>1. /\ Len(out[s]) \in Nat /\ Len(out[s]) + 1 \in Nat /\ cfg[s] \in Configs
      /\ calls[s] \in Nat /\ left[s] \in Nat /\ cfg[s].GuardRetryAttempts \in Nat
    BY ConfigFacts DEF TypeOK
<1>2. Granted(cfg[s], Len(out[s]) + 1) \in Nat
    BY <1>1, GrantedFacts
<1>3. pc[s] \in Rounds => Granted(cfg[s], Len(out[s]) + 1) = cfg[s].GuardRetryAttempts
    BY <1>1 DEF StreamInv, RoundInv, Granted
<1>4. calls[s] <= Granted(cfg[s], Len(out[s]) + 1)
    BY <1>1, <1>2, <1>3 DEF StreamInv, RoundInv
<1>5. ASSUME steady[s], calls[s] > 0, Len(out[s]) # 0 PROVE FALSE
    <2>1. pc[s] \in Rounds
        BY <1>5 DEF StreamInv, RoundInv
    <2>2. cfg[s] = config /\ modelMatches(config, StreamModel[s])
        BY <1>5, <2>1 DEF StreamInv, SteadyInv
    <2>3. config.InterceptStreaming /\ config.StreamAction # "disconnect"
        BY <1>1, <1>5, <2>1, <2>2 DEF StreamInv, RoundInv
    <2>4. buffered[s]
        BY <1>5, <2>2, <2>3 DEF StreamInv, SteadyInv
    <2>5. Len(out[s]) = 0
        BY <2>4 DEF PlaceInv
    <2> QED
        BY <1>5, <2>5
<1> QED
    BY <1>2, <1>3, <1>4, <1>5

\* A finished chunk joins the others in order.
LEMMA FinishSafe ==
    ASSUME TypeOK, NEW s \in Streams, PlaceInv(s), StreamInv(s), pc[s] # "header", pc[s] # "done",
           NEW kind, NEW lines, Finish(s, kind, lines),
           UNCHANGED <<config, buffered, steady>>
    PROVE  StreamInv(s)'
<1> DEFINE n == Len(out[s]) + 1
<1>1. /\ calls'[s] = 0
      /\ Len(out[s]) \in Nat /\ Len(out'[s]) = n
      /\ \A i \in 1..Len(out[s]) : out'[s][i] = out[s][i]
      /\ out'[s][n] = [kind |-> kind, lines |-> lines, calls |-> calls[s], cfg |-> cfg[s]]
      /\ pc'[s] \in {"waiting", "done"}
      /\ pc'[s] = "waiting" => kind # "failed"
    BY FinishFacts
<1>2. /\ calls[s] <= Granted(cfg[s], n)
      /\ steady[s] /\ calls[s] > 0 => Len(out[s]) = 0
    BY CostWithinBudget
<1> HIDE DEF n
<1>3. \A i \in 1..Len(out'[s]) : i \in 1..Len(out[s]) \/ i = n
    BY <1>1 DEF n
<1>4. RoundInv(s)'
    BY <1>1 DEF RoundInv, Rounds
<1>5. ItemsInv(s)'
    <2>1. ASSUME NEW i \in 1..Len(out'[s]), i \in 1..Len(out[s])
          PROVE  out'[s][i].calls <= Granted(out'[s][i].cfg, i) /\ out'[s][i].kind # "failed"
        BY <1>1, <2>1 DEF StreamInv, ItemsInv
    <2>2. out'[s][n].calls <= Granted(out'[s][n].cfg, n) /\ (out'[s][n].kind = "failed" => pc'[s] = "done")
        BY <1>1, <1>2
    <2> QED
        BY <1>3, <2>1, <2>2 DEF ItemsInv, Granted
<1>6. SteadyInv(s)'
    <2>1. ASSUME steady[s], NEW i \in 1..Len(out'[s]), out'[s][i].calls > 0 PROVE i = 1
        <3>1. CASE i \in 1..Len(out[s])
            BY <1>1, <2>1, <3>1 DEF StreamInv, SteadyInv
        <3>2. CASE i = n
            BY <1>1, <1>2, <2>1, <3>2 DEF n
        <3> QED
            BY <1>3, <3>1, <3>2
    <2> QED
        BY <1>1, <2>1 DEF StreamInv, SteadyInv, Rounds
<1> QED
    BY <1>4, <1>5, <1>6 DEF StreamInv

\* Before any stream begins all is in order.
LEMMA InitSafe == Init => IInv
<1> SUFFICES ASSUME Init, NEW s \in Streams PROVE StreamInv(s)
    BY InitType DEF IInv
<1>1. pc[s] = "header" /\ calls[s] = 0 /\ out[s] = <<>> /\ Len(out[s]) = 0
    BY DEF Init
<1> QED
    BY <1>1 DEF StreamInv, RoundInv, ItemsInv, SteadyInv, Rounds

\* Header init, a chunk out of scope, and the first verdict on a chunk.
LEMMA ArrivalSafe ==
    ASSUME TypeOK, NEW s \in Streams, PlaceInv(s), StreamInv(s),
           HeaderInit(s) \/ PassBy(s) \/ Inspect(s)
    PROVE  StreamInv(s)'
<1>1. CASE HeaderInit(s)
    <2>1. /\ pc[s] = "header" /\ pc'[s] = "waiting" /\ out[s] = <<>> /\ out'[s] = <<>> /\ calls'[s] = 0
          /\ config' = config
        BY <1>1 DEF HeaderInit, TypeOK, PlaceInv, StreamInv, RoundInv, Rounds
    <2>2. buffered'[s] <=> /\ modelMatches(config, StreamModel[s])
                           /\ config.InterceptStreaming
                           /\ config.StreamAction # "disconnect"
        BY <1>1 DEF HeaderInit, TypeOK
    <2> QED
        BY <2>1, <2>2 DEF StreamInv, RoundInv, ItemsInv, SteadyInv, Rounds
<1>2. CASE PassBy(s)
    BY <1>2, FinishSafe DEF PassBy
<1>3. CASE Inspect(s)
    <2>1. /\ pc[s] = "waiting" /\ pc'[s] = "judged" /\ cfg'[s] = config /\ calls'[s] = 0
          /\ modelMatches(config, StreamModel[s])
          /\ UNCHANGED <<config, buffered, source, out, steady>>
        BY <1>3 DEF Inspect, TypeOK, StreamInv, RoundInv, Rounds
    <2>2. verdict'[s] = InspectStreamChunk(config, Shown(s), config.GuardRetryAttempts, Len(out[s]) > 0)
        BY <1>3 DEF Inspect, TypeOK, ChunkIndex
    <2>3. Shown(s)' = Shown(s)
        BY <2>1 DEF Shown
    <2>4. RoundInv(s)'
        BY <2>1, <2>2, <2>3 DEF RoundInv, Rounds
    <2>5. ItemsInv(s)'
        BY <2>1 DEF StreamInv, ItemsInv
    <2>6. SteadyInv(s)'
        BY <2>1 DEF StreamInv, SteadyInv
    <2> QED
        BY <2>4, <2>5, <2>6 DEF StreamInv
<1> QED
    BY <1>1, <1>2, <1>3

\* A round begins: the first one, or the next with one attempt less.
LEMMA RoundBegins ==
    ASSUME TypeOK, NEW s \in Streams, PlaceInv(s), StreamInv(s), NEW n \in Nat, Execute(s, n),
           n > 0, calls[s] + 1 + n = cfg[s].GuardRetryAttempts + 1,
           cfg[s].InterceptStreaming, ~(cfg[s].StreamAction = "disconnect" /\ Len(out[s]) > 0),
           pc[s] \in {"judged", "closing"},
           UNCHANGED <<config, buffered, cfg, out, steady>>
    PROVE  StreamInv(s)'
<1>1. pc'[s] = "opening" /\ calls'[s] = calls[s] + 1 /\ left'[s] = n /\ calls[s] \in Nat
    BY DEF Execute, TypeOK
<1>2. RoundInv(s)'
    BY <1>1 DEF RoundInv, Rounds
<1>3. ItemsInv(s)'
    BY <1>1 DEF StreamInv, ItemsInv
<1>4. SteadyInv(s)'
    BY <1>1 DEF StreamInv, SteadyInv, Rounds
<1> QED
    BY <1>2, <1>3, <1>4 DEF StreamInv

\* The verdict is acted on.
LEMMA VerdictSafe ==
    ASSUME TypeOK, NEW s \in Streams, PlaceInv(s), StreamInv(s), Answer(s) \/ StartReplay(s)
    PROVE  StreamInv(s)'
<1>1. CASE Answer(s)
    <2>1. Finish(s, Given(s, Disposal(verdict[s])), LinesOf(s, Given(s, Disposal(verdict[s]))))
        BY <1>1, ReplyFinishes DEF Answer
    <2> QED
        BY <1>1, <2>1, FinishSafe DEF Answer
<1>2. CASE StartReplay(s)
    <2> DEFINE n == cfg[s].GuardRetryAttempts
    <2>1. n \in Nat /\ (Len(out[s]) > 0) \in BOOLEAN /\ pc[s] = "judged" /\ calls[s] = 0
        BY <1>2, ConfigFacts DEF StartReplay, TypeOK, StreamInv, RoundInv, Rounds
    <2>2. verdict[s] = InspectStreamChunk(cfg[s], Shown(s), n, Len(out[s]) > 0) /\ verdict[s].Retry
        BY <1>2, <2>1 DEF StartReplay, StreamInv, RoundInv
    <2>3. cfg[s].InterceptStreaming /\ n > 0 /\ ~(cfg[s].StreamAction = "disconnect" /\ Len(out[s]) > 0)
        <3> DEFINE w == Len(out[s]) > 0
                   v == InspectStreamChunk(cfg[s], Shown(s), n, w)
        <3> HIDE DEF n, w
        <3>1. v.Retry => /\ v.Matched /\ cfg[s].InterceptStreaming /\ n > 0
                         /\ ~(cfg[s].StreamAction = "disconnect" /\ w)
            BY <2>1, InspectFacts DEF w
        <3>2. v.Retry
            BY <2>2 DEF n, w
        <3> QED
            BY <3>1, <3>2 DEF w
    <2>4. Execute(s, n) /\ UNCHANGED <<config, buffered, cfg, out, steady>>
        BY <1>2 DEF StartReplay
    <2>5. calls[s] + 1 + n = n + 1
        BY <2>1
    <2> QED
        BY <2>1, <2>3, <2>4, <2>5, RoundBegins
<1> QED
    BY <1>1, <1>2

\* Opening and reading a retried stream.
LEMMA ReadingSafe ==
    ASSUME TypeOK, NEW s \in Streams, PlaceInv(s), StreamInv(s), OpenFails(s) \/ Open(s) \/ Read(s)
    PROVE  StreamInv(s)'
<1>0. /\ calls[s] \in Nat /\ left[s] \in Nat /\ cfg[s] \in Configs
    BY DEF TypeOK
<1>1. ASSUME pc[s] \in Rounds, pc'[s] \in Rounds, UNCHANGED <<config, buffered, cfg, left, calls, out, steady>>,
             pc'[s] = "closing" =>
               /\ result'[s] \in {"again", "failed", "replay", "blocked", "dropped"}
               /\ result'[s] = "again" => left[s] > 1
               /\ result'[s] \in {"blocked", "dropped"} => left[s] = 1
      PROVE  StreamInv(s)'
    <2>1. RoundInv(s)'
        BY <1>1 DEF StreamInv, RoundInv, Rounds
    <2>2. ItemsInv(s)'
        BY <1>1 DEF StreamInv, ItemsInv, Rounds
    <2>3. SteadyInv(s)'
        BY <1>1 DEF StreamInv, SteadyInv, Rounds
    <2> QED
        BY <2>1, <2>2, <2>3 DEF StreamInv
<1>2. CASE OpenFails(s)
    <2>1. Finish(s, Given(s, "failed"), LinesOf(s, Given(s, "failed")))
        BY <1>2, ReplyFinishes DEF OpenFails
    <2> QED
        BY <1>2, <2>1, FinishSafe DEF OpenFails
<1>3. CASE Open(s)
    <2>1. pc[s] = "opening" /\ pc'[s] = "reading" /\ UNCHANGED <<config, buffered, cfg, left, calls, out, steady>>
        BY <1>3 DEF Open, TypeOK
    <2> QED
        BY <1>1, <2>1 DEF Rounds
<1>4. CASE ReadFails(s)
    <2>1. /\ pc[s] = "reading" /\ pc'[s] = "closing" /\ result'[s] = "failed"
          /\ UNCHANGED <<config, buffered, cfg, left, calls, out, steady>>
        BY <1>4 DEF ReadFails, Leave, TypeOK
    <2> QED
        BY <1>1, <2>1 DEF Rounds
<1>5. ASSUME NEW chunk \in RetryChunks, ReadSuspicious(s, chunk) PROVE StreamInv(s)'
    <2> DEFINE v == RetryVerdict(s, chunk)
    <2>1. /\ pc[s] = "reading" /\ pc'[s] = "closing" /\ v.Matched
          /\ result'[s] = IF v.Retry /\ left[s] > 1 THEN "again" ELSE Disposal(v)
          /\ UNCHANGED <<config, buffered, cfg, left, calls, out, steady>>
        BY <1>5 DEF ReadSuspicious, Leave, TypeOK
    <2>2. left[s] > 0 /\ left[s] - 1 \in Nat /\ cfg[s].InterceptStreaming
        BY <1>0, <2>1 DEF StreamInv, RoundInv, Rounds
    <2>3. /\ v.Retry => left[s] > 1
          /\ ~v.Retry => left[s] = 1 /\ Disposal(v) \in {"dropped", "blocked"}
        <3>1. v = InspectStreamChunk(cfg[s], chunk, left[s] - 1, FALSE) /\ FALSE \in BOOLEAN
            BY DEF RetryVerdict
        <3>2. /\ v.Retry => left[s] - 1 > 0
              /\ v.Matched /\ ~v.Retry => ~cfg[s].InterceptStreaming \/ left[s] - 1 = 0
              /\ v.Matched /\ ~v.Retry => Disposal(v) \in {"dropped", "blocked"}
            BY <2>2, <3>1, InspectFacts
        <3> QED
            BY <1>0, <2>1, <2>2, <3>2
    <2> HIDE DEF v
    <2> QED
        BY <1>1, <2>1, <2>3 DEF Rounds
<1>6. ASSUME NEW chunk \in RetryChunks, ReadMore(s, chunk) PROVE StreamInv(s)'
    <2>1. pc[s] = "reading" /\ pc'[s] = "reading" /\ UNCHANGED <<config, buffered, cfg, left, calls, out, steady>>
        BY <1>6 DEF ReadMore
    <2> QED
        BY <1>1, <2>1 DEF Rounds
<1>7. ASSUME NEW payload, ReadEnd(s, payload) PROVE StreamInv(s)'
    <2>1. /\ pc[s] = "reading" /\ pc'[s] = "closing" /\ result'[s] = "replay"
          /\ UNCHANGED <<config, buffered, cfg, left, calls, out, steady>>
        BY <1>7 DEF ReadEnd, Leave, TypeOK
    <2> QED
        BY <1>1, <2>1 DEF Rounds
<1> QED
    BY <1>2, <1>3, <1>4, <1>5, <1>6, <1>7 DEF Read

\* A round is over: the next one, or the reply.
LEMMA CloseSafe ==
    ASSUME TypeOK, NEW s \in Streams, PlaceInv(s), StreamInv(s), Close(s)
    PROVE  StreamInv(s)'
<1>0. /\ calls[s] \in Nat /\ left[s] \in Nat /\ cfg[s].GuardRetryAttempts \in Nat
      /\ pc[s] = "closing" /\ UNCHANGED <<config, buffered, cfg, steady>>
    BY ConfigFacts DEF TypeOK, Close
<1>1. CASE result[s] = "again" /\ left[s] > 1
    <2>1. Execute(s, left[s] - 1) /\ UNCHANGED out
        BY <1>1 DEF Close
    <2>2. /\ calls[s] + left[s] = cfg[s].GuardRetryAttempts + 1
          /\ cfg[s].InterceptStreaming /\ ~(cfg[s].StreamAction = "disconnect" /\ Len(out[s]) > 0)
        BY <1>0 DEF StreamInv, RoundInv, Rounds
    <2>3. left[s] - 1 \in Nat /\ left[s] - 1 > 0 /\ calls[s] + 1 + (left[s] - 1) = cfg[s].GuardRetryAttempts + 1
        BY <1>0, <1>1, <2>2
    <2> QED
        BY <1>0, <2>1, <2>2, <2>3, RoundBegins
<1>2. CASE ~(result[s] = "again" /\ left[s] > 1)
    <2> DEFINE what == IF result[s] = "again" THEN "original" ELSE result[s]
    <2>1. Reply(s, what)
        BY <1>2 DEF Close
    <2> HIDE DEF what
    <2>2. Finish(s, Given(s, what), LinesOf(s, Given(s, what)))
        BY <2>1, ReplyFinishes
    <2> QED
        BY <1>0, <2>2, FinishSafe
<1> QED
    BY <1>1, <1>2

\* Every step keeps every stream in order.
LEMMA NextSafe == IInv /\ [Next]_vars => IInv'
<1> SUFFICES ASSUME IInv, [Next]_vars, NEW q \in Streams PROVE StreamInv(q)'
    BY NextType DEF IInv
<1>0. TypeOK /\ \A s \in Streams : PlaceInv(s) /\ StreamInv(s)
    BY DEF IInv, TypeInv
<1>1. ASSUME NEW s \in Streams, Handle(s), q # s PROVE StreamInv(q)'
    <2>1. Locals(q)' = Locals(q)
        BY <1>0, <1>1, OthersUntouched
    <2>2. config' = config
        BY <1>1 DEF Handle, HeaderInit, PassBy, Inspect, Answer, StartReplay, OpenFails, Open,
                    Read, ReadFails, ReadSuspicious, ReadMore, ReadEnd, Close
    <2> QED
        BY <1>0, <2>1, <2>2, Frame
<1>2. ASSUME Handle(q) PROVE StreamInv(q)'
    BY <1>0, <1>2, ArrivalSafe, VerdictSafe, ReadingSafe, CloseSafe DEF Handle
<1>3. ASSUME NEW c \in Configs, Reconfigure(c) PROVE StreamInv(q)'
    <2>1. ~steady'[q]
        BY <1>3 DEF Reconfigure
    <2>2. RoundInv(q)' /\ ItemsInv(q)'
        BY <1>0, <1>3 DEF Reconfigure, handling, StreamInv, RoundInv, ItemsInv, Shown
    <2> QED
        BY <2>1, <2>2 DEF StreamInv, SteadyInv
<1>4. CASE UNCHANGED vars
    <2>1. Locals(q)' = Locals(q) /\ config' = config
        BY <1>4 DEF vars, handling, Locals
    <2> QED
        BY <1>0, <2>1, Frame
<1> QED
    BY <1>1, <1>2, <1>3, <1>4 DEF Next

\* The invariant of the guard of streams.
THEOREM Invariance == Spec => []IInv
BY InitSafe, NextSafe, PTL DEF Spec

\* A suspicious chunk costs the upstream at most the configured retries,
\* whatever the host's streams bring and whatever is published meanwhile.
THEOREM StreamRetryBudgetHolds == Spec => []StreamRetryBudget
<1>1. IInv => StreamRetryBudget
    <2> SUFFICES ASSUME IInv, NEW s \in Streams
                 PROVE  /\ calls[s] <= Granted(cfg[s], Len(out[s]) + 1)
                        /\ \A i \in DOMAIN out[s] : out[s][i].calls <= Granted(out[s][i].cfg, i)
                        /\ pc[s] \in {"opening", "reading", "closing"}
                              => calls[s] + left[s] = cfg[s].GuardRetryAttempts + 1
        BY DEF StreamRetryBudget
    <2>0. TypeOK /\ PlaceInv(s) /\ StreamInv(s)
        BY DEF IInv, TypeInv
    <2>1. Len(out[s]) + 1 \in Nat /\ cfg[s] \in Configs /\ DOMAIN out[s] = 1..Len(out[s])
        BY <2>0 DEF TypeOK
    <2>2. Granted(cfg[s], Len(out[s]) + 1) \in Nat
        BY <2>1, GrantedFacts
    <2>3. calls[s] <= Granted(cfg[s], Len(out[s]) + 1)
        <3>1. CASE pc[s] \in {"header", "done"}
            BY <2>0, <2>2, <3>1 DEF StreamInv, RoundInv, Rounds
        <3>2. CASE pc[s] \notin {"header", "done"}
            BY <2>0, <3>2, CostWithinBudget
        <3> QED
            BY <3>1, <3>2
    <2> QED
        BY <2>0, <2>1, <2>3 DEF StreamInv, RoundInv, ItemsInv, Rounds
<1> QED
    BY <1>1, Invariance, PTL

\* Under a configuration that stays, a replay never follows output of the
\* original: what header init had buffered covers every chunk that could be
\* retried.
THEOREM RetryBeforeAnyOutputHolds == Spec => []RetryBeforeAnyOutput
<1>1. IInv => RetryBeforeAnyOutput
    <2> SUFFICES ASSUME IInv, NEW s \in Streams, steady[s], NEW i \in DOMAIN out[s], out[s][i].calls > 0
                 PROVE  i = 1
        BY DEF RetryBeforeAnyOutput
    <2>1. StreamInv(s) /\ DOMAIN out[s] = 1..Len(out[s])
        BY DEF IInv, TypeInv, TypeOK
    <2> QED
        BY <2>1 DEF StreamInv, SteadyInv
<1> QED
    BY <1>1, Invariance, PTL

-----------------------------------------------------------------------------
(* What is sent is not suspicious.  A replay is judged in pieces and sent   *)
(* joined: pieces of whole lines that are harmless join to harmless lines.  *)

\* No line of the chunk is cut.
Whole(chunk) == \A i \in DOMAIN chunk : chunk[i] \notin Half

\* The reports of whole lines are those of each.
LEMMA WholeReports ==
    ASSUME NEW chunk \in Chunk, Whole(chunk)
    PROVE  /\ ReportingLines(chunk) = {i \in 1..Len(chunk) : chunk[i] \in Document /\ Reports(chunk[i])}
           /\ \A i \in 1..Len(chunk) : Payload(chunk, i) = chunk[i]
<1>1. DOMAIN chunk = 1..Len(chunk) /\ Len(chunk) \in Nat
    BY DEF Chunk
<1>2. \A i \in 1..Len(chunk) : chunk[i] \notin Half
    BY <1>1 DEF Whole
<1>3. \A i \in 1..Len(chunk) : Payload(chunk, i) = chunk[i]
    BY <1>2 DEF Payload
<1>4. ASSUME NEW i \in 1..Len(chunk), i > 1 PROVE chunk[i - 1] \notin Half
    BY <1>1, <1>2, <1>4
<1>5. \A i : i \in Payloads(chunk) <=> i \in 1..Len(chunk) /\ chunk[i] \in Document
    BY <1>4 DEF Payloads
<1>6. \A i : i \in ReportingLines(chunk) <=> i \in 1..Len(chunk) /\ chunk[i] \in Document /\ Reports(chunk[i])
    BY <1>3, <1>5 DEF ReportingLines
<1> QED
    BY <1>3, <1>6

\* A set of lines that is not empty has a last one.
LEMMA LastOfSome ==
    ASSUME NEW n \in Nat, NEW T \in SUBSET (1..n), T # {}
    PROVE  \E i \in T : \A j \in T : j <= i
<1> DEFINE D == {n - j : j \in T}
<1>1. D \in SUBSET Nat /\ D # {}
    <2>1. \A j \in T : n - j \in Nat
        OBVIOUS
    <2> QED
        BY <2>1
<1>2. PICK d \in D : \A m \in D : d <= m
    BY <1>1, LeastElement
<1>3. PICK i \in T : d = n - i
    BY <1>2
<1>4. ASSUME NEW j \in T PROVE j <= i
    <2>1. d <= n - j
        BY <1>2
    <2> QED
        BY <1>3, <2>1
<1> QED
    BY <1>4

\* The last report is the one of the last line that has one.
LEMMA LastReportIs ==
    ASSUME NEW chunk \in Chunk, NEW i \in ReportingLines(chunk), \A j \in ReportingLines(chunk) : j <= i
    PROVE  LastReport(chunk) = extractStreamReasoning(Payload(chunk, i))
<1> DEFINE RL == ReportingLines(chunk)
           k == CHOOSE k \in RL : \A j \in RL : j <= k
<1>1. k \in RL /\ \A j \in RL : j <= k
    OBVIOUS
<1>2. RL \subseteq Int
    BY DEF ReportingLines, Payloads, Chunk
<1> HIDE DEF RL
<1>3. i \in RL /\ \A j \in RL : j <= i
    BY DEF RL
<1>4. k = i
    <2> HIDE DEF k
    <2>1. k <= i /\ i <= k /\ k \in Int /\ i \in Int
        BY <1>1, <1>2, <1>3
    <2> QED
        BY <2>1
<1>5. LastReport(chunk) = extractStreamReasoning(Payload(chunk, k))
    BY DEF LastReport, RL
<1> QED
    BY <1>4, <1>5

\* Harmless whole lines after harmless whole lines are harmless.
LEMMA JoinHarmless ==
    ASSUME NEW c, NEW a \in Chunk, NEW b \in Chunk, Whole(a), Whole(b),
           ~Suspicious(c, a), ~Suspicious(c, b)
    PROVE  Whole(a \o b) /\ ~Suspicious(c, a \o b)
<1> DEFINE ab == a \o b
           n == Len(a)
<1>1. /\ ab \in Chunk /\ n \in Nat /\ Len(b) \in Nat /\ Len(ab) = n + Len(b)
      /\ \A i \in 1..n : ab[i] = a[i]
      /\ \A i \in 1..Len(b) : ab[n + i] = b[i]
      /\ DOMAIN ab = 1..(n + Len(b)) /\ DOMAIN a = 1..n /\ DOMAIN b = 1..Len(b)
    BY ConcatProperties DEF Chunk
<1>2. \A i \in 1..(n + Len(b)) : i \in 1..n \/ (i - n \in 1..Len(b) /\ i = n + (i - n))
    BY <1>1
<1> HIDE DEF ab, n
<1>3. ASSUME NEW i \in 1..(n + Len(b)) PROVE ab[i] \notin Half
    <2>1. CASE i \in 1..n
        BY <1>1, <2>1 DEF Whole
    <2>2. CASE i - n \in 1..Len(b) /\ i = n + (i - n)
        <3>1. ab[n + (i - n)] = b[i - n]
            BY <1>1, <2>2
        <3> QED
            BY <1>1, <2>2, <3>1 DEF Whole
    <2> QED
        BY <1>2, <2>1, <2>2
<1>4. Whole(ab)
    BY <1>1, <1>3 DEF Whole
<1>5. /\ ReportingLines(a) = {i \in 1..n : a[i] \in Document /\ Reports(a[i])}
      /\ ReportingLines(b) = {i \in 1..Len(b) : b[i] \in Document /\ Reports(b[i])}
      /\ ReportingLines(ab) = {i \in 1..(n + Len(b)) : ab[i] \in Document /\ Reports(ab[i])}
    BY <1>1, <1>4, WholeReports DEF n
<1>6. /\ \A i \in 1..n : Payload(a, i) = a[i]
      /\ \A i \in 1..Len(b) : Payload(b, i) = b[i]
      /\ \A i \in 1..(n + Len(b)) : Payload(ab, i) = ab[i]
    BY <1>1, <1>4, WholeReports DEF n
<1>7. ASSUME NEW i \in ReportingLines(ab)
      PROVE  i \in ReportingLines(a) \/ (i - n \in ReportingLines(b) /\ i = n + (i - n))
    <2>1. i \in 1..(n + Len(b)) /\ ab[i] \in Document /\ Reports(ab[i])
        BY <1>5
    <2>2. CASE i \in 1..n
        BY <1>1, <1>5, <2>1, <2>2
    <2>3. CASE i - n \in 1..Len(b) /\ i = n + (i - n)
        <3>1. ab[n + (i - n)] = b[i - n]
            BY <1>1, <2>3
        <3> QED
            BY <1>5, <2>1, <2>3, <3>1
    <2> QED
        BY <1>2, <2>1, <2>2, <2>3
<1>8. ASSUME ReportingLines(b) # {} PROVE ~Suspicious(c, ab)
    <2>1. PICK i \in ReportingLines(b) : \A j \in ReportingLines(b) : j <= i
        BY <1>1, <1>5, <1>8, LastOfSome
    <2>2. LastReport(b) = extractStreamReasoning(b[i])
        BY <1>5, <1>6, <2>1, LastReportIs
    <2>3. n + i \in 1..(n + Len(b)) /\ ab[n + i] = b[i]
        BY <1>1, <1>5, <2>1
    <2>4. n + i \in ReportingLines(ab)
        BY <1>5, <2>1, <2>3
    <2>5. ASSUME NEW j \in ReportingLines(ab) PROVE j <= n + i
        <3>1. CASE j \in ReportingLines(a)
            BY <1>1, <1>5, <2>1, <3>1
        <3>2. CASE j - n \in ReportingLines(b) /\ j = n + (j - n)
            <4>1. j - n <= i /\ j - n \in Int /\ i \in Int /\ j \in Int
                BY <1>5, <2>1, <3>2
            <4> QED
                BY <1>1, <4>1
        <3> QED
            BY <1>7, <3>1, <3>2
    <2>6. LastReport(ab) = extractStreamReasoning(Payload(ab, n + i))
        BY <1>1, <2>4, <2>5, LastReportIs
    <2>7. LastReport(ab) = LastReport(b)
        BY <1>6, <2>2, <2>3, <2>6
    <2> QED
        BY <1>8, <2>7 DEF Suspicious
<1>9. ASSUME ReportingLines(b) = {} PROVE ~Suspicious(c, ab)
    <2>1. ASSUME NEW i \in ReportingLines(a) PROVE i \in ReportingLines(ab) /\ Payload(ab, i) = Payload(a, i)
        <3>1. i \in 1..n /\ i \in 1..(n + Len(b)) /\ a[i] \in Document /\ Reports(a[i]) /\ ab[i] = a[i]
            BY <1>1, <1>5
        <3> QED
            BY <1>5, <1>6, <3>1
    <2>2. ReportingLines(ab) = ReportingLines(a)
        BY <1>7, <1>9, <2>1
    <2>3. CASE ReportingLines(a) = {}
        BY <2>2, <2>3 DEF Suspicious
    <2>4. CASE ReportingLines(a) # {}
        <3>1. PICK i \in ReportingLines(a) : \A j \in ReportingLines(a) : j <= i
            BY <1>1, <1>5, <2>4, LastOfSome
        <3>2. LastReport(a) = extractStreamReasoning(Payload(a, i))
            BY <3>1, LastReportIs
        <3>3. LastReport(ab) = extractStreamReasoning(Payload(ab, i))
            BY <1>1, <2>2, <3>1, LastReportIs
        <3>4. LastReport(ab) = LastReport(a)
            BY <2>1, <3>2, <3>3
        <3> QED
            BY <2>4, <3>4 DEF Suspicious
    <2> QED
        BY <2>3, <2>4
<1> QED
    BY <1>4, <1>8, <1>9 DEF ab

\* Retried streams come in whole lines, and none of them is empty.
Uncut == EmptyStreams = FALSE /\ \A chunk \in RetryChunks : Whole(chunk)

CleanInv(s) ==
    /\ pc[s] = "reading" \/ (pc[s] = "closing" /\ result[s] = "replay") =>
          Whole(FlattenSeq(kept[s])) /\ ~Suspicious(cfg[s], FlattenSeq(kept[s]))
    /\ pc[s] = "closing" /\ result[s] = "replay" => kept[s] # <<>>
    /\ \A i \in 1..Len(out[s]) :
          out[s][i].kind \in {"original", "replay"} => ~Suspicious(out[s][i].cfg, out[s][i].lines)

\* No lines are whole and harmless.
LEMMA NothingHarmless ==
    ASSUME NEW c
    PROVE  FlattenSeq(<<>>) = <<>> /\ Whole(<<>>) /\ ~Suspicious(c, <<>>)
<1>1. ReportingLines(<<>>) = {}
    BY DEF ReportingLines, Payloads
<1> QED
    BY <1>1 DEF FlattenSeq, Whole, Suspicious

\* One more harmless payload leaves what was kept harmless.
LEMMA KeptHarmless ==
    ASSUME TypeOK, NEW s \in Streams, NEW chunk \in Chunk, Whole(chunk), ~Suspicious(cfg[s], chunk),
           Whole(FlattenSeq(kept[s])), ~Suspicious(cfg[s], FlattenSeq(kept[s]))
    PROVE  /\ Whole(FlattenSeq(Append(kept[s], chunk)))
           /\ ~Suspicious(cfg[s], FlattenSeq(Append(kept[s], chunk)))
<1>1. kept[s] \in Seq(Seq(StreamLine)) /\ chunk \in Seq(StreamLine)
    BY DEF TypeOK, Chunk
<1>2. FlattenSeq(kept[s]) \in Chunk
    BY <1>1, FlattenType DEF Chunk
<1>3. FlattenSeq(Append(kept[s], chunk)) = FlattenSeq(kept[s]) \o chunk
    BY <1>1, FlattenAppend
<1> QED
    BY <1>2, <1>3, JoinHarmless

\* An item sent on is harmless if its lines are.
LEMMA FinishClean ==
    ASSUME TypeOK, NEW s \in Streams, CleanInv(s), NEW kind, NEW lines, Finish(s, kind, lines),
           kind \in {"original", "replay"} => ~Suspicious(cfg[s], lines)
    PROVE  CleanInv(s)'
<1> DEFINE n == Len(out[s]) + 1
<1>1. /\ Len(out[s]) \in Nat /\ Len(out'[s]) = n
      /\ \A i \in 1..Len(out[s]) : out'[s][i] = out[s][i]
      /\ out'[s][n] = [kind |-> kind, lines |-> lines, calls |-> calls[s], cfg |-> cfg[s]]
      /\ pc'[s] \in {"waiting", "done"}
    BY FinishFacts
<1>2. \A i \in 1..Len(out'[s]) : i \in 1..Len(out[s]) \/ i = n
    BY <1>1
<1> HIDE DEF n
<1>3. ASSUME NEW i \in 1..Len(out'[s]), out'[s][i].kind \in {"original", "replay"}
      PROVE  ~Suspicious(out'[s][i].cfg, out'[s][i].lines)
    <2>1. CASE i \in 1..Len(out[s])
        <3>1. out'[s][i] = out[s][i]
            BY <1>1, <2>1
        <3> QED
            BY <1>3, <2>1, <3>1 DEF CleanInv
    <2>2. CASE i = n
        BY <1>1, <1>3, <2>2
    <2> QED
        BY <1>2, <2>1, <2>2
<1>4. \A c, lines_ : Suspicious(c, lines_)' <=> Suspicious(c, lines_)
    BY DEF Suspicious
<1> QED
    BY <1>1, <1>3 DEF CleanInv, Suspicious

\* Every step of a handler keeps what is sent harmless.
LEMMA HandleClean ==
    ASSUME Uncut, TypeOK, NEW s \in Streams, PlaceInv(s), StreamInv(s), CleanInv(s), Handle(s)
    PROVE  CleanInv(s)'
<1>0. /\ cfg[s] \in Configs /\ cfg[s].GuardRetryAttempts \in Nat /\ left[s] \in Nat
      /\ (Len(out[s]) > 0) \in BOOLEAN /\ kept[s] \in Seq(Chunk)
    BY ConfigFacts DEF TypeOK
<1>1. ASSUME pc'[s] # "reading", pc'[s] = "closing" => result'[s] # "replay", out'[s] = out[s]
      PROVE  CleanInv(s)'
    BY <1>1 DEF CleanInv, Suspicious
<1>2. CASE HeaderInit(s)
    <2>1. pc'[s] = "waiting" /\ out'[s] = out[s]
        BY <1>2 DEF HeaderInit, TypeOK
    <2> QED
        BY <1>1, <2>1
<1>3. CASE PassBy(s)
    BY <1>3, FinishClean DEF PassBy
<1>4. CASE Inspect(s)
    <2>1. pc'[s] = "judged" /\ out'[s] = out[s]
        BY <1>4 DEF Inspect, TypeOK
    <2> QED
        BY <1>1, <2>1
<1>5. CASE Answer(s)
    <2> DEFINE v    == InspectStreamChunk(cfg[s], Shown(s), cfg[s].GuardRetryAttempts, Len(out[s]) > 0)
               what == Disposal(v)
    <2>1. verdict[s] = v /\ ~v.Retry
        BY <1>5 DEF Answer, StreamInv, RoundInv
    <2>2. what = "original" => ~Suspicious(cfg[s], Shown(s))
        <3>1. /\ v.Matched = Suspicious(cfg[s], Shown(s))
              /\ v.Matched /\ ~v.Retry => Disposal(v) \in {"dropped", "blocked"}
            <4> DEFINE w == Len(out[s]) > 0
            <4> HIDE DEF w
            <4>1. w \in BOOLEAN
                BY <1>0 DEF w
            <4>2. LET u == InspectStreamChunk(cfg[s], Shown(s), cfg[s].GuardRetryAttempts, w)
                  IN  /\ u.Matched = Suspicious(cfg[s], Shown(s))
                      /\ u.Matched /\ ~u.Retry => Disposal(u) \in {"dropped", "blocked"}
                BY <1>0, <4>1, InspectFacts
            <4> QED
                BY <4>2 DEF w
        <3> QED
            BY <2>1, <3>1
    <2>3. Reply(s, what) /\ what # "replay"
        BY <1>5, <2>1, DisposalKinds DEF Answer
    <2> HIDE DEF what
    <2>4. Finish(s, what, LinesOf(s, what)) /\ (what = "original" => LinesOf(s, what) = Shown(s))
        BY <2>3, ReplyFinishes DEF Given, LinesOf
    <2> QED
        BY <2>2, <2>3, <2>4, FinishClean
<1>6. CASE StartReplay(s)
    <2>1. pc'[s] = "opening" /\ out'[s] = out[s]
        BY <1>6 DEF StartReplay, Execute, TypeOK
    <2> QED
        BY <1>1, <2>1
<1>7. CASE OpenFails(s)
    <2>1. Finish(s, "failed", LinesOf(s, "failed"))
        BY <1>7, ReplyFinishes DEF OpenFails, Given
    <2> QED
        BY <2>1, FinishClean
<1>8. CASE Open(s)
    <2>1. pc'[s] = "reading" /\ kept'[s] = <<>> /\ out'[s] = out[s] /\ cfg'[s] = cfg[s]
        BY <1>8 DEF Open, TypeOK
    <2>2. Whole(FlattenSeq(kept'[s])) /\ ~Suspicious(cfg[s], FlattenSeq(kept'[s]))
        BY <2>1, NothingHarmless
    <2> QED
        BY <2>1, <2>2 DEF CleanInv, Suspicious, Whole
<1>9. CASE ReadFails(s)
    BY <1>1, <1>9 DEF ReadFails, Leave, TypeOK
<1>10. ASSUME NEW chunk \in Chunk, Whole(chunk), pc[s] = "reading", ~RetryVerdict(s, chunk).Matched,
              kept'[s] = Append(kept[s], chunk), pc'[s] \in {"reading", "closing"}, UNCHANGED <<out, cfg>>
       PROVE  CleanInv(s)'
    <2>1. left[s] > 0 /\ left[s] - 1 \in Nat /\ FALSE \in BOOLEAN
        BY <1>0, <1>10 DEF StreamInv, RoundInv, Rounds
    <2>2. RetryVerdict(s, chunk).Matched = Suspicious(cfg[s], chunk)
        BY <2>1, InspectFacts DEF RetryVerdict
    <2>3. Whole(FlattenSeq(kept[s])) /\ ~Suspicious(cfg[s], FlattenSeq(kept[s]))
        BY <1>10 DEF CleanInv
    <2>4. Whole(FlattenSeq(kept'[s])) /\ ~Suspicious(cfg[s], FlattenSeq(kept'[s]))
        BY <1>10, <2>2, <2>3, KeptHarmless
    <2>5. kept'[s] # <<>>
        BY <1>0, <1>10
    <2> QED
        BY <1>10, <2>4, <2>5 DEF CleanInv, Suspicious, Whole
<1>11. ASSUME NEW chunk \in RetryChunks, ReadSuspicious(s, chunk) PROVE CleanInv(s)'
    <2>1. /\ pc'[s] = "closing" /\ out'[s] = out[s]
          /\ result'[s] = "again" \/ result'[s] = Disposal(RetryVerdict(s, chunk))
        BY <1>11 DEF ReadSuspicious, Leave, TypeOK
    <2>2. result'[s] # "replay"
        BY <2>1, DisposalKinds
    <2> QED
        BY <1>1, <2>1, <2>2
<1>12. ASSUME NEW chunk \in RetryChunks, ReadMore(s, chunk) PROVE CleanInv(s)'
    <2>1. chunk \in Chunk /\ Whole(chunk)
        BY SourcesAssumption DEF Uncut
    <2>2. kept'[s] = Append(kept[s], chunk)
        BY <1>12 DEF ReadMore, TypeOK
    <2> QED
        BY <1>10, <1>12, <2>1, <2>2 DEF ReadMore
<1>13. ASSUME NEW payload \in {{}} \cup {{chunk} : chunk \in RetryChunks}, ReadEnd(s, payload) PROVE CleanInv(s)'
    <2>1. /\ pc[s] = "reading" /\ pc'[s] = "closing" /\ UNCHANGED <<out, cfg>>
          /\ kept'[s] = IF payload = {} THEN kept[s] ELSE Append(kept[s], CHOOSE chunk \in payload : TRUE)
        BY <1>13 DEF ReadEnd, Leave, TypeOK
    <2>2. CASE payload = {}
        <3>1. kept'[s] = kept[s] /\ kept[s] # <<>>
            BY <1>13, <2>1, <2>2 DEF ReadEnd, Uncut
        <3> QED
            BY <2>1, <3>1 DEF CleanInv, Suspicious, Whole
    <2>3. CASE payload # {}
        <3>1. PICK chunk \in RetryChunks : payload = {chunk}
            BY <2>3
        <3>2. (CHOOSE k \in payload : TRUE) = chunk
            BY <3>1
        <3>3. chunk \in Chunk /\ Whole(chunk) /\ ~RetryVerdict(s, chunk).Matched
            BY <1>13, <3>1, SourcesAssumption DEF Uncut, ReadEnd
        <3>4. kept'[s] = Append(kept[s], chunk)
            BY <2>1, <2>3, <3>2
        <3> QED
            BY <1>10, <2>1, <3>3, <3>4
    <2> QED
        BY <2>2, <2>3
<1>14. CASE Close(s)
    <2>1. CASE result[s] = "again" /\ left[s] > 1
        <3>1. pc'[s] = "opening" /\ out'[s] = out[s]
            BY <1>14, <2>1 DEF Close, Execute, TypeOK
        <3> QED
            BY <1>1, <3>1
    <2>2. CASE ~(result[s] = "again" /\ left[s] > 1)
        <3>1. result[s] \in {"failed", "replay", "blocked", "dropped"} /\ Reply(s, result[s])
            BY <1>14, <2>2 DEF Close, StreamInv, RoundInv
        <3>2. result[s] = "replay" => kept[s] # <<>> /\ ~Suspicious(cfg[s], FlattenSeq(kept[s]))
            BY <1>14 DEF Close, CleanInv
        <3>3. /\ Given(s, result[s]) = result[s]
              /\ result[s] = "replay" => LinesOf(s, result[s]) = FlattenSeq(kept[s])
            BY <3>1, <3>2 DEF Given, LinesOf
        <3>4. Finish(s, result[s], LinesOf(s, result[s]))
            BY <3>1, <3>3, ReplyFinishes
        <3> QED
            BY <3>1, <3>2, <3>3, <3>4, FinishClean
    <2> QED
        BY <2>1, <2>2
<1> QED
    BY <1>2, <1>3, <1>4, <1>5, <1>6, <1>7, <1>8, <1>9, <1>11, <1>12, <1>13, <1>14 DEF Handle, Read

Clean == \A s \in Streams : CleanInv(s)

\* At the start nothing has been sent.
LEMMA InitClean == Init => Clean
BY DEF Init, Clean, CleanInv

\* So does every step of the guard.
LEMMA NextClean ==
    ASSUME Uncut, IInv, Clean, [Next]_vars
    PROVE  Clean'
<1> SUFFICES ASSUME NEW q \in Streams PROVE CleanInv(q)'
    BY DEF Clean
<1>0. TypeOK /\ \A s \in Streams : PlaceInv(s) /\ StreamInv(s) /\ CleanInv(s)
    BY DEF IInv, TypeInv, Clean
<1>1. ASSUME UNCHANGED <<pc[q], result[q], kept[q], cfg[q], out[q]>> PROVE CleanInv(q)'
    BY <1>0, <1>1 DEF CleanInv, Suspicious
<1>2. ASSUME NEW s \in Streams, Handle(s), q # s PROVE CleanInv(q)'
    <2>1. Locals(q)' = Locals(q)
        BY <1>0, <1>2, OthersUntouched
    <2> QED
        BY <1>1, <2>1 DEF Locals
<1>3. ASSUME Handle(q) PROVE CleanInv(q)'
    BY <1>0, <1>3, HandleClean
<1>4. ASSUME NEW c \in Configs, Reconfigure(c) PROVE CleanInv(q)'
    BY <1>1, <1>4 DEF Reconfigure, handling
<1>5. CASE UNCHANGED vars
    BY <1>1, <1>5 DEF vars, handling
<1> QED
    BY <1>2, <1>3, <1>4, <1>5 DEF Next

\* Nothing suspicious is streamed to the client, neither of the original nor
\* in a replay, when retried streams come in whole lines and none is empty
\* (ReplayJudgedAsSent is what goes wrong with lines that are cut).
THEOREM NoSuspiciousStreamHolds ==
    ASSUME Uncut
    PROVE  Spec => []NoSuspiciousStream
<1>1. IInv /\ Clean => NoSuspiciousStream
    <2> SUFFICES ASSUME IInv, Clean, NEW s \in Streams, NEW item \in Items(s),
                        item.kind \in {"original", "replay"}
                 PROVE  ~Suspicious(item.cfg, item.lines)
        BY DEF NoSuspiciousStream
    <2>1. PICK i \in DOMAIN out[s] : item = out[s][i]
        BY DEF Items
    <2>2. i \in 1..Len(out[s])
        BY DEF IInv, TypeInv, TypeOK
    <2> QED
        BY <2>1, <2>2 DEF Clean, CleanInv
<1>2. IInv /\ Clean /\ [Next]_vars => Clean'
    BY NextClean
<1> QED
    BY <1>1, <1>2, InitClean, Invariance, PTL DEF Spec

-----------------------------------------------------------------------------
(* What is sent of the original is what upstream sent, chunk by chunk or    *)
(* all of it, and under a configuration that stays it was judged by that.   *)

\* Where upstream sent what the client was sent as the i-th chunk.
Sent(s, i) == IF buffered[s] THEN FlattenSeq(source[s]) ELSE source[s][i]

SentInv(s) == \A i \in 1..Len(out[s]) :
    /\ out[s][i].kind = "original" => out[s][i].lines = Sent(s, i)
    /\ steady[s] /\ out[s][i].kind # "unguarded"
          => out[s][i].cfg = config /\ modelMatches(config, StreamModel[s])

\* A finished chunk is one more of those.
LEMMA FinishSent ==
    ASSUME TypeOK, NEW s \in Streams, PlaceInv(s), StreamInv(s), SentInv(s),
           NEW kind, NEW lines, Finish(s, kind, lines), pc[s] \notin {"header", "done"},
           kind = "original" => lines = Shown(s),
           kind # "unguarded" => pc[s] # "waiting",
           UNCHANGED <<config, source, buffered, steady>>
    PROVE  SentInv(s)'
<1> DEFINE n == Len(out[s]) + 1
<1>1. /\ Len(out[s]) \in Nat /\ Len(out'[s]) = n
      /\ \A i \in 1..Len(out[s]) : out'[s][i] = out[s][i]
      /\ out'[s][n] = [kind |-> kind, lines |-> lines, calls |-> calls[s], cfg |-> cfg[s]]
    BY FinishFacts
<1>2. \A i \in 1..Len(out'[s]) : i \in 1..Len(out[s]) \/ i = n
    BY <1>1
<1>3. Shown(s) = Sent(s, n)
    BY DEF Shown, Sent
<1>4. kind # "unguarded" /\ steady[s] => cfg[s] = config /\ modelMatches(config, StreamModel[s])
    <2>1. kind # "unguarded" => pc[s] \in {"judged"} \cup Rounds
        BY DEF TypeOK, Pc, Rounds
    <2> QED
        BY <2>1 DEF StreamInv, SteadyInv
<1> HIDE DEF n
<1>5. \A i : Sent(s, i)' = Sent(s, i)
    BY DEF Sent
<1>6. ASSUME NEW i \in 1..Len(out'[s])
      PROVE  /\ out'[s][i].kind = "original" => out'[s][i].lines = Sent(s, i)
             /\ steady[s] /\ out'[s][i].kind # "unguarded"
                   => out'[s][i].cfg = config /\ modelMatches(config, StreamModel[s])
    <2>1. CASE i \in 1..Len(out[s])
        <3>1. out'[s][i] = out[s][i]
            BY <1>1, <2>1
        <3> QED
            BY <2>1, <3>1 DEF SentInv
    <2>2. CASE i = n
        BY <1>1, <1>3, <1>4, <2>2
    <2> QED
        BY <1>2, <2>1, <2>2
<1> QED
    BY <1>5, <1>6 DEF SentInv

\* So is a reply.
LEMMA ReplySent ==
    ASSUME TypeOK, NEW s \in Streams, PlaceInv(s), StreamInv(s), SentInv(s), NEW what, Reply(s, what),
           pc[s] \in {"judged"} \cup Rounds, UNCHANGED <<config, source, buffered, steady>>
    PROVE  SentInv(s)'
<1>1. Finish(s, Given(s, what), LinesOf(s, Given(s, what)))
    BY ReplyFinishes
<1>2. Given(s, what) = "original" => LinesOf(s, Given(s, what)) = Shown(s)
    BY DEF LinesOf
<1>3. pc[s] \notin {"header", "done", "waiting"}
    BY DEF Rounds
<1> QED
    BY <1>1, <1>2, <1>3, FinishSent

\* Nothing that matters to a stream changes.
LEMMA SentFrame ==
    ASSUME NEW q \in Streams, SentInv(q), UNCHANGED <<out[q], buffered[q], source[q]>>,
           steady'[q] => steady[q] /\ config' = config
    PROVE  SentInv(q)'
BY DEF SentInv, Sent

\* Every step of a handler keeps it.
LEMMA HandleSent ==
    ASSUME TypeOK, NEW s \in Streams, PlaceInv(s), StreamInv(s), SentInv(s), Handle(s)
    PROVE  SentInv(s)'
<1>1. CASE HeaderInit(s)
    <2>1. out'[s] = <<>> /\ Len(out'[s]) = 0
        BY <1>1 DEF HeaderInit, PlaceInv
    <2> QED
        BY <2>1 DEF SentInv
<1>2. CASE PassBy(s)
    BY <1>2, FinishSent DEF PassBy
<1>3. CASE Inspect(s)
    BY <1>3, SentFrame DEF Inspect
<1>4. CASE Answer(s)
    BY <1>4, ReplySent DEF Answer
<1>5. CASE StartReplay(s)
    BY <1>5, SentFrame DEF StartReplay
<1>6. CASE OpenFails(s)
    BY <1>6, ReplySent DEF OpenFails, Rounds
<1>7. CASE Open(s)
    BY <1>7, SentFrame DEF Open
<1>8. CASE Read(s)
    BY <1>8, SentFrame DEF Read, ReadFails, ReadSuspicious, ReadMore, ReadEnd
<1>9. CASE Close(s)
    <2>1. CASE result[s] = "again" /\ left[s] > 1
        BY <1>9, <2>1, SentFrame DEF Close
    <2>2. CASE ~(result[s] = "again" /\ left[s] > 1)
        BY <1>9, <2>2, ReplySent DEF Close, Rounds
    <2> QED
        BY <2>1, <2>2
<1> QED
    BY <1>1, <1>2, <1>3, <1>4, <1>5, <1>6, <1>7, <1>8, <1>9 DEF Handle

\* What is not shown to be empty is not taken for the original: a chunk that is
\* sent on as it came was found harmless.
HarmlessInv(s) ==
    /\ pc[s] = "closing" /\ result[s] = "replay" => kept[s] # <<>>
    /\ \A i \in 1..Len(out[s]) :
          out[s][i].kind = "original" => ~Suspicious(out[s][i].cfg, out[s][i].lines)

\* A finished chunk is one more of those.
LEMMA FinishHarmless ==
    ASSUME TypeOK, NEW s \in Streams, HarmlessInv(s), NEW kind, NEW lines, Finish(s, kind, lines),
           kind = "original" => ~Suspicious(cfg[s], lines)
    PROVE  HarmlessInv(s)'
<1> DEFINE n == Len(out[s]) + 1
<1>1. /\ Len(out[s]) \in Nat /\ Len(out'[s]) = n
      /\ \A i \in 1..Len(out[s]) : out'[s][i] = out[s][i]
      /\ out'[s][n] = [kind |-> kind, lines |-> lines, calls |-> calls[s], cfg |-> cfg[s]]
      /\ pc'[s] \in {"waiting", "done"}
    BY FinishFacts
<1>2. \A i \in 1..Len(out'[s]) : i \in 1..Len(out[s]) \/ i = n
    BY <1>1
<1> HIDE DEF n
<1>3. ASSUME NEW i \in 1..Len(out'[s]), out'[s][i].kind = "original"
      PROVE  ~Suspicious(out'[s][i].cfg, out'[s][i].lines)
    <2>1. CASE i \in 1..Len(out[s])
        <3>1. out'[s][i] = out[s][i]
            BY <1>1, <2>1
        <3> QED
            BY <1>3, <2>1, <3>1 DEF HarmlessInv
    <2>2. CASE i = n
        BY <1>1, <1>3, <2>2
    <2> QED
        BY <1>2, <2>1, <2>2
<1> QED
    BY <1>1, <1>3 DEF HarmlessInv, Suspicious

\* Every step of a handler keeps it, if no retried stream is empty.
LEMMA HandleHarmless ==
    ASSUME EmptyStreams = FALSE, TypeOK, NEW s \in Streams, PlaceInv(s), StreamInv(s), HarmlessInv(s),
           Handle(s)
    PROVE  HarmlessInv(s)'
<1>0. cfg[s] \in Configs /\ cfg[s].GuardRetryAttempts \in Nat /\ kept[s] \in Seq(Chunk)
    BY ConfigFacts DEF TypeOK
<1>1. ASSUME pc'[s] = "closing" => result'[s] # "replay", out'[s] = out[s]
      PROVE  HarmlessInv(s)'
    BY <1>1 DEF HarmlessInv, Suspicious
<1>2. CASE HeaderInit(s) \/ Inspect(s) \/ StartReplay(s) \/ Open(s)
    BY <1>1, <1>2 DEF HeaderInit, Inspect, StartReplay, Execute, Open, TypeOK
<1>3. CASE PassBy(s)
    BY <1>3, FinishHarmless DEF PassBy
<1>4. CASE Answer(s)
    <2> DEFINE w    == Len(out[s]) > 0
               v    == InspectStreamChunk(cfg[s], Shown(s), cfg[s].GuardRetryAttempts, w)
               what == Disposal(v)
    <2>1. verdict[s] = v /\ ~v.Retry
        BY <1>4 DEF Answer, StreamInv, RoundInv
    <2>2. what = "original" => ~Suspicious(cfg[s], Shown(s))
        <3> HIDE DEF w
        <3>1. w \in BOOLEAN
            BY DEF w
        <3>2. LET u == InspectStreamChunk(cfg[s], Shown(s), cfg[s].GuardRetryAttempts, w)
              IN  /\ u.Matched = Suspicious(cfg[s], Shown(s))
                  /\ u.Matched /\ ~u.Retry => Disposal(u) \in {"dropped", "blocked"}
            BY <1>0, <3>1, InspectFacts
        <3> QED
            BY <2>1, <3>2
    <2>3. Reply(s, what) /\ what # "replay"
        BY <1>4, <2>1, DisposalKinds DEF Answer
    <2> HIDE DEF what
    <2>4. Finish(s, what, LinesOf(s, what)) /\ (what = "original" => LinesOf(s, what) = Shown(s))
        BY <2>3, ReplyFinishes DEF Given, LinesOf
    <2> QED
        BY <2>2, <2>4, FinishHarmless
<1>5. CASE OpenFails(s)
    <2>1. Finish(s, "failed", LinesOf(s, "failed"))
        BY <1>5, ReplyFinishes DEF OpenFails, Given
    <2> QED
        BY <2>1, FinishHarmless
<1>6. CASE ReadFails(s)
    BY <1>1, <1>6 DEF ReadFails, Leave, TypeOK
<1>7. ASSUME NEW chunk \in RetryChunks, ReadSuspicious(s, chunk) PROVE HarmlessInv(s)'
    <2>1. /\ pc'[s] = "closing" /\ out'[s] = out[s]
          /\ result'[s] = "again" \/ result'[s] = Disposal(RetryVerdict(s, chunk))
        BY <1>7 DEF ReadSuspicious, Leave, TypeOK
    <2>2. result'[s] # "replay"
        BY <2>1, DisposalKinds
    <2> QED
        BY <1>1, <2>1, <2>2
<1>8. ASSUME NEW chunk \in RetryChunks, ReadMore(s, chunk) PROVE HarmlessInv(s)'
    BY <1>1, <1>8 DEF ReadMore
<1>9. ASSUME NEW payload \in {{}} \cup {{chunk} : chunk \in RetryChunks}, ReadEnd(s, payload)
      PROVE  HarmlessInv(s)'
    <2>1. out'[s] = out[s]
        BY <1>9 DEF ReadEnd
    <2>2. kept'[s] # <<>>
        <3>1. CASE payload = {}
            BY <1>9, <3>1 DEF ReadEnd, TypeOK
        <3>2. CASE payload # {}
            <4>1. kept'[s] = Append(kept[s], CHOOSE chunk \in payload : TRUE)
                BY <1>9, <3>2 DEF ReadEnd, TypeOK
            <4> QED
                BY <1>0, <4>1
        <3> QED
            BY <3>1, <3>2
    <2> QED
        BY <2>1, <2>2 DEF HarmlessInv, Suspicious
<1>10. CASE Close(s)
    <2>1. CASE result[s] = "again" /\ left[s] > 1
        <3>1. pc'[s] = "opening" /\ out'[s] = out[s]
            BY <1>10, <2>1 DEF Close, Execute, TypeOK
        <3> QED
            BY <1>1, <3>1
    <2>2. CASE ~(result[s] = "again" /\ left[s] > 1)
        <3>1. result[s] \in {"failed", "replay", "blocked", "dropped"} /\ Reply(s, result[s])
            BY <1>10, <2>2 DEF Close, StreamInv, RoundInv
        <3>2. result[s] = "replay" => kept[s] # <<>>
            BY <1>10 DEF Close, HarmlessInv
        <3>3. Given(s, result[s]) = result[s] /\ result[s] # "original"
            BY <3>1, <3>2 DEF Given
        <3>4. Finish(s, result[s], LinesOf(s, result[s]))
            BY <3>1, <3>3, ReplyFinishes
        <3> QED
            BY <3>3, <3>4, FinishHarmless
    <2> QED
        BY <2>1, <2>2
<1> QED
    BY <1>2, <1>3, <1>4, <1>5, <1>6, <1>7, <1>8, <1>9, <1>10 DEF Handle, Read

SentAsJudged == \A s \in Streams : SentInv(s)

SentHarmless == \A s \in Streams : HarmlessInv(s)

\* At the start nothing has been sent.
LEMMA InitSent == Init => SentAsJudged /\ SentHarmless
BY DEF Init, SentAsJudged, SentHarmless, SentInv, HarmlessInv

\* Every step of the guard keeps SentAsJudged.
LEMMA NextSent == IInv /\ SentAsJudged /\ [Next]_vars => SentAsJudged'
<1> SUFFICES ASSUME IInv, SentAsJudged, [Next]_vars, NEW q \in Streams PROVE SentInv(q)'
    BY DEF SentAsJudged
<1>0. TypeOK /\ \A s \in Streams : PlaceInv(s) /\ StreamInv(s) /\ SentInv(s)
    BY DEF IInv, TypeInv, SentAsJudged
<1>1. ASSUME NEW s \in Streams, Handle(s), q # s PROVE SentInv(q)'
    <2>1. Locals(q)' = Locals(q)
        BY <1>0, <1>1, OthersUntouched
    <2>2. config' = config
        BY <1>1 DEF Handle, HeaderInit, PassBy, Inspect, Answer, StartReplay, OpenFails, Open,
                    Read, ReadFails, ReadSuspicious, ReadMore, ReadEnd, Close
    <2> QED
        BY <1>0, <2>1, <2>2, SentFrame DEF Locals
<1>2. ASSUME Handle(q) PROVE SentInv(q)'
    BY <1>0, <1>2, HandleSent
<1>3. ASSUME NEW c \in Configs, Reconfigure(c) PROVE SentInv(q)'
    BY <1>0, <1>3, SentFrame DEF Reconfigure, handling
<1>4. CASE UNCHANGED vars
    BY <1>0, <1>4, SentFrame DEF vars, handling
<1> QED
    BY <1>1, <1>2, <1>3, <1>4 DEF Next

\* Every step keeps SentHarmless, if no retried stream is empty.
LEMMA NextHarmless ==
    ASSUME EmptyStreams = FALSE
    PROVE  IInv /\ SentHarmless /\ [Next]_vars => SentHarmless'
<1> SUFFICES ASSUME IInv, SentHarmless, [Next]_vars, NEW q \in Streams PROVE HarmlessInv(q)'
    BY DEF SentHarmless
<1>0. TypeOK /\ \A s \in Streams : PlaceInv(s) /\ StreamInv(s) /\ HarmlessInv(s)
    BY DEF IInv, TypeInv, SentHarmless
<1>1. ASSUME UNCHANGED <<pc[q], result[q], kept[q], out[q]>> PROVE HarmlessInv(q)'
    BY <1>0, <1>1 DEF HarmlessInv, Suspicious
<1>2. ASSUME NEW s \in Streams, Handle(s), q # s PROVE HarmlessInv(q)'
    <2>1. Locals(q)' = Locals(q)
        BY <1>0, <1>2, OthersUntouched
    <2> QED
        BY <1>1, <2>1 DEF Locals
<1>3. ASSUME Handle(q) PROVE HarmlessInv(q)'
    BY <1>0, <1>3, HandleHarmless
<1>4. ASSUME NEW c \in Configs, Reconfigure(c) PROVE HarmlessInv(q)'
    BY <1>1, <1>4 DEF Reconfigure, handling
<1>5. CASE UNCHANGED vars
    BY <1>1, <1>5 DEF vars, handling
<1> QED
    BY <1>2, <1>3, <1>4, <1>5 DEF Next

\* A chunk that reaches the client as an original is what upstream sent in its
\* place, and under a configuration that stays it is that configuration which
\* judged it.
THEOREM SentAsJudgedHolds == Spec => []SentAsJudged
BY Invariance, InitSent, NextSent, PTL DEF Spec

\* If no retried stream is empty, such a chunk is never suspicious, even where
\* reports are cut by the ends of payloads.
THEOREM SentHarmlessHolds ==
    ASSUME EmptyStreams = FALSE
    PROVE  Spec => []SentHarmless
BY Invariance, InitSent, NextHarmless, PTL DEF Spec

-----------------------------------------------------------------------------
(* The counters.  An attempt is owed an inspection from the moment it is    *)
(* counted until it is read to an end or given up.                          *)

Owes(s) ==
    \/ pc[s] \in {"opening", "reading"}
    \/ pc[s] = "closing" /\ result[s] = "failed"
    \/ \E i \in 1..Len(out[s]) : out[s][i].kind = "failed"

Owing == {s \in Streams : Owes(s)}

Balance == metrics["total"] - metrics["inspected"]

AttemptInv == IsFiniteSet(Owing) /\ Balance = Cardinality(Owing)

\* What one step counts changes the balance by the difference.
LEMMA CountBalance ==
    ASSUME TypeOK, NEW counted, Count(counted)
    PROVE  Balance' = Balance + (IF "total" \in counted THEN 1 ELSE 0) - (IF "inspected" \in counted THEN 1 ELSE 0)
<1>1. /\ metrics'["total"] = metrics["total"] + (IF "total" \in counted THEN 1 ELSE 0)
      /\ metrics'["inspected"] = metrics["inspected"] + (IF "inspected" \in counted THEN 1 ELSE 0)
    BY DEF Count, Counter
<1>2. metrics["total"] \in Nat /\ metrics["inspected"] \in Nat
    BY DEF TypeOK, Counter
<1> QED
    BY <1>1, <1>2 DEF Balance

\* A chunk that ends failed owes its inspection for ever, and no other does.
LEMMA FinishOwes ==
    ASSUME TypeOK, NEW s \in Streams, StreamInv(s), pc[s] # "done",
           NEW kind, NEW lines, Finish(s, kind, lines)
    PROVE  Owes(s)' <=> kind = "failed"
<1>1. /\ Len(out[s]) \in Nat /\ Len(out'[s]) = Len(out[s]) + 1
      /\ \A i \in 1..Len(out[s]) : out'[s][i] = out[s][i]
      /\ out'[s][Len(out[s]) + 1].kind = kind
      /\ pc'[s] \in {"waiting", "done"}
    <2>1. /\ Len(out[s]) \in Nat /\ Len(out'[s]) = Len(out[s]) + 1
          /\ \A i \in 1..Len(out[s]) : out'[s][i] = out[s][i]
          /\ out'[s][Len(out[s]) + 1] = [kind |-> kind, lines |-> lines, calls |-> calls[s], cfg |-> cfg[s]]
          /\ pc'[s] \in {"waiting", "done"}
        BY FinishFacts
    <2> QED
        BY <2>1
<1>2. \A i \in 1..Len(out[s]) : out[s][i].kind # "failed"
    BY DEF StreamInv, ItemsInv
<1>3. (\E i \in 1..Len(out'[s]) : out'[s][i].kind = "failed") <=> kind = "failed"
    <2>1. Len(out[s]) + 1 \in 1..Len(out'[s])
        BY <1>1
    <2>2. \A i \in 1..Len(out'[s]) : i \in 1..Len(out[s]) \/ i = Len(out[s]) + 1
        BY <1>1
    <2>3. \A i \in 1..Len(out[s]) : out'[s][i].kind # "failed"
        BY <1>1, <1>2
    <2> QED
        BY <1>1, <2>1, <2>2, <2>3
<1> QED
    BY <1>1, <1>3 DEF Owes

\* A step of a handler takes up an attempt, settles one, or neither.
LEMMA HandleOwes ==
    ASSUME TypeOK, NEW s \in Streams, PlaceInv(s), StreamInv(s), Handle(s)
    PROVE  \/ (Owes(s)' <=> Owes(s)) /\ Balance' = Balance
           \/ ~Owes(s) /\ Owes(s)' /\ Balance' = Balance + 1
           \/ Owes(s) /\ ~Owes(s)' /\ Balance' = Balance - 1
<1>0. Balance \in Int
    BY DEF TypeOK, Counter, Balance
<1>1. pc[s] # "done" => \A i \in 1..Len(out[s]) : out[s][i].kind # "failed"
    BY DEF StreamInv, ItemsInv
<1>2. ASSUME pc[s] # "done", out'[s] = out[s]
      PROVE  /\ Owes(s) <=> pc[s] \in {"opening", "reading"} \/ (pc[s] = "closing" /\ result[s] = "failed")
             /\ Owes(s)' <=> pc'[s] \in {"opening", "reading"} \/ (pc'[s] = "closing" /\ result'[s] = "failed")
    BY <1>1, <1>2 DEF Owes
<1>3. ASSUME pc[s] # "done"
      PROVE  Owes(s) <=> pc[s] \in {"opening", "reading"} \/ (pc[s] = "closing" /\ result[s] = "failed")
    BY <1>1, <1>3 DEF Owes
<1>4. ASSUME metrics' = metrics PROVE Balance' = Balance
    BY <1>4 DEF Balance
<1>5. CASE HeaderInit(s)
    <2>1. pc[s] = "header" /\ pc'[s] = "waiting" /\ out'[s] = out[s] /\ metrics' = metrics
        BY <1>5 DEF HeaderInit, TypeOK
    <2> QED
        BY <1>2, <1>4, <2>1
<1>6. CASE PassBy(s)
    <2>1. pc[s] = "waiting" /\ Finish(s, "unguarded", Shown(s)) /\ metrics' = metrics
        BY <1>6 DEF PassBy
    <2> QED
        BY <1>3, <1>4, <2>1, FinishOwes
<1>7. CASE Inspect(s)
    <2>1. pc[s] = "waiting" /\ pc'[s] = "judged" /\ out'[s] = out[s]
        BY <1>7 DEF Inspect, TypeOK
    <2>2. PICK v : Count(ChunkCounts(config, v))
        BY <1>7 DEF Inspect
    <2>3. "total" \in ChunkCounts(config, v) <=> "inspected" \in ChunkCounts(config, v)
        BY DEF ChunkCounts, MatchCounts
    <2>4. Balance' = Balance
        BY <1>0, <2>2, <2>3, CountBalance
    <2> QED
        BY <1>2, <2>1, <2>4
<1>8. CASE Answer(s)
    <2> DEFINE what == Disposal(verdict[s])
    <2>1. pc[s] = "judged" /\ Reply(s, what) /\ metrics' = metrics /\ what \notin {"failed", "replay"}
        BY <1>8, DisposalKinds DEF Answer
    <2> HIDE DEF what
    <2>2. Finish(s, what, LinesOf(s, what))
        BY <2>1, ReplyFinishes DEF Given
    <2> QED
        BY <1>3, <1>4, <2>1, <2>2, FinishOwes
<1>9. CASE StartReplay(s)
    <2>1. pc[s] = "judged" /\ pc'[s] = "opening" /\ out'[s] = out[s] /\ Count({"total"})
        BY <1>9 DEF StartReplay, Execute, TypeOK
    <2>2. Balance' = Balance + 1
        BY <1>0, <2>1, CountBalance
    <2> QED
        BY <1>2, <2>1, <2>2
<1>10. CASE OpenFails(s)
    <2>1. pc[s] = "opening" /\ Reply(s, "failed") /\ metrics' = metrics
        BY <1>10 DEF OpenFails
    <2>2. Finish(s, "failed", LinesOf(s, "failed"))
        BY <2>1, ReplyFinishes DEF Given
    <2> QED
        BY <1>3, <1>4, <2>1, <2>2, FinishOwes
<1>11. CASE Open(s)
    <2>1. pc[s] = "opening" /\ pc'[s] = "reading" /\ out'[s] = out[s] /\ metrics' = metrics
        BY <1>11 DEF Open, TypeOK
    <2> QED
        BY <1>2, <1>4, <2>1
<1>12. CASE ReadFails(s)
    <2>1. /\ pc[s] = "reading" /\ pc'[s] = "closing" /\ result'[s] = "failed" /\ out'[s] = out[s]
          /\ metrics' = metrics
        BY <1>12 DEF ReadFails, Leave, TypeOK
    <2> QED
        BY <1>2, <1>4, <2>1
<1>13. ASSUME NEW counted, Count(counted), "inspected" \in counted, "total" \notin counted,
              pc[s] = "reading", pc'[s] = "closing", result'[s] # "failed", out'[s] = out[s]
       PROVE  Owes(s) /\ ~Owes(s)' /\ Balance' = Balance - 1
    <2>1. Balance' = Balance - 1
        BY <1>0, <1>13, CountBalance
    <2> QED
        BY <1>2, <1>13, <2>1
<1>14. ASSUME NEW chunk \in RetryChunks, ReadSuspicious(s, chunk)
       PROVE  Owes(s) /\ ~Owes(s)' /\ Balance' = Balance - 1
    <2>1. /\ pc[s] = "reading" /\ pc'[s] = "closing" /\ out'[s] = out[s] /\ Count(MatchCounts(cfg[s]))
          /\ result'[s] = "again" \/ result'[s] = Disposal(RetryVerdict(s, chunk))
        BY <1>14 DEF ReadSuspicious, Leave, TypeOK
    <2>2. result'[s] # "failed"
        BY <2>1, DisposalKinds
    <2>3. "inspected" \in MatchCounts(cfg[s]) /\ "total" \notin MatchCounts(cfg[s])
        BY DEF MatchCounts
    <2> QED
        BY <1>13, <2>1, <2>2, <2>3
<1>15. ASSUME NEW chunk \in RetryChunks, ReadMore(s, chunk)
       PROVE  (Owes(s)' <=> Owes(s)) /\ Balance' = Balance
    <2>1. pc[s] = "reading" /\ pc'[s] = "reading" /\ out'[s] = out[s] /\ metrics' = metrics
        BY <1>15 DEF ReadMore
    <2> QED
        BY <1>2, <1>4, <2>1
<1>16. ASSUME NEW payload, ReadEnd(s, payload)
       PROVE  Owes(s) /\ ~Owes(s)' /\ Balance' = Balance - 1
    <2>1. /\ pc[s] = "reading" /\ pc'[s] = "closing" /\ result'[s] = "replay" /\ out'[s] = out[s]
          /\ Count({"inspected"})
        BY <1>16 DEF ReadEnd, Leave, TypeOK
    <2> QED
        BY <1>13, <2>1
<1>17. CASE Close(s)
    <2>0. pc[s] = "closing"
        BY <1>17 DEF Close
    <2>1. CASE result[s] = "again" /\ left[s] > 1
        <3>1. pc'[s] = "opening" /\ out'[s] = out[s] /\ Count({"total"})
            BY <1>17, <2>1 DEF Close, Execute, TypeOK
        <3>2. Balance' = Balance + 1
            BY <1>0, <3>1, CountBalance
        <3> QED
            BY <1>2, <2>0, <2>1, <3>1, <3>2
    <2>2. CASE ~(result[s] = "again" /\ left[s] > 1)
        <3>1. /\ result[s] \in {"failed", "replay", "blocked", "dropped"} /\ Reply(s, result[s])
              /\ metrics' = metrics
            BY <1>17, <2>2 DEF Close, StreamInv, RoundInv
        <3>2. Finish(s, Given(s, result[s]), LinesOf(s, Given(s, result[s])))
            BY <3>1, ReplyFinishes
        <3>3. Given(s, result[s]) = "failed" <=> result[s] = "failed"
            BY DEF Given
        <3>4. Owes(s)' <=> result[s] = "failed"
            BY <2>0, <3>2, <3>3, FinishOwes
        <3> QED
            BY <1>3, <1>4, <2>0, <3>1, <3>4
    <2> QED
        BY <2>1, <2>2
<1> QED
    BY <1>5, <1>6, <1>7, <1>8, <1>9, <1>10, <1>11, <1>12, <1>14, <1>15, <1>16, <1>17 DEF Handle, Read

\* At the start nothing is counted and nothing is owed.
LEMMA InitAttempts == Init => AttemptInv
<1> SUFFICES ASSUME Init PROVE AttemptInv
    OBVIOUS
<1>1. Balance = 0
    BY DEF Init, Balance, Counter
<1>2. Owing = {}
    BY DEF Init, Owing, Owes
<1> QED
    BY <1>1, <1>2, FS_EmptySet DEF AttemptInv

\* Every step keeps the balance.
LEMMA NextAttempts == IInv /\ AttemptInv /\ [Next]_vars => AttemptInv'
<1> SUFFICES ASSUME IInv, AttemptInv, [Next]_vars PROVE AttemptInv'
    OBVIOUS
<1>0. TypeOK /\ \A s \in Streams : PlaceInv(s) /\ StreamInv(s)
    BY DEF IInv, TypeInv
<1>1. ASSUME UNCHANGED <<pc, result, out, metrics>> PROVE AttemptInv'
    BY <1>1 DEF AttemptInv, Owing, Owes, Balance
<1>2. ASSUME NEW s \in Streams, Handle(s) PROVE AttemptInv'
    <2>1. \A q \in Streams \ {s} : Owes(q)' <=> Owes(q)
        <3>1. \A q \in Streams \ {s} : Locals(q)' = Locals(q)
            BY <1>0, <1>2, OthersUntouched
        <3> QED
            BY <3>1 DEF Locals, Owes
    <2>2. IsFiniteSet(Owing) /\ Balance = Cardinality(Owing) /\ Cardinality(Owing) \in Nat
        BY FS_CardinalityType DEF AttemptInv
    <2>3. CASE (Owes(s)' <=> Owes(s)) /\ Balance' = Balance
        <3>1. Owing' = Owing
            BY <2>1, <2>3 DEF Owing
        <3> QED
            BY <2>2, <2>3, <3>1 DEF AttemptInv
    <2>4. CASE ~Owes(s) /\ Owes(s)' /\ Balance' = Balance + 1
        <3>1. Owing' = Owing \cup {s} /\ s \notin Owing
            BY <2>1, <2>4 DEF Owing
        <3>2. IsFiniteSet(Owing \cup {s}) /\ Cardinality(Owing \cup {s}) = Cardinality(Owing) + 1
            BY <2>2, <3>1, FS_AddElement
        <3> QED
            BY <2>2, <2>4, <3>1, <3>2 DEF AttemptInv
    <2>5. CASE Owes(s) /\ ~Owes(s)' /\ Balance' = Balance - 1
        <3>1. Owing' = Owing \ {s} /\ s \in Owing
            BY <2>1, <2>5 DEF Owing
        <3>2. IsFiniteSet(Owing \ {s}) /\ Cardinality(Owing \ {s}) = Cardinality(Owing) - 1
            BY <2>2, <3>1, FS_RemoveElement
        <3> QED
            BY <2>2, <2>5, <3>1, <3>2 DEF AttemptInv
    <2> QED
        BY <1>0, <1>2, <2>3, <2>4, <2>5, HandleOwes
<1>3. ASSUME NEW c \in Configs, Reconfigure(c) PROVE AttemptInv'
    BY <1>1, <1>3 DEF Reconfigure, handling
<1>4. CASE UNCHANGED vars
    BY <1>1, <1>4 DEF vars, handling
<1> QED
    BY <1>2, <1>3, <1>4 DEF Next

\* Attempts and inspections are counted at different moments of a replay, but
\* each attempt is inspected once unless the host failed it.
THEOREM AttemptsAccountedHolds == Spec => []AttemptsAccounted
<1>1. IInv /\ AttemptInv => AttemptsAccounted
    <2> SUFFICES ASSUME IInv, AttemptInv PROVE AttemptsAccounted
        OBVIOUS
    <2>1. \A s \in Streams : DOMAIN out[s] = 1..Len(out[s])
        BY DEF IInv, TypeInv, TypeOK
    <2>2. \A s \in Streams :
            (\E i \in 1..Len(out[s]) : out[s][i].kind = "failed") <=> (\E item \in Items(s) : item.kind = "failed")
        BY <2>1 DEF Items
    <2>3. Owing = {s \in Streams :
                     \/ pc[s] \in {"opening", "reading"}
                     \/ pc[s] = "closing" /\ result[s] = "failed"
                     \/ \E item \in Items(s) : item.kind = "failed"}
        BY <2>2 DEF Owing, Owes
    <2> QED
        BY <2>3 DEF AttemptInv, AttemptsAccounted, Balance
<1> QED
    BY <1>1, InitAttempts, NextAttempts, Invariance, PTL DEF Spec

-----------------------------------------------------------------------------
(* The guard of streams implements the contract.  The slot of a stream that *)
(* is being handled is that of the chunk after those already finished.      *)

SlotView(t) == <<SlotPhase(t), SlotBudget(t), SlotRetries(t), SlotOutcome(t)>>

Current(s) == <<s, Len(out[s]) + 1>>

Busy == {"judged", "opening", "reading", "closing"}

\* The largest budget of the configurations bounds each of them.
LEMMA GrantedBounded ==
    ASSUME NEW c \in Configs, NEW i \in Nat
    PROVE  MaxGranted \in Nat /\ Granted(c, i) \in 0..MaxGranted
<1> DEFINE Grants == {d.GuardRetryAttempts : d \in Configs}
<1>1. \E n \in Grants : \A d \in Configs : d.GuardRetryAttempts <= n
    BY StreamGrantsAssumption
<1>2. MaxGranted \in Grants /\ \A d \in Configs : d.GuardRetryAttempts <= MaxGranted
    BY <1>1 DEF MaxGranted
<1>3. MaxGranted \in Nat
    BY <1>2, ConfigFacts
<1> QED
    BY <1>2, <1>3, ConfigFacts DEF Granted

\* There is a slot for the chunk at hand.
LEMMA CurrentIsSlot ==
    ASSUME TypeOK, NEW s \in Streams, PlaceInv(s), pc[s] # "done"
    PROVE  /\ Current(s) \in Slots /\ Current(s)[1] = s /\ Current(s)[2] = Len(out[s]) + 1
           /\ Len(out[s]) \in Nat
<1> DEFINE Lengths == {Len(src) : src \in Sources}
<1>1. \E n \in Lengths : \A src \in Sources : Len(src) <= n
    BY LengthsAssumption
<1>2. MaxLength \in Lengths /\ \A src \in Sources : Len(src) <= MaxLength
    BY <1>1 DEF MaxLength
<1>3. \A src \in Sources : Len(src) \in Nat
    BY SourcesAssumption
<1>4. MaxLength \in Nat
    BY <1>2, <1>3
<1>5. Len(out[s]) \in Nat /\ Len(out[s]) < Len(source[s]) /\ source[s] \in Sources
    BY DEF TypeOK, PlaceInv
<1>6. Len(source[s]) \in Nat /\ Len(source[s]) <= MaxLength
    BY <1>2, <1>3, <1>5
<1>7. Len(out[s]) + 1 \in 1..MaxLength
    BY <1>4, <1>5, <1>6
<1> QED
    BY <1>5, <1>7 DEF Current, Slots

\* What the contract sees of the chunk at hand.
LEMMA CurrentView ==
    ASSUME TypeOK, NEW s \in Streams, PlaceInv(s), pc[s] # "done"
    PROVE  LET u == Current(s)
           IN  /\ SlotPhase(u) = IF pc[s] \in Busy THEN "judging" ELSE "arriving"
               /\ SlotBudget(u) = IF pc[s] \in Busy THEN Granted(cfg[s], Len(out[s]) + 1) ELSE 0
               /\ SlotRetries(u) = IF pc[s] \in Busy THEN calls[s] ELSE 0
               /\ SlotOutcome(u) = "none"
<1> DEFINE u == Current(s)
<1>1. u[1] = s /\ u[2] = Len(out[s]) + 1 /\ Len(out[s]) \in Nat
    BY CurrentIsSlot
<1> HIDE DEF u
<1>2. ~Settled(u)
    BY <1>1 DEF Settled
<1>3. Judging(u) <=> pc[s] \in Busy
    BY <1>1 DEF Judging, Busy
<1>4. SlotPhase(u) = IF pc[s] \in Busy THEN "judging" ELSE "arriving"
    BY <1>2, <1>3 DEF SlotPhase
<1>5. SlotBudget(u) = IF pc[s] \in Busy THEN Granted(cfg[s], Len(out[s]) + 1) ELSE 0
    BY <1>1, <1>2, <1>3 DEF SlotBudget
<1>6. SlotRetries(u) = IF pc[s] \in Busy THEN calls[s] ELSE 0
    BY <1>1, <1>2, <1>3 DEF SlotRetries
<1>7. SlotOutcome(u) = "none"
    BY <1>2 DEF SlotOutcome
<1> QED
    BY <1>4, <1>5, <1>6, <1>7 DEF u

\* What it sees of it when the chunk goes on, and of the others.
LEMMA StayingView ==
    ASSUME TypeOK, NEW s \in Streams, PlaceInv(s), pc[s] # "done", pc'[s] # "done", out'[s] = out[s],
           \A q \in Streams \ {s} : Locals(q)' = Locals(q),
           NEW u, u = Current(s)
    PROVE  /\ SlotPhase(u)' = IF pc'[s] \in Busy THEN "judging" ELSE "arriving"
           /\ SlotBudget(u)' = IF pc'[s] \in Busy THEN Granted(cfg'[s], Len(out[s]) + 1) ELSE 0
           /\ SlotRetries(u)' = IF pc'[s] \in Busy THEN calls'[s] ELSE 0
           /\ SlotOutcome(u)' = "none"
           /\ \A t \in Slots \ {u} : SlotView(t)' = SlotView(t)
<1>1. u[1] = s /\ u[2] = Len(out[s]) + 1 /\ Len(out[s]) \in Nat /\ u = <<s, Len(out[s]) + 1>>
    BY CurrentIsSlot DEF Current
<1>2. ~Settled(u)'
    BY <1>1 DEF Settled
<1>3. Judging(u)' <=> pc'[s] \in Busy
    BY <1>1 DEF Judging, Busy
<1>4. SlotPhase(u)' = IF pc'[s] \in Busy THEN "judging" ELSE "arriving"
    BY <1>2, <1>3 DEF SlotPhase
<1>5. SlotBudget(u)' = IF pc'[s] \in Busy THEN Granted(cfg'[s], Len(out[s]) + 1) ELSE 0
    BY <1>1, <1>2, <1>3 DEF SlotBudget, Granted
<1>6. SlotRetries(u)' = IF pc'[s] \in Busy THEN calls'[s] ELSE 0
    BY <1>1, <1>2, <1>3 DEF SlotRetries
<1>7. SlotOutcome(u)' = "none"
    BY <1>2 DEF SlotOutcome
<1>8. ASSUME NEW t \in Slots \ {u} PROVE SlotView(t)' = SlotView(t)
    <2>1. t[1] \in Streams /\ t[2] \in Nat /\ t = <<t[1], t[2]>>
        BY DEF Slots
    <2>2. CASE t[1] # s
        <3>1. Locals(t[1])' = Locals(t[1])
            BY <2>1, <2>2
        <3> QED
            BY <3>1 DEF Locals, SlotView, SlotPhase, SlotBudget, SlotRetries, SlotOutcome, Settled, Judging,
                        BudgetOf, Granted, OutcomeOf, Suspicious
    <2>3. CASE t[1] = s
        <3>1. t[2] # Len(out[s]) + 1
            BY <1>1, <2>1, <2>3
        <3>2. ~Judging(t) /\ ~Judging(t)' /\ Settled(t)' = Settled(t)
            BY <2>3, <3>1 DEF Judging, Settled
        <3>3. out'[t[1]][t[2]] = out[t[1]][t[2]]
            BY <2>3
        <3> QED
            BY <3>2, <3>3 DEF SlotView, SlotPhase, SlotBudget, SlotRetries, SlotOutcome,
                              BudgetOf, Granted, OutcomeOf, Suspicious
    <2> QED
        BY <2>2, <2>3
<1> QED
    BY <1>4, <1>5, <1>6, <1>7, <1>8

\* And when it is finished.
LEMMA FinishedView ==
    ASSUME TypeOK, NEW s \in Streams, PlaceInv(s), pc[s] # "done",
           NEW kind, NEW lines, Finish(s, kind, lines),
           \A q \in Streams \ {s} : Locals(q)' = Locals(q),
           NEW u, u = Current(s),
           NEW item, item = [kind |-> kind, lines |-> lines, calls |-> calls[s], cfg |-> cfg[s]]
    PROVE  /\ SlotPhase(u)' = "settled"
           /\ SlotBudget(u)' = BudgetOf(item, Len(out[s]) + 1)
           /\ SlotRetries(u)' = calls[s]
           /\ SlotOutcome(u)' = OutcomeOf(item)
           /\ \A t \in Slots \ {u} : SlotView(t)' = SlotView(t)
<1>1. u[1] = s /\ u[2] = Len(out[s]) + 1 /\ Len(out[s]) \in Nat /\ u = <<s, Len(out[s]) + 1>>
    BY CurrentIsSlot DEF Current
<1>2. /\ Len(out'[s]) = Len(out[s]) + 1
      /\ \A i \in 1..Len(out[s]) : out'[s][i] = out[s][i]
      /\ out'[s][Len(out[s]) + 1] = item
      /\ pc'[s] \in {"waiting", "done"}
    BY FinishFacts
<1>3. item.calls = calls[s]
    OBVIOUS
<1>4. Settled(u)' /\ out'[u[1]][u[2]] = item
    BY <1>1, <1>2 DEF Settled
<1>5. SlotPhase(u)' = "settled"
    BY <1>4 DEF SlotPhase
<1>6. SlotBudget(u)' = BudgetOf(item, Len(out[s]) + 1)
    BY <1>1, <1>4 DEF SlotBudget, BudgetOf, Granted
<1>7. SlotRetries(u)' = calls[s]
    BY <1>3, <1>4 DEF SlotRetries
<1>8. SlotOutcome(u)' = OutcomeOf(item)
    BY <1>4 DEF SlotOutcome, OutcomeOf, Suspicious
<1>9. ASSUME NEW t \in Slots \ {u} PROVE SlotView(t)' = SlotView(t)
    <2>1. t[1] \in Streams /\ t[2] \in Nat /\ t[2] > 0 /\ t = <<t[1], t[2]>>
        BY DEF Slots
    <2>2. CASE t[1] # s
        <3>1. Locals(t[1])' = Locals(t[1])
            BY <2>1, <2>2
        <3> QED
            BY <3>1 DEF Locals, SlotView, SlotPhase, SlotBudget, SlotRetries, SlotOutcome, Settled, Judging,
                        BudgetOf, Granted, OutcomeOf, Suspicious
    <2>3. CASE t[1] = s
        <3>1. t[2] # Len(out[s]) + 1
            BY <1>1, <2>1, <2>3
        <3>2. ~Judging(t) /\ ~Judging(t)'
            BY <1>2, <2>3, <3>1 DEF Judging
        <3>3. Settled(t)' <=> Settled(t)
            BY <1>1, <1>2, <2>1, <2>3, <3>1 DEF Settled
        <3>4. Settled(t) => out'[t[1]][t[2]] = out[t[1]][t[2]]
            BY <1>1, <1>2, <2>1, <2>3 DEF Settled
        <3> QED
            BY <3>2, <3>3, <3>4 DEF SlotView, SlotPhase, SlotBudget, SlotRetries, SlotOutcome,
                                    BudgetOf, Granted, OutcomeOf, Suspicious
    <2> QED
        BY <2>2, <2>3
<1> QED
    BY <1>5, <1>6, <1>7, <1>8, <1>9

\* Where only slot u changes, only its place in the contract's state does.
LEMMA OneSlot ==
    ASSUME NEW u \in Slots, \A t \in Slots \ {u} : SlotView(t)' = SlotView(t)
    PROVE  /\ [t \in Slots |-> SlotPhase(t)]' = [[t \in Slots |-> SlotPhase(t)] EXCEPT ![u] = SlotPhase(u)']
           /\ [t \in Slots |-> SlotBudget(t)]' = [[t \in Slots |-> SlotBudget(t)] EXCEPT ![u] = SlotBudget(u)']
           /\ [t \in Slots |-> SlotRetries(t)]' = [[t \in Slots |-> SlotRetries(t)] EXCEPT ![u] = SlotRetries(u)']
           /\ [t \in Slots |-> SlotOutcome(t)]' = [[t \in Slots |-> SlotOutcome(t)] EXCEPT ![u] = SlotOutcome(u)']
<1>1. \A t \in Slots \ {u} : SlotPhase(t)' = SlotPhase(t)
    BY DEF SlotView
<1>2. \A t \in Slots \ {u} : SlotBudget(t)' = SlotBudget(t)
    BY DEF SlotView
<1>3. \A t \in Slots \ {u} : SlotRetries(t)' = SlotRetries(t)
    BY DEF SlotView
<1>4. \A t \in Slots \ {u} : SlotOutcome(t)' = SlotOutcome(t)
    BY DEF SlotView
<1> QED
    BY <1>1, <1>2, <1>3, <1>4

\* And what does not change there does not change at all.
LEMMA SameSlot ==
    ASSUME NEW u \in Slots, \A t \in Slots \ {u} : SlotView(t)' = SlotView(t)
    PROVE  /\ SlotPhase(u)' = SlotPhase(u) =>
                 [t \in Slots |-> SlotPhase(t)]' = [t \in Slots |-> SlotPhase(t)]
           /\ SlotBudget(u)' = SlotBudget(u) =>
                 [t \in Slots |-> SlotBudget(t)]' = [t \in Slots |-> SlotBudget(t)]
           /\ SlotRetries(u)' = SlotRetries(u) =>
                 [t \in Slots |-> SlotRetries(t)]' = [t \in Slots |-> SlotRetries(t)]
           /\ SlotOutcome(u)' = SlotOutcome(u) =>
                 [t \in Slots |-> SlotOutcome(t)]' = [t \in Slots |-> SlotOutcome(t)]
<1>1. ASSUME SlotPhase(u)' = SlotPhase(u) PROVE \A t \in Slots : SlotPhase(t)' = SlotPhase(t)
    BY <1>1 DEF SlotView
<1>2. ASSUME SlotBudget(u)' = SlotBudget(u) PROVE \A t \in Slots : SlotBudget(t)' = SlotBudget(t)
    BY <1>2 DEF SlotView
<1>3. ASSUME SlotRetries(u)' = SlotRetries(u) PROVE \A t \in Slots : SlotRetries(t)' = SlotRetries(t)
    BY <1>3 DEF SlotView
<1>4. ASSUME SlotOutcome(u)' = SlotOutcome(u) PROVE \A t \in Slots : SlotOutcome(t)' = SlotOutcome(t)
    BY <1>4 DEF SlotView
<1> QED
    BY <1>1, <1>2, <1>3, <1>4

\* A step that ends the chunk of slot u and spends nothing settles it.
LEMMA SettlesAs ==
    ASSUME NEW u \in Slots, \A t \in Slots \ {u} : SlotView(t)' = SlotView(t), NEW o,
           SlotPhase(u)' = "settled", SlotOutcome(u)' = o,
           SlotBudget(u)' = SlotBudget(u), SlotRetries(u)' = SlotRetries(u)
    PROVE  Contract!Settle(u, o)
<1> DEFINE phase   == [t \in Slots |-> SlotPhase(t)]
           budget  == [t \in Slots |-> SlotBudget(t)]
           retries == [t \in Slots |-> SlotRetries(t)]
           outcome == [t \in Slots |-> SlotOutcome(t)]
<1>1. phase' = [phase EXCEPT ![u] = SlotPhase(u)'] /\ outcome' = [outcome EXCEPT ![u] = SlotOutcome(u)']
    BY OneSlot
<1>2. phase' = [phase EXCEPT ![u] = "settled"] /\ outcome' = [outcome EXCEPT ![u] = o]
    BY <1>1, Zenon
<1>3. budget' = budget /\ retries' = retries
    BY SameSlot
<1> QED
    BY <1>2, <1>3, Zenon DEF Contract!Settle

\* A step that begins to judge the chunk of slot u takes it up.
LEMMA TakesUp ==
    ASSUME NEW u \in Slots, \A t \in Slots \ {u} : SlotView(t)' = SlotView(t),
           SlotPhase(u) = "arriving", SlotPhase(u)' = "judging", SlotBudget(u)' \in 0..MaxGranted,
           SlotRetries(u)' = SlotRetries(u), SlotOutcome(u)' = SlotOutcome(u)
    PROVE  Contract!Accept(u)
<1> DEFINE phase   == [t \in Slots |-> SlotPhase(t)]
           budget  == [t \in Slots |-> SlotBudget(t)]
           retries == [t \in Slots |-> SlotRetries(t)]
           outcome == [t \in Slots |-> SlotOutcome(t)]
<1>1. phase' = [phase EXCEPT ![u] = SlotPhase(u)'] /\ budget' = [budget EXCEPT ![u] = SlotBudget(u)']
    BY OneSlot
<1>2. phase[u] = "arriving" /\ phase' = [phase EXCEPT ![u] = "judging"]
    BY <1>1, Zenon
<1>3. \E b \in 0..MaxGranted : budget' = [budget EXCEPT ![u] = b]
    BY <1>1, Zenon
<1>4. retries' = retries /\ outcome' = outcome
    BY SameSlot
<1> QED
    BY <1>2, <1>3, <1>4, Zenon DEF Contract!Accept

\* A step that begins another round of the chunk of slot u retries it.
LEMMA RetriesSlot ==
    ASSUME NEW u \in Slots, \A t \in Slots \ {u} : SlotView(t)' = SlotView(t),
           SlotPhase(u) = "judging", SlotRetries(u) < SlotBudget(u), SlotRetries(u)' = SlotRetries(u) + 1,
           SlotPhase(u)' = SlotPhase(u), SlotBudget(u)' = SlotBudget(u), SlotOutcome(u)' = SlotOutcome(u)
    PROVE  Contract!Retry(u)
<1> DEFINE phase   == [t \in Slots |-> SlotPhase(t)]
           budget  == [t \in Slots |-> SlotBudget(t)]
           retries == [t \in Slots |-> SlotRetries(t)]
           outcome == [t \in Slots |-> SlotOutcome(t)]
<1>1. retries' = [retries EXCEPT ![u] = SlotRetries(u)']
    BY OneSlot
<1>2. retries[u] = SlotRetries(u) /\ phase[u] = "judging" /\ budget[u] = SlotBudget(u)
    OBVIOUS
<1>3. retries' = [retries EXCEPT ![u] = retries[u] + 1] /\ retries[u] < budget[u]
    BY <1>1, <1>2, Zenon
<1>4. phase' = phase /\ budget' = budget /\ outcome' = outcome
    BY SameSlot
<1> QED
    BY <1>2, <1>3, <1>4, Zenon DEF Contract!Retry

\* A step that changes nothing the contract sees is none of its steps.
LEMMA KeepsSlots ==
    ASSUME NEW u \in Slots, \A t \in Slots \ {u} : SlotView(t)' = SlotView(t),
           SlotPhase(u)' = SlotPhase(u), SlotBudget(u)' = SlotBudget(u),
           SlotRetries(u)' = SlotRetries(u), SlotOutcome(u)' = SlotOutcome(u)
    PROVE  UNCHANGED Contract!vars
<1> DEFINE phase   == [t \in Slots |-> SlotPhase(t)]
           budget  == [t \in Slots |-> SlotBudget(t)]
           retries == [t \in Slots |-> SlotRetries(t)]
           outcome == [t \in Slots |-> SlotOutcome(t)]
<1>1. phase' = phase /\ budget' = budget /\ retries' = retries /\ outcome' = outcome
    BY SameSlot
<1> QED
    BY <1>1 DEF Contract!vars

\* The answer to a chunk that was judged ends it as the contract allows.
LEMMA FinishMapped ==
    ASSUME TypeOK, NEW s \in Streams, PlaceInv(s), pc[s] \in Busy,
           NEW kind, NEW lines, Finish(s, kind, lines), kind \in Kind \ {"unguarded"},
           \A q \in Streams \ {s} : Locals(q)' = Locals(q),
           kind = "failed" => calls[s] > 0,
           kind \in {"dropped", "blocked"} => calls[s] = Granted(cfg[s], Len(out[s]) + 1),
           kind \in {"original", "replay"} => ~Suspicious(cfg[s], lines)
    PROVE  Contract!Step(Current(s))
<1>1. PICK u : u = Current(s)
    OBVIOUS
<1>2. PICK item : item = [kind |-> kind, lines |-> lines, calls |-> calls[s], cfg |-> cfg[s]]
    OBVIOUS
<1>3. pc[s] # "done"
    BY DEF Busy
<1>4. u \in Slots
    BY <1>1, <1>3, CurrentIsSlot
<1>5. /\ SlotPhase(u) = "judging" /\ SlotBudget(u) = Granted(cfg[s], Len(out[s]) + 1)
      /\ SlotRetries(u) = calls[s]
    BY <1>1, <1>3, CurrentView
<1>6. /\ SlotPhase(u)' = "settled" /\ SlotBudget(u)' = BudgetOf(item, Len(out[s]) + 1)
      /\ SlotRetries(u)' = calls[s] /\ SlotOutcome(u)' = OutcomeOf(item)
      /\ \A t \in Slots \ {u} : SlotView(t)' = SlotView(t)
    BY <1>1, <1>2, <1>3, FinishedView
<1>7. SlotBudget(u)' = SlotBudget(u)
    BY <1>2, <1>5, <1>6 DEF BudgetOf
<1>8. Contract!Settle(u, OutcomeOf(item))
    BY <1>4, <1>5, <1>6, <1>7, SettlesAs
<1> DEFINE phase   == [t \in Slots |-> SlotPhase(t)]
           budget  == [t \in Slots |-> SlotBudget(t)]
           retries == [t \in Slots |-> SlotRetries(t)]
<1>9. phase[u] = "judging" /\ budget[u] = SlotBudget(u) /\ retries[u] = calls[s]
    BY <1>4, <1>5
<1>10. CASE kind = "failed"
    <2>1. OutcomeOf(item) = "failed"
        BY <1>2, <1>10 DEF OutcomeOf
    <2>2. retries[u] > 0
        BY <1>9, <1>10
    <2>3. Contract!Fail(u)
        BY <1>8, <1>9, <2>1, <2>2, Zenon DEF Contract!Fail
    <2> QED
        BY <1>1, <2>3, Zenon DEF Contract!Step
<1>11. CASE kind \in {"dropped", "blocked"}
    <2>1. OutcomeOf(item) = "blocked"
        BY <1>2, <1>11 DEF OutcomeOf
    <2>2. retries[u] = budget[u]
        BY <1>5, <1>9, <1>11
    <2>3. Contract!Block(u)
        BY <1>8, <1>9, <2>1, <2>2, Zenon DEF Contract!Block
    <2> QED
        BY <1>1, <2>3, Zenon DEF Contract!Step
<1>12. CASE kind \in {"original", "replay"}
    <2>1. OutcomeOf(item) = "clean"
        BY <1>2, <1>12 DEF OutcomeOf
    <2>2. Contract!Pass(u)
        BY <1>8, <1>9, <2>1, Zenon DEF Contract!Pass
    <2> QED
        BY <1>1, <2>2, Zenon DEF Contract!Step
<1> QED
    BY <1>10, <1>11, <1>12 DEF Kind

\* A step within the handling of a chunk that spends nothing is not seen.
LEMMA StepUnseen ==
    ASSUME TypeOK, NEW s \in Streams, PlaceInv(s), pc[s] # "done", pc'[s] # "done", out'[s] = out[s],
           \A q \in Streams \ {s} : Locals(q)' = Locals(q),
           pc'[s] \in Busy <=> pc[s] \in Busy, pc[s] \in Busy => cfg'[s] = cfg[s] /\ calls'[s] = calls[s]
    PROVE  UNCHANGED Contract!vars
<1>1. PICK u : u = Current(s)
    OBVIOUS
<1>2. u \in Slots
    BY <1>1, CurrentIsSlot
<1>3. /\ SlotPhase(u) = (IF pc[s] \in Busy THEN "judging" ELSE "arriving")
      /\ SlotBudget(u) = (IF pc[s] \in Busy THEN Granted(cfg[s], Len(out[s]) + 1) ELSE 0)
      /\ SlotRetries(u) = (IF pc[s] \in Busy THEN calls[s] ELSE 0)
      /\ SlotOutcome(u) = "none"
    BY <1>1, CurrentView
<1>4. /\ SlotPhase(u)' = (IF pc'[s] \in Busy THEN "judging" ELSE "arriving")
      /\ SlotBudget(u)' = (IF pc'[s] \in Busy THEN Granted(cfg'[s], Len(out[s]) + 1) ELSE 0)
      /\ SlotRetries(u)' = (IF pc'[s] \in Busy THEN calls'[s] ELSE 0)
      /\ SlotOutcome(u)' = "none"
      /\ \A t \in Slots \ {u} : SlotView(t)' = SlotView(t)
    BY <1>1, StayingView
<1>5. /\ SlotPhase(u)' = SlotPhase(u) /\ SlotBudget(u)' = SlotBudget(u)
      /\ SlotRetries(u)' = SlotRetries(u) /\ SlotOutcome(u)' = SlotOutcome(u)
    BY <1>3, <1>4
<1> QED
    BY <1>2, <1>4, <1>5, KeepsSlots

\* Another round of the chunk at hand is a retry, within its budget.
LEMMA RoundMapped ==
    ASSUME TypeOK, NEW s \in Streams, PlaceInv(s), pc[s] \in Busy, pc'[s] \in Busy, out'[s] = out[s],
           \A q \in Streams \ {s} : Locals(q)' = Locals(q),
           cfg'[s] = cfg[s], calls'[s] = calls[s] + 1, calls[s] < Granted(cfg[s], Len(out[s]) + 1)
    PROVE  Contract!Retry(Current(s))
<1>1. PICK u : u = Current(s)
    OBVIOUS
<1>2. pc[s] # "done" /\ pc'[s] # "done"
    BY DEF Busy
<1>3. u \in Slots
    BY <1>1, <1>2, CurrentIsSlot
<1>4. /\ SlotPhase(u) = "judging" /\ SlotBudget(u) = Granted(cfg[s], Len(out[s]) + 1)
      /\ SlotRetries(u) = calls[s] /\ SlotOutcome(u) = "none"
    BY <1>1, <1>2, CurrentView
<1>5. /\ SlotPhase(u)' = "judging" /\ SlotBudget(u)' = Granted(cfg[s], Len(out[s]) + 1)
      /\ SlotRetries(u)' = calls[s] + 1 /\ SlotOutcome(u)' = "none"
      /\ \A t \in Slots \ {u} : SlotView(t)' = SlotView(t)
    BY <1>1, <1>2, StayingView
<1>6. /\ SlotRetries(u) < SlotBudget(u) /\ SlotRetries(u)' = SlotRetries(u) + 1
      /\ SlotPhase(u)' = SlotPhase(u) /\ SlotBudget(u)' = SlotBudget(u) /\ SlotOutcome(u)' = SlotOutcome(u)
    BY <1>4, <1>5
<1>7. Contract!Retry(u)
    BY <1>3, <1>4, <1>5, <1>6, RetriesSlot
<1> QED
    BY <1>1, <1>7

\* Where the original chunk or a refusal is sent, no retry was to be had.
LEMMA JudgedVerdict ==
    ASSUME TypeOK, NEW s \in Streams, pc[s] = "judged", StreamInv(s)
    PROVE  LET v == verdict[s]
           IN  /\ v.Retry => calls[s] < Granted(cfg[s], Len(out[s]) + 1)
               /\ ~v.Retry /\ Disposal(v) = "original" => ~Suspicious(cfg[s], Shown(s))
               /\ ~v.Retry /\ Disposal(v) \in {"dropped", "blocked"}
                    => calls[s] = Granted(cfg[s], Len(out[s]) + 1)
<1> DEFINE w == Len(out[s]) > 0
           n == cfg[s].GuardRetryAttempts
           g == Granted(cfg[s], Len(out[s]) + 1)
<1>1. n \in Nat /\ w \in BOOLEAN /\ Len(out[s]) \in Nat
    BY ConfigFacts DEF TypeOK
<1>2. calls[s] = 0 /\ verdict[s] = InspectStreamChunk(cfg[s], Shown(s), n, w)
    BY DEF StreamInv, RoundInv, Rounds
<1>3. g = IF cfg[s].InterceptStreaming /\ ~(cfg[s].StreamAction = "disconnect" /\ w) THEN n ELSE 0
    BY <1>1 DEF Granted
<1> HIDE DEF w, n, g
<1>4. /\ verdict[s].Matched = Suspicious(cfg[s], Shown(s))
      /\ verdict[s].Retry => /\ verdict[s].Matched /\ cfg[s].InterceptStreaming /\ n > 0
                             /\ ~(cfg[s].StreamAction = "disconnect" /\ w)
      /\ verdict[s].Matched /\ ~verdict[s].Retry => \/ ~cfg[s].InterceptStreaming \/ n = 0
                                                    \/ cfg[s].StreamAction = "disconnect" /\ w
      /\ verdict[s].Matched /\ ~verdict[s].Retry => Disposal(verdict[s]) \in {"dropped", "blocked"}
      /\ ~verdict[s].Matched => Disposal(verdict[s]) = "original"
    <2> DEFINE v == InspectStreamChunk(cfg[s], Shown(s), n, w)
    <2>1. /\ v.Matched = Suspicious(cfg[s], Shown(s))
          /\ v.Retry => /\ v.Matched /\ cfg[s].InterceptStreaming /\ n > 0
                        /\ ~(cfg[s].StreamAction = "disconnect" /\ w)
          /\ v.Matched /\ ~v.Retry => \/ ~cfg[s].InterceptStreaming \/ n = 0
                                      \/ cfg[s].StreamAction = "disconnect" /\ w
          /\ v.Matched /\ ~v.Retry => Disposal(v) \in {"dropped", "blocked"}
          /\ ~v.Matched => Disposal(v) = "original"
        BY <1>1, InspectFacts
    <2>2. verdict[s] = v
        BY <1>2
    <2> HIDE DEF v
    <2> QED
        BY <2>1, <2>2
<1>5. verdict[s].Retry => calls[s] < g
    BY <1>1, <1>2, <1>3, <1>4
<1>6. ~verdict[s].Retry /\ Disposal(verdict[s]) = "original" => ~Suspicious(cfg[s], Shown(s))
    BY <1>4
<1>7. ~verdict[s].Retry /\ Disposal(verdict[s]) \in {"dropped", "blocked"} => calls[s] = g
    BY <1>2, <1>3, <1>4
<1> QED
    BY <1>5, <1>6, <1>7 DEF g

\* Every step of a handler is a step of the contract for its chunk, or none.
LEMMA HandlerMapped ==
    ASSUME TypeOK, NEW s \in Streams, PlaceInv(s), StreamInv(s), CleanInv(s), Handle(s)
    PROVE  Contract!Step(Current(s)) \/ UNCHANGED Contract!vars
<1>0. /\ cfg[s] \in Configs /\ cfg[s].GuardRetryAttempts \in Nat /\ left[s] \in Nat /\ calls[s] \in Nat
      /\ Len(out[s]) \in Nat /\ config \in Configs
      /\ \A q \in Streams \ {s} : Locals(q)' = Locals(q)
    <2>1. cfg[s] \in Configs /\ left[s] \in Nat /\ calls[s] \in Nat /\ out[s] \in Seq(Item)
          /\ config \in Configs
        BY DEF TypeOK
    <2>2. cfg[s].GuardRetryAttempts \in Nat /\ Len(out[s]) \in Nat
        BY <2>1, ConfigFacts
    <2>3. \A q \in Streams \ {s} : Locals(q)' = Locals(q)
        BY OthersUntouched
    <2> QED
        BY <2>1, <2>2, <2>3
<1>1. CASE HeaderInit(s)
    <2>1. pc[s] = "header" /\ pc'[s] = "waiting" /\ out'[s] = out[s]
        BY <1>1 DEF HeaderInit, TypeOK
    <2>2. pc[s] # "done" /\ pc'[s] # "done" /\ pc[s] \notin Busy /\ pc'[s] \notin Busy
        BY <2>1 DEF Busy
    <2> QED
        BY <1>0, <2>1, <2>2, StepUnseen
<1>2. CASE PassBy(s)
    <2>1. pc[s] = "waiting" /\ Finish(s, "unguarded", Shown(s)) /\ calls[s] = 0
        BY <1>2 DEF PassBy, StreamInv, RoundInv, Rounds
    <2>2. pc[s] # "done" /\ pc[s] \notin Busy
        BY <2>1 DEF Busy
    <2>3. PICK u : u = Current(s)
        OBVIOUS
    <2>4. PICK item : item = [kind |-> "unguarded", lines |-> Shown(s), calls |-> calls[s], cfg |-> cfg[s]]
        OBVIOUS
    <2>5. u \in Slots
        BY <2>2, <2>3, CurrentIsSlot
    <2>6. SlotPhase(u) = "arriving" /\ SlotBudget(u) = 0 /\ SlotRetries(u) = 0
        BY <2>2, <2>3, CurrentView
    <2>7. /\ SlotPhase(u)' = "settled" /\ SlotBudget(u)' = BudgetOf(item, Len(out[s]) + 1)
          /\ SlotRetries(u)' = calls[s] /\ SlotOutcome(u)' = OutcomeOf(item)
          /\ \A t \in Slots \ {u} : SlotView(t)' = SlotView(t)
        BY <1>0, <2>1, <2>2, <2>3, <2>4, FinishedView
    <2>8. OutcomeOf(item) = "unguarded" /\ BudgetOf(item, Len(out[s]) + 1) = 0
        BY <2>4 DEF OutcomeOf, BudgetOf
    <2>9. Contract!Settle(u, "unguarded")
        BY <2>1, <2>5, <2>6, <2>7, <2>8, SettlesAs
    <2>10. [t \in Slots |-> SlotPhase(t)][u] = "arriving"
        BY <2>5, <2>6
    <2>11. Contract!TurnAway(u)
        BY <2>9, <2>10, Zenon DEF Contract!TurnAway
    <2> QED
        BY <2>3, <2>11, Zenon DEF Contract!Step
<1>3. CASE Inspect(s)
    <2>1. /\ pc[s] = "waiting" /\ pc'[s] = "judged" /\ out'[s] = out[s] /\ cfg'[s] = config
          /\ calls'[s] = calls[s] /\ calls[s] = 0
        BY <1>3 DEF Inspect, TypeOK, StreamInv, RoundInv, Rounds
    <2>2. pc[s] # "done" /\ pc[s] \notin Busy /\ pc'[s] # "done" /\ pc'[s] \in Busy
        BY <2>1 DEF Busy
    <2>3. PICK u : u = Current(s)
        OBVIOUS
    <2>4. u \in Slots
        BY <2>2, <2>3, CurrentIsSlot
    <2>5. SlotPhase(u) = "arriving" /\ SlotRetries(u) = 0 /\ SlotOutcome(u) = "none"
        BY <2>2, <2>3, CurrentView
    <2>6. /\ SlotPhase(u)' = "judging" /\ SlotBudget(u)' = Granted(config, Len(out[s]) + 1)
          /\ SlotRetries(u)' = 0 /\ SlotOutcome(u)' = "none"
          /\ \A t \in Slots \ {u} : SlotView(t)' = SlotView(t)
        BY <1>0, <2>1, <2>2, <2>3, StayingView
    <2>7. SlotBudget(u)' \in 0..MaxGranted
        BY <1>0, <2>6, GrantedBounded
    <2>8. Contract!Accept(u)
        BY <2>4, <2>5, <2>6, <2>7, TakesUp
    <2> QED
        BY <2>3, <2>8, Zenon DEF Contract!Step
<1>4. CASE Answer(s)
    <2> DEFINE what == Disposal(verdict[s])
    <2>1. pc[s] = "judged" /\ ~verdict[s].Retry /\ Reply(s, what)
        BY <1>4 DEF Answer
    <2>2. what \in {"dropped", "blocked", "original"}
        BY DisposalKinds
    <2>3. /\ what = "original" => ~Suspicious(cfg[s], Shown(s))
          /\ what \in {"dropped", "blocked"} => calls[s] = Granted(cfg[s], Len(out[s]) + 1)
        BY <2>1, JudgedVerdict
    <2> HIDE DEF what
    <2>4. Finish(s, what, LinesOf(s, what)) /\ (what = "original" => LinesOf(s, what) = Shown(s))
        BY <2>1, <2>2, ReplyFinishes DEF Given, LinesOf
    <2>5. pc[s] \in Busy /\ what \in Kind \ {"unguarded"}
        BY <2>1, <2>2 DEF Busy, Kind
    <2>6. Contract!Step(Current(s))
        BY <1>0, <2>2, <2>3, <2>4, <2>5, FinishMapped
    <2> QED
        BY <2>6
<1>5. CASE StartReplay(s)
    <2>1. /\ pc[s] = "judged" /\ verdict[s].Retry /\ pc'[s] = "opening" /\ calls'[s] = calls[s] + 1
          /\ out'[s] = out[s] /\ cfg'[s] = cfg[s]
        BY <1>5 DEF StartReplay, Execute, TypeOK
    <2>2. calls[s] < Granted(cfg[s], Len(out[s]) + 1)
        BY <2>1, JudgedVerdict
    <2>3. pc[s] \in Busy /\ pc'[s] \in Busy
        BY <2>1 DEF Busy
    <2>4. Contract!Retry(Current(s))
        BY <1>0, <2>1, <2>2, <2>3, RoundMapped
    <2> QED
        BY <2>4 DEF Contract!Step
<1>6. CASE OpenFails(s)
    <2>1. pc[s] = "opening" /\ Finish(s, "failed", LinesOf(s, "failed"))
        BY <1>6, ReplyFinishes DEF OpenFails, Given
    <2>2. pc[s] \in Busy /\ calls[s] > 0 /\ "failed" \in Kind \ {"unguarded"}
        BY <2>1 DEF Busy, StreamInv, RoundInv, Rounds, Kind
    <2>3. Contract!Step(Current(s))
        BY <1>0, <2>1, <2>2, FinishMapped
    <2> QED
        BY <2>3
<1>7. ASSUME pc[s] \in {"opening", "reading"}, pc'[s] \in {"reading", "closing"},
             UNCHANGED <<out, cfg, calls>>
      PROVE  UNCHANGED Contract!vars
    <2>1. pc[s] # "done" /\ pc'[s] # "done" /\ pc[s] \in Busy /\ pc'[s] \in Busy
        BY <1>7 DEF Busy
    <2> QED
        BY <1>0, <1>7, <2>1, StepUnseen
<1>8. CASE Open(s)
    <2>1. pc[s] = "opening" /\ pc'[s] = "reading"
        BY <1>8 DEF Open, TypeOK
    <2> QED
        BY <1>7, <1>8, <2>1 DEF Open
<1>9. CASE Read(s)
    <2>1. /\ pc[s] = "reading" /\ pc'[s] \in {"reading", "closing"}
          /\ UNCHANGED <<out, cfg, calls>>
        BY <1>9 DEF Read, ReadFails, ReadSuspicious, ReadMore, ReadEnd, Leave, TypeOK
    <2> QED
        BY <1>7, <2>1
<1>10. CASE Close(s)
    <2>1. /\ pc[s] = "closing" /\ pc[s] \in Busy /\ pc[s] \in Rounds /\ calls[s] > 0 /\ left[s] > 0
          /\ calls[s] + left[s] = cfg[s].GuardRetryAttempts + 1
          /\ result[s] \in {"again", "failed", "replay", "blocked", "dropped"}
          /\ result[s] = "again" => left[s] > 1
          /\ result[s] \in {"blocked", "dropped"} => left[s] = 1
        BY <1>10 DEF Close, Busy, StreamInv, RoundInv, Rounds
    <2>2. Granted(cfg[s], Len(out[s]) + 1) = cfg[s].GuardRetryAttempts
        BY <2>1, CostWithinBudget
    <2>3. CASE result[s] = "again" /\ left[s] > 1
        <3>1. /\ pc'[s] = "opening" /\ out'[s] = out[s] /\ cfg'[s] = cfg[s] /\ calls'[s] = calls[s] + 1
            BY <1>10, <2>3 DEF Close, Execute, TypeOK
        <3>2. pc'[s] \in Busy /\ calls[s] < Granted(cfg[s], Len(out[s]) + 1)
            <4>1. calls[s] < cfg[s].GuardRetryAttempts
                BY <1>0, <2>1, <2>3
            <4> QED
                BY <2>2, <3>1, <4>1 DEF Busy
        <3>3. Contract!Retry(Current(s))
            BY <1>0, <2>1, <3>1, <3>2, RoundMapped
        <3> QED
            BY <3>3 DEF Contract!Step
    <2>4. CASE ~(result[s] = "again" /\ left[s] > 1)
        <3>1. result[s] \in {"failed", "replay", "blocked", "dropped"} /\ Reply(s, result[s])
            BY <1>10, <2>1, <2>4 DEF Close
        <3>2. result[s] = "replay" => kept[s] # <<>> /\ ~Suspicious(cfg[s], FlattenSeq(kept[s]))
            BY <2>1 DEF CleanInv
        <3>3. /\ Given(s, result[s]) = result[s]
              /\ result[s] = "replay" => LinesOf(s, result[s]) = FlattenSeq(kept[s])
            BY <3>1, <3>2 DEF Given, LinesOf
        <3>4. Finish(s, result[s], LinesOf(s, result[s]))
            BY <3>1, <3>3, ReplyFinishes
        <3>5. result[s] \in {"dropped", "blocked"} => calls[s] = Granted(cfg[s], Len(out[s]) + 1)
            BY <1>0, <2>1, <2>2
        <3>6. result[s] \in Kind \ {"unguarded"}
            BY <3>1 DEF Kind
        <3>7. result[s] \in {"original", "replay"} => ~Suspicious(cfg[s], LinesOf(s, result[s]))
            BY <3>1, <3>2, <3>3
        <3>8. Contract!Step(Current(s))
            BY <1>0, <2>1, <3>4, <3>5, <3>6, <3>7, FinishMapped
        <3> QED
            BY <3>8
    <2> QED
        BY <2>3, <2>4
<1> QED
    BY <1>1, <1>2, <1>3, <1>4, <1>5, <1>6, <1>8, <1>9, <1>10 DEF Handle

\* So every step of the guard is a step of the contract, or none.
LEMMA StepMapped ==
    ASSUME IInv, Clean, [Next]_vars
    PROVE  [Contract!Next]_(Contract!vars)
<1>0. TypeOK /\ \A s \in Streams : PlaceInv(s) /\ StreamInv(s) /\ CleanInv(s)
    BY DEF IInv, TypeInv, Clean
<1>1. ASSUME NEW s \in Streams, Handle(s) PROVE [Contract!Next]_(Contract!vars)
    <2>1. Contract!Step(Current(s)) \/ UNCHANGED Contract!vars
        BY <1>0, <1>1, HandlerMapped
    <2>2. pc[s] # "done"
        BY <1>1 DEF Handle, HeaderInit, PassBy, Inspect, Answer, StartReplay, OpenFails, Open, Read,
                    ReadFails, ReadSuspicious, ReadMore, ReadEnd, Close
    <2>3. Current(s) \in Slots
        BY <1>0, <2>2, CurrentIsSlot
    <2> QED
        BY <2>1, <2>3 DEF Contract!Next
<1>2. ASSUME UNCHANGED <<pc, cfg, calls, out>> PROVE [Contract!Next]_(Contract!vars)
    <2>1. \A t \in Slots : SlotView(t)' = SlotView(t)
        BY <1>2 DEF SlotView, SlotPhase, SlotBudget, SlotRetries, SlotOutcome, Settled, Judging,
                    BudgetOf, Granted, OutcomeOf, Suspicious
    <2>2. \A t \in Slots : /\ SlotPhase(t)' = SlotPhase(t) /\ SlotBudget(t)' = SlotBudget(t)
                           /\ SlotRetries(t)' = SlotRetries(t) /\ SlotOutcome(t)' = SlotOutcome(t)
        BY <2>1 DEF SlotView
    <2> QED
        BY <2>2 DEF Contract!vars
<1>3. ASSUME NEW c \in Configs, Reconfigure(c) PROVE [Contract!Next]_(Contract!vars)
    BY <1>2, <1>3 DEF Reconfigure, handling
<1>4. CASE UNCHANGED vars
    BY <1>2, <1>4 DEF vars, handling
<1> QED
    BY <1>1, <1>3, <1>4 DEF Next

\* The first states of the guard are first states of the contract.
LEMMA InitMapped == Init => Contract!Init
<1> SUFFICES ASSUME Init PROVE Contract!Init
    OBVIOUS
<1>1. ASSUME NEW t \in Slots
      PROVE  SlotPhase(t) = "arriving" /\ SlotBudget(t) = 0 /\ SlotRetries(t) = 0 /\ SlotOutcome(t) = "none"
    <2>1. t[1] \in Streams /\ t[2] \in Nat /\ t[2] > 0
        BY DEF Slots
    <2>2. out[t[1]] = <<>> /\ pc[t[1]] = "header"
        BY <2>1 DEF Init
    <2>3. ~Settled(t) /\ ~Judging(t)
        BY <2>1, <2>2 DEF Settled, Judging
    <2> QED
        BY <2>3 DEF SlotPhase, SlotBudget, SlotRetries, SlotOutcome
<1> QED
    BY <1>1 DEF Contract!Init

\* The guard of streams implements the safety part of the same contract as
\* the other guard: each chunk is judged within a budget fixed when it is shown
\* and given one outcome, which is never to send on what is suspicious, when
\* retried streams come in whole lines and none is empty.
THEOREM Implementation ==
    ASSUME Uncut
    PROVE  Spec => ImplementsContract
<1>1. IInv /\ Clean /\ [Next]_vars => Clean'
    BY NextClean
<1>2. IInv /\ Clean /\ [Next]_vars => [Contract!Next]_(Contract!vars)
    BY StepMapped
<1> QED
    BY <1>1, <1>2, InitClean, InitMapped, Invariance, PTL DEF Spec, ImplementsContract, Contract!Safety
=============================================================================
