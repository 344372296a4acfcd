------------------------- MODULE GuardedStreamProofs -------------------------
(****************************************************************************)
(* What holds of a request from its arrival to the end of its stream, for   *)
(* any number of them, whatever they ask for and whatever upstream sends.   *)
(*                                                                          *)
(* The guard of the stream is not proved again: its invariant is that of    *)
(* StreamGuardProofs, of which Proofs is the instance GuardedStream has.    *)
(* The request adds what the interceptor's two calls agree on (ConstantInv):*)
(* while the configuration stays, a body that was logged or is watched has  *)
(* been asked for usage before upstream sees it, and then upstream streams  *)
(* what there is to report.                                                 *)
(****************************************************************************)
EXTENDS GuardedStream, SequenceTheorems, FiniteSetTheorems, TLAPS

Proofs == INSTANCE StreamGuardProofs WITH Sources <- Sources \cup {Muted(src) : src \in Sources}

\* The lines a request can have been given.
Inspected == {<<"inspect">>, <<"inspect", "add_stream_usage">>}
Added     == {<<"add_stream_usage">>, <<"inspect", "add_stream_usage">>}

\* The phases in which nothing has been rewritten, and those after the first
\* and the second call.
First  == {"arrived", "profiling", "rewriting"}
Second == {"rewriting again", "upstream", "streaming"}
Gone   == {"upstream", "streaming"}

RequestInv(s) ==
    /\ phase[s] # "streaming" => pc[s] = "header" /\ source[s] = truth[s]
    /\ phase[s] \in First => rewrites[s] = 0
    /\ rewrites[s] \in {0, 1}
    /\ rewrites[s] = 1 => Readable(body[s]) /\ body[s].options = "asked"
    /\ phase[s] \in Second => request[s].Model = StreamModel[s]

LinesInv(s) ==
    /\ lines[s] \in {<<>>} \cup Inspected \cup Added
    /\ phase[s] \in {"arrived", "profiling"} => lines[s] = <<>>
    /\ phase[s] = "rewriting" => lines[s] \notin Added
    /\ phase[s] = "rewriting" /\ lines[s] \in Inspected => InScope(reqcfg[s], request[s], body[s])
    /\ lines[s] \in Added => rewrites[s] = 1

ConstantInv(s) == constant[s] =>
    /\ pc[s] # "header" => steady[s]
    /\ phase[s] # "arrived" => reqcfg[s] = config
    /\ phase[s] \notin First /\ lines[s] \in Inspected =>
          /\ ~Rewrites(config, request[s], body[s])
          /\ config.LogMatch /\ rewrites[s] = 1 => lines[s] \in Added
    /\ phase[s] \in Second /\ modelMatches(config, StreamModel[s]) => profiled[s]
    /\ phase[s] \in Gone /\ Watched(s) => body[s].options = "asked"
    /\ phase[s] = "streaming" /\ Watched(s) => source[s] = truth[s]

GuardInv == Proofs!IInv /\ Proofs!SentAsJudged

Calls(s) == RequestInv(s) /\ LinesInv(s) /\ ConstantInv(s)

\* TypeOK, but for what the guard has.
RequestType ==
    /\ phase    \in [Streams -> Phase]
    /\ request  \in [Streams -> Request]
    /\ body     \in [Streams -> Body \cup {Malformed, Empty}]
    /\ reqcfg   \in [Streams -> Configs]
    /\ profiled \in [Streams -> BOOLEAN]
    /\ rewrites \in [Streams -> 0..2]
    /\ lines    \in [Streams -> Seq({"inspect", "add_stream_usage"})]
    /\ constant \in [Streams -> BOOLEAN]
    /\ truth    \in [Streams -> Sources]

IInv == GuardInv /\ RequestType /\ \A s \in Streams : Calls(s)

-----------------------------------------------------------------------------
(* Guard and Proofs are two instances of one module: what is defined in it  *)
(* is defined alike in both.                                                *)

\* Documents and lines.
LEMMA SameLines == Guard!Document = Proofs!Document /\ Guard!Half = Proofs!Half
                   /\ Guard!StreamLine = Proofs!StreamLine
BY Zenon DEF Guard!Document, Proofs!Document, Guard!Half, Proofs!Half, Guard!StreamLine,
   Proofs!StreamLine, Guard!Field, Proofs!Field

\* Reports of a chunk.
LEMMA SameReportingLines ==
    ASSUME NEW chunk
    PROVE  Guard!ReportingLines(chunk) = Proofs!ReportingLines(chunk)
BY Zenon DEF Guard!ReportingLines, Proofs!ReportingLines, Guard!Payloads, Proofs!Payloads,
   Guard!Payload, Proofs!Payload, Guard!Half, Proofs!Half, Guard!Document, Proofs!Document,
   Guard!Field, Proofs!Field, Guard!Reports, Proofs!Reports

\* The last of them.
LEMMA SameLastReport == ASSUME NEW chunk PROVE Guard!LastReport(chunk) = Proofs!LastReport(chunk)
BY Zenon DEF Guard!LastReport, Proofs!LastReport, Guard!ReportingLines,
   Proofs!ReportingLines, Guard!Payloads, Proofs!Payloads, Guard!Payload, Proofs!Payload,
   Guard!Half, Proofs!Half, Guard!Document, Proofs!Document, Guard!Field, Proofs!Field,
   Guard!Reports, Proofs!Reports, Guard!extractStreamReasoning, Proofs!extractStreamReasoning

\* What is suspicious.
LEMMA SameReasoningMatched ==
    ASSUME NEW c, NEW n
    PROVE  Guard!ReasoningMatched(c, n) <=> Proofs!ReasoningMatched(c, n)
BY Zenon DEF Guard!ReasoningMatched, Proofs!ReasoningMatched, Guard!Formula, Proofs!Formula

\* Verdicts.
LEMMA SameInspectStreamChunk ==
    ASSUME NEW c, NEW chunk, NEW n, NEW w
    PROVE  Guard!InspectStreamChunk(c, chunk, n, w) = Proofs!InspectStreamChunk(c, chunk, n, w)
BY SameReportingLines, SameLastReport, SameReasoningMatched, Zenon DEF
   Guard!InspectStreamChunk, Proofs!InspectStreamChunk

\* Suspicious chunks.
LEMMA SameSuspicious ==
    ASSUME NEW c, NEW chunk
    PROVE  Guard!Suspicious(c, chunk) <=> Proofs!Suspicious(c, chunk)
BY SameReportingLines, SameLastReport, SameReasoningMatched DEF Guard!Suspicious,
   Proofs!Suspicious

\* Models in scope.
LEMMA SamemodelMatches ==
    ASSUME NEW c, NEW model
    PROVE  Guard!modelMatches(c, model) <=> Proofs!modelMatches(c, model)
BY Zenon DEF Guard!modelMatches, Proofs!modelMatches, Guard!EqualFold, Proofs!EqualFold

\* The joining of chunks.
LEMMA SameFlattenSeq == ASSUME NEW seqs PROVE Guard!FlattenSeq(seqs) = Proofs!FlattenSeq(seqs)
BY Zenon DEF Guard!FlattenSeq, Proofs!FlattenSeq

\* The chunk the host shows.
LEMMA SameShown == ASSUME NEW s PROVE Guard!Shown(s) = Proofs!Shown(s)
BY Zenon DEF Guard!Shown, Proofs!Shown, Guard!FlattenSeq, Proofs!FlattenSeq

\* Counting.
LEMMA SameCount == ASSUME NEW counted PROVE Guard!Count(counted) <=> Proofs!Count(counted)
BY Zenon DEF Guard!Count, Proofs!Count, Guard!Counter, Proofs!Counter

\* What is counted.
LEMMA SameChunkCounts ==
    ASSUME NEW c, NEW v
    PROVE  Guard!ChunkCounts(c, v) = Proofs!ChunkCounts(c, v)
BY Zenon DEF Guard!ChunkCounts, Proofs!ChunkCounts, Guard!MatchCounts, Proofs!MatchCounts

\* The end of a chunk.
LEMMA SameFinish ==
    ASSUME NEW s, NEW kind, NEW chunk
    PROVE  Guard!Finish(s, kind, chunk) <=> Proofs!Finish(s, kind, chunk)
BY Zenon DEF Guard!Finish, Proofs!Finish

\* Replies.
LEMMA SameReply == ASSUME NEW s, NEW what PROVE Guard!Reply(s, what) <=> Proofs!Reply(s, what)
BY Zenon DEF Guard!Reply, Proofs!Reply, Guard!Finish, Proofs!Finish, Guard!Shown,
   Proofs!Shown, Guard!FlattenSeq, Proofs!FlattenSeq

\* What a decision does.
LEMMA SameDisposal == ASSUME NEW v PROVE Guard!Disposal(v) = Proofs!Disposal(v)
BY Zenon DEF Guard!Disposal, Proofs!Disposal

\* The action HeaderInit.
LEMMA SameHeaderInit == ASSUME NEW s PROVE Guard!HeaderInit(s) => Proofs!HeaderInit(s)
BY Zenon DEF Guard!HeaderInit, Proofs!HeaderInit, Guard!modelMatches, Proofs!modelMatches,
   Guard!EqualFold, Proofs!EqualFold

\* The action PassBy.
LEMMA SamePassBy == ASSUME NEW s PROVE Guard!PassBy(s) => Proofs!PassBy(s)
BY SamemodelMatches, SameFinish, SameShown, Zenon DEF Guard!PassBy, Proofs!PassBy

\* The action Inspect.
LEMMA SameInspect == ASSUME NEW s PROVE Guard!Inspect(s) => Proofs!Inspect(s)
BY SamemodelMatches, SameInspectStreamChunk, SameShown, SameCount, SameChunkCounts, Zenon DEF
   Guard!Inspect, Proofs!Inspect, Guard!ChunkIndex, Proofs!ChunkIndex

\* The action Answer.
LEMMA SameAnswer == ASSUME NEW s PROVE Guard!Answer(s) => Proofs!Answer(s)
BY SameReply, SameDisposal, Zenon DEF Guard!Answer, Proofs!Answer

\* The action StartReplay.
LEMMA SameStartReplay == ASSUME NEW s PROVE Guard!StartReplay(s) => Proofs!StartReplay(s)
BY SameCount, Zenon DEF Guard!StartReplay, Proofs!StartReplay, Guard!Execute, Proofs!Execute

\* The action OpenFails.
LEMMA SameOpenFails == ASSUME NEW s PROVE Guard!OpenFails(s) => Proofs!OpenFails(s)
BY SameReply, Zenon DEF Guard!OpenFails, Proofs!OpenFails

\* The action Open.
LEMMA SameOpen == ASSUME NEW s PROVE Guard!Open(s) => Proofs!Open(s)
BY Zenon DEF Guard!Open, Proofs!Open

\* The action ReadFails.
LEMMA SameReadFails == ASSUME NEW s PROVE Guard!ReadFails(s) => Proofs!ReadFails(s)
BY Zenon DEF Guard!ReadFails, Proofs!ReadFails, Guard!Leave, Proofs!Leave

\* The action ReadSuspicious.
LEMMA SameReadSuspicious ==
    ASSUME NEW s, NEW chunk
    PROVE  Guard!ReadSuspicious(s, chunk) => Proofs!ReadSuspicious(s, chunk)
BY SameInspectStreamChunk, SameDisposal, SameCount, Zenon DEF Guard!ReadSuspicious,
   Proofs!ReadSuspicious, Guard!RetryVerdict, Proofs!RetryVerdict, Guard!Leave, Proofs!Leave,
   Guard!MatchCounts, Proofs!MatchCounts

\* The action ReadMore.
LEMMA SameReadMore ==
    ASSUME NEW s, NEW chunk
    PROVE  Guard!ReadMore(s, chunk) => Proofs!ReadMore(s, chunk)
BY SameInspectStreamChunk, Zenon DEF Guard!ReadMore, Proofs!ReadMore, Guard!RetryVerdict,
   Proofs!RetryVerdict

\* The action ReadEnd.
LEMMA SameReadEnd ==
    ASSUME NEW s, NEW payload
    PROVE  Guard!ReadEnd(s, payload) => Proofs!ReadEnd(s, payload)
BY SameInspectStreamChunk, SameCount, Zenon DEF Guard!ReadEnd, Proofs!ReadEnd,
   Guard!RetryVerdict, Proofs!RetryVerdict, Guard!Leave, Proofs!Leave

\* The action Close.
LEMMA SameClose == ASSUME NEW s PROVE Guard!Close(s) => Proofs!Close(s)
BY SameReply, SameCount, Zenon DEF Guard!Close, Proofs!Close, Guard!Execute, Proofs!Execute

\* The action Reconfigure.
LEMMA SameReconfigure == ASSUME NEW c PROVE Guard!Reconfigure(c) => Proofs!Reconfigure(c)
BY Zenon DEF Guard!Reconfigure, Proofs!Reconfigure, Guard!handling, Proofs!handling

\* The reading of a retried stream.
LEMMA SameRead == ASSUME NEW s PROVE Guard!Read(s) => Proofs!Read(s)
BY SameReadFails, SameReadSuspicious, SameReadMore, SameReadEnd, Zenon DEF Guard!Read, Proofs!Read

\* And with that every step of a handler.
LEMMA SameHandle == ASSUME NEW s PROVE Guard!Handle(s) => Proofs!Handle(s)
BY SameHeaderInit, SamePassBy, SameInspect, SameAnswer, SameStartReplay, SameOpenFails, SameOpen,
   SameRead, SameClose, Zenon
   DEF Guard!Handle, Proofs!Handle

\* The initial states.
LEMMA SameInit == Guard!Init => Proofs!Init
BY Zenon DEF Guard!Init, Proofs!Init, Guard!NoVerdict, Proofs!NoVerdict, Guard!Counter, Proofs!Counter

\* The types.
LEMMA SameTypes == Proofs!TypeOK => Guard!TypeOK
BY SameLines, Zenon
   DEF Guard!TypeOK, Proofs!TypeOK, Guard!Pc, Proofs!Pc, Guard!Result, Proofs!Result,
       Guard!Kind, Proofs!Kind, Guard!Item, Proofs!Item, Guard!Chunk, Proofs!Chunk,
       Guard!StreamDecision, Proofs!StreamDecision, Guard!Counter, Proofs!Counter

\* What the guard and the request interceptor have in common.
LEMMA SameForBoth ==
    /\ StreamLine = Proofs!StreamLine /\ Document = Proofs!Document /\ Half = Proofs!Half
    /\ StoredConfig = Proofs!StoredConfig
    /\ \A c, model : modelMatches(c, model) <=> Proofs!modelMatches(c, model)
    /\ \A seqs : FlattenSeq(seqs) = Proofs!FlattenSeq(seqs)
<1>1. StreamLine = Proofs!StreamLine /\ Document = Proofs!Document /\ Half = Proofs!Half
    BY Zenon DEF StreamLine, Document, Half, Field,
                 Proofs!StreamLine, Proofs!Document, Proofs!Half, Proofs!Field
<1>2. StoredConfig = Proofs!StoredConfig
    BY Zenon DEF StoredConfig, Config, Accepted, Normalized, normalizeStringList, DefaultConfig,
                 normalizeReasoningMatchMode, normalizeStreamAction, Manual, Formula,
                 Proofs!StoredConfig, Proofs!Config, Proofs!Accepted, Proofs!Normalized,
                 Proofs!normalizeStringList, Proofs!DefaultConfig,
                 Proofs!normalizeReasoningMatchMode, Proofs!normalizeStreamAction,
                 Proofs!Manual, Proofs!Formula
<1>3. \A c, model : modelMatches(c, model) <=> Proofs!modelMatches(c, model)
    BY Zenon DEF modelMatches, EqualFold, Proofs!modelMatches, Proofs!EqualFold
<1>4. \A seqs : FlattenSeq(seqs) = Proofs!FlattenSeq(seqs)
    BY Zenon DEF FlattenSeq, Proofs!FlattenSeq
<1> QED
    BY <1>1, <1>2, <1>3, <1>4

-----------------------------------------------------------------------------
(* The guard's invariant.                                                   *)

\* A muted stream is a stream, of as many chunks.
LEMMA MutedType ==
    ASSUME NEW src \in Sources
    PROVE  /\ Muted(src) \in Seq(Seq(StreamLine)) /\ Muted(src) # <<>>
           /\ Len(Muted(src)) = Len(src)
<1> DEFINE silent == [f \in Field |-> Absent]
           Line(i, j) == CASE src[i][j] \in Document -> silent
                           [] src[i][j] \in Half     -> <<silent, src[i][j][2]>>
                           [] OTHER                  -> src[i][j]
<1>1. src \in Seq(Seq(StreamLine)) /\ src # <<>>
    BY GuardedAssumption
<1>2. silent \in Document
    BY DEF Document
<1>3. ASSUME NEW i \in DOMAIN src, NEW j \in DOMAIN src[i] PROVE Line(i, j) \in StreamLine
    <2>1. src[i] \in Seq(StreamLine)
        BY <1>1
    <2>2. src[i][j] \in StreamLine
        BY <2>1
    <2> HIDE DEF silent
    <2>3. CASE src[i][j] \in Document
        <3>2. Line(i, j) \in {silent, <<silent, src[i][j][2]>>}
            BY <2>3
        <3>3. src[i][j] \in Half => src[i][j][2] \in {1, 2}
            BY DEF Half
        <3>4. src[i][j] \in Half => <<silent, src[i][j][2]>> \in Half
            BY <1>2, <3>3 DEF Half
        <3>5. src[i][j] \in Half \/ Line(i, j) = silent
            BY <2>3
        <3> QED
            BY <1>2, <3>2, <3>4, <3>5 DEF StreamLine
    <2>4. CASE src[i][j] \in Half /\ src[i][j] \notin Document
        <3>1. src[i][j][2] \in {1, 2}
            BY <2>4 DEF Half
        <3>2. <<silent, src[i][j][2]>> \in Half
            BY <1>2, <3>1 DEF Half
        <3> QED
            BY <2>4, <3>2 DEF StreamLine
    <2>5. CASE src[i][j] \notin Document /\ src[i][j] \notin Half
        BY <2>2, <2>5
    <2> QED
        BY <2>3, <2>4, <2>5
<1>4. Muted(src) = [i \in DOMAIN src |-> [j \in DOMAIN src[i] |-> Line(i, j)]]
    BY DEF Muted
<1> HIDE DEF Line
<1>5. ASSUME NEW i \in DOMAIN src PROVE [j \in DOMAIN src[i] |-> Line(i, j)] \in Seq(StreamLine)
    <2>1. src[i] \in Seq(StreamLine)
        BY <1>1
    <2>2. DOMAIN src[i] = 1..Len(src[i]) /\ Len(src[i]) \in Nat
        BY <2>1
    <2> QED
        BY <1>3, <1>5, <2>2, IsASeq
<1>6. DOMAIN src = 1..Len(src) /\ Len(src) \in Nat
    BY <1>1
<1>7. Muted(src) \in Seq(Seq(StreamLine))
    BY <1>4, <1>5, <1>6, IsASeq
<1>8. Len(Muted(src)) = Len(src)
    BY <1>4, <1>6, <1>7
<1>9. Len(src) # 0
    BY <1>1
<1> QED
    BY <1>7, <1>8, <1>9

\* What StreamGuard assumes of its constants holds of those it has here.
LEMMA Assumed ==
    /\ Proofs!NamesAssumption /\ Proofs!TrimAssumption /\ Proofs!LowerAssumption
    /\ Proofs!EndpointsAssumption /\ Proofs!AbsentAssumption /\ Proofs!MalformedAssumption
    /\ Proofs!StreamsAssumption /\ Proofs!SourcesAssumption /\ Proofs!StreamConfigsAssumption
    /\ Proofs!LengthsAssumption /\ Proofs!StreamGrantsAssumption
<1> DEFINE All == Sources \cup {Muted(src) : src \in Sources}
<1>1. Proofs!NamesAssumption /\ Proofs!TrimAssumption /\ Proofs!LowerAssumption
    BY NamesAssumption, TrimAssumption, LowerAssumption, Zenon
       DEF Proofs!NamesAssumption, Proofs!TrimAssumption, Proofs!LowerAssumption,
           Manual, Formula, Proofs!Manual, Proofs!Formula
<1>2. Proofs!EndpointsAssumption /\ Proofs!AbsentAssumption /\ Proofs!MalformedAssumption
    BY EndpointsAssumption, AbsentAssumption, MalformedAssumption, SameForBoth, Zenon
       DEF Proofs!EndpointsAssumption, Proofs!AbsentAssumption, Proofs!MalformedAssumption
<1>3. Proofs!StreamsAssumption /\ Proofs!StreamConfigsAssumption /\ Proofs!StreamGrantsAssumption
    BY GuardedAssumption, SameForBoth
       DEF Proofs!StreamsAssumption, Proofs!StreamConfigsAssumption, Proofs!StreamGrantsAssumption
<1>4. \A src \in All : src \in Seq(Seq(StreamLine)) /\ src # <<>>
    BY GuardedAssumption, MutedType
<1>5. Proofs!SourcesAssumption
    BY <1>4, GuardedAssumption, SameForBoth DEF Proofs!SourcesAssumption, Proofs!Chunk
<1>6. Proofs!LengthsAssumption
    <2>1. PICK src \in Sources : \A other \in Sources : Len(other) <= Len(src)
        BY GuardedAssumption
    <2>2. \A other \in All : Len(other) <= Len(src)
        BY <2>1, MutedType
    <2> QED
        BY <2>2 DEF Proofs!LengthsAssumption
<1> QED
    BY <1>1, <1>2, <1>3, <1>5, <1>6

\* The guard's invariant holds at the start ...
LEMMA GuardStarts == Guard!Init => GuardInv
<1>1. Guard!Init => Proofs!Init
    BY SameInit
<1>2. Proofs!Init => Proofs!IInv
    BY Assumed, Proofs!InitSafe
<1>3. Proofs!Init => Proofs!SentAsJudged
    BY Assumed, Proofs!InitSent
<1> QED
    BY <1>1, <1>2, <1>3 DEF GuardInv

\* ... and is kept by every step of the guard, and by a new configuration.
LEMMA GuardSteps == GuardInv /\ [Proofs!Next]_(Proofs!vars) => GuardInv'
<1>1. Proofs!IInv /\ [Proofs!Next]_(Proofs!vars) => Proofs!IInv'
    BY Assumed, Proofs!NextSafe
<1>2. Proofs!IInv /\ Proofs!SentAsJudged /\ [Proofs!Next]_(Proofs!vars) => Proofs!SentAsJudged'
    BY Assumed, Proofs!NextSent
<1> QED
    BY <1>1, <1>2 DEF GuardInv

\* A handler of the guard touches its own stream only.
LEMMA GuardLocal ==
    ASSUME Proofs!TypeOK, NEW s \in Streams, Proofs!Handle(s), NEW q \in Streams \ {s}
    PROVE  Proofs!Locals(q)' = Proofs!Locals(q)
BY Assumed, Proofs!OthersUntouched

\* What upstream sends is settled before the guard sees any of it.
LEMMA GuardUpstream ==
    ASSUME GuardInv, NEW s \in Streams, pc[s] = "header", NEW src, src \in Sources \cup {Muted(x) : x \in Sources},
           Len(src) = Len(source[s]), source' = [source EXCEPT ![s] = src],
           UNCHANGED <<config, pc, buffered, cfg, verdict, left, calls, kept, result, open, metrics, out, steady>>
    PROVE  GuardInv'
<1>0. /\ Proofs!TypeOK
      /\ \A q \in Streams : /\ Proofs!PlaceInv(q) /\ Proofs!RoundInv(q) /\ Proofs!ItemsInv(q)
                            /\ Proofs!SteadyInv(q) /\ Proofs!SentInv(q)
    BY DEF GuardInv, Proofs!IInv, Proofs!TypeInv, Proofs!StreamInv, Proofs!SentAsJudged
<1>1. Proofs!TypeOK'
    BY <1>0 DEF Proofs!TypeOK
<1>2. source'[s] = src /\ \A q \in Streams \ {s} : source'[q] = source[q]
    BY <1>0 DEF Proofs!TypeOK
<1>3. ASSUME NEW q \in Streams PROVE Proofs!PlaceInv(q)' /\ Proofs!ItemsInv(q)' /\ Proofs!SteadyInv(q)'
    <2>1. Len(source'[q]) = Len(source[q])
        BY <1>2
    <2>2. Proofs!PlaceInv(q)'
        BY <1>0, <2>1 DEF Proofs!PlaceInv
    <2> QED
        BY <1>0, <2>2 DEF Proofs!ItemsInv, Proofs!SteadyInv
<1>4. ASSUME NEW q \in Streams PROVE Proofs!RoundInv(q)' /\ Proofs!SentInv(q)'
    <2>1. CASE q = s
        <3>1. out[s] = <<>> /\ Len(out[s]) = 0
            BY <1>0 DEF Proofs!PlaceInv
        <3> QED
            BY <1>0, <2>1, <3>1 DEF Proofs!RoundInv, Proofs!SentInv, Proofs!Rounds
    <2>2. CASE q # s
        BY <1>0, <1>2, <2>2 DEF Proofs!RoundInv, Proofs!SentInv, Proofs!Sent, Proofs!Shown
    <2> QED
        BY <2>1, <2>2
<1> QED
    BY <1>1, <1>3, <1>4
       DEF GuardInv, Proofs!IInv, Proofs!TypeInv, Proofs!StreamInv, Proofs!SentAsJudged

-----------------------------------------------------------------------------
(* The request interceptor's decisions.                                     *)

\* A request with a path in its metadata is matched by that path, trimmed once
\* or twice (requestPath and endpointMatches both trim).
LEMMA PathMatches ==
    ASSUME NEW c, NEW path \in Names, NEW fallback, Trim[path] # "", endpointMatches(c, path)
    PROVE  endpointMatches(c, requestPath(path, fallback))
<1>1. requestPath(path, fallback) = Trim[path]
    BY Zenon DEF requestPath
<1>2. Trim[Trim[path]] = Trim[path]
    BY TrimAssumption
<1> QED
    BY <1>1, <1>2, Zenon DEF endpointMatches

\* A watched request is in scope when its model is known, and rewritten if its
\* body does not ask for usage.
LEMMA WatchedRewrites ==
    ASSUME RequestsAssumption, NEW s \in Streams, request[s] \in Request, Watched(s),
           request[s].Model = StreamModel[s]
    PROVE  /\ InScope(config, request[s], body[s])
           /\ body[s].options \in {"missing", "not asked"} => Rewrites(config, request[s], body[s])
<1>1. /\ modelMatches(config, StreamModel[s]) /\ config.AutoIncludeStreamUsage
      /\ request[s].Stream /\ Readable(body[s])
    BY Zenon DEF Watched
<1>2. request[s].path \in Names
    BY DEF Request
<1>3. Trim[request[s].path] # "" /\ endpointMatches(config, request[s].path)
    BY Zenon DEF Watched
<1>4. endpointMatches(config, requestPath(request[s].path, request[s].SourceFormat))
    BY <1>2, <1>3, PathMatches, Zenon
<1>5. InScope(config, request[s], body[s])
    BY <1>1 DEF InScope, requestModelMatches
<1> QED
    BY <1>1, <1>4, <1>5 DEF Rewrites

\* A model the guard judges is in scope once the request names it.
LEMMA ModelInScope ==
    ASSUME NEW c, NEW req, NEW b, modelMatches(c, req.Model)
    PROVE  InScope(c, req, b)
BY DEF InScope, requestModelMatches

\* What is rewritten has a body that does not ask for usage, and asks then.
LEMMA RewriteFacts ==
    ASSUME NEW c, NEW req, NEW b \in Body \cup {Malformed, Empty}, Rewrites(c, req, b)
    PROVE  /\ b.options # "asked"
           /\ Rewritten(b) \in Body /\ Readable(Rewritten(b)) /\ Rewritten(b).options = "asked"
<1>1. b \in Body /\ b.options # "asked"
    BY DEF Rewrites, Readable
<1>2. Rewritten(b) \in Body /\ Rewritten(b).options = "asked"
    BY <1>1 DEF Rewritten, Body, Options
<1> QED
    BY <1>1, <1>2, RequestsAssumption DEF Readable

\* The lines a request is given, one after the other.
LEMMA LineFacts ==
    /\ <<>> \notin Inspected /\ <<>> \notin Added
    /\ Append(<<>>, "inspect") \in Inspected \ Added
    /\ Append(<<>>, "add_stream_usage") \in Added \ Inspected
    /\ \A l \in Inspected \ Added : Append(l, "add_stream_usage") \in Inspected \cap Added
<1>1. <<"inspect">> # <<"inspect", "add_stream_usage">> /\ <<"inspect">> # <<"add_stream_usage">>
      /\ <<"add_stream_usage">> # <<"inspect", "add_stream_usage">>
    OBVIOUS
<1>2. /\ Append(<<>>, "inspect") = <<"inspect">>
      /\ Append(<<>>, "add_stream_usage") = <<"add_stream_usage">>
      /\ Append(<<"inspect">>, "add_stream_usage") = <<"inspect", "add_stream_usage">>
  <2> DEFINE a == Append(<<"inspect">>, "add_stream_usage")
             b == <<"inspect", "add_stream_usage">>
  <2> DEFINE Line == {"inspect", "add_stream_usage"}
  <2>1. <<"inspect">> \in Seq(Line) /\ b \in Seq(Line) /\ Len(<<"inspect">>) = 1
      OBVIOUS
  <2>2. a \in Seq(Line) /\ Len(a) = 2 /\ a[1] = "inspect" /\ a[2] = "add_stream_usage"
      BY <2>1
  <2>3. Len(b) = 2 /\ b[1] = "inspect" /\ b[2] = "add_stream_usage"
      OBVIOUS
  <2> HIDE DEF a, b
  <2>4. a = b
      BY <2>1, <2>2, <2>3, SeqEqual
  <2> QED
      BY <2>4 DEF a, b
<1>3. <<>> \notin Inspected /\ <<>> \notin Added
    BY DEF Inspected, Added
<1> QED
    BY <1>1, <1>2, <1>3, Zenon DEF Inspected, Added

\* Watched looks at one request and the configuration.
LEMMA WatchedFrame ==
    ASSUME NEW q \in Streams, UNCHANGED <<constant[q], request[q], body[q], config>>
    PROVE  Watched(q)' <=> Watched(q)
<1>1. constant'[q] = constant[q] /\ request'[q] = request[q] /\ body'[q] = body[q] /\ config' = config
    OBVIOUS
<1> QED
    BY <1>1, Zenon DEF Watched

-----------------------------------------------------------------------------
(* Types.                                                                   *)

\* The invariant has the types of every variable.
LEMMA InvTypes == IInv => TypeOK
<1> SUFFICES ASSUME IInv PROVE TypeOK
    OBVIOUS
<1>1. Guard!TypeOK
    BY SameTypes DEF IInv, GuardInv, Proofs!IInv, Proofs!TypeInv
<1> QED
    BY <1>1 DEF IInv, RequestType, TypeOK

-----------------------------------------------------------------------------
(* Steps.                                                                   *)

RequestLocals(q) == <<phase[q], request[q], body[q], reqcfg[q], profiled[q], rewrites[q], lines[q],
                      constant[q], truth[q], pc[q], source[q], steady[q]>>

\* A step that leaves a request alone keeps what holds of it.
LEMMA RequestFrame ==
    ASSUME NEW q \in Streams, Calls(q), RequestLocals(q)' = RequestLocals(q), config' = config
    PROVE  Calls(q)'
<1>1. /\ phase'[q] = phase[q] /\ request'[q] = request[q] /\ body'[q] = body[q] /\ reqcfg'[q] = reqcfg[q]
      /\ profiled'[q] = profiled[q] /\ rewrites'[q] = rewrites[q] /\ lines'[q] = lines[q]
      /\ constant'[q] = constant[q] /\ truth'[q] = truth[q] /\ pc'[q] = pc[q]
      /\ source'[q] = source[q] /\ steady'[q] = steady[q]
    BY DEF RequestLocals
<1>2. Watched(q)' <=> Watched(q)
    BY <1>1, WatchedFrame
<1> HIDE DEF Watched
<1>3. RequestInv(q)' /\ LinesInv(q)'
    BY <1>1 DEF Calls, RequestInv, LinesInv
<1>4. ConstantInv(q)'
    BY <1>1, <1>2 DEF Calls, ConstantInv
<1> QED
    BY <1>3, <1>4 DEF Calls

\* The first call arrives.
LEMMA BeforeKeeps ==
    ASSUME IInv, NEW s \in Streams, Before(s)
    PROVE  RequestType' /\ Calls(s)' /\ \A q \in Streams \ {s} : RequestLocals(q)' = RequestLocals(q)
<1>0. RequestType /\ Calls(s)
    BY DEF IInv
<1>1. /\ phase' = [phase EXCEPT ![s] = "profiling"] /\ phase[s] = "arrived"
      /\ reqcfg' = [reqcfg EXCEPT ![s] = config] /\ request' = [request EXCEPT ![s] = request[s]]
      /\ profiled' = [profiled EXCEPT ![s] = @ \/ Profiles(config, request[s], body[s])]
      /\ constant' = [constant EXCEPT ![s] = TRUE]
      /\ UNCHANGED <<body, rewrites, lines, truth, config, pc, source, steady>>
    BY DEF Before, Capture, Goto, streamVars
<1>2. config \in Configs
    BY DEF IInv, GuardInv, Proofs!IInv, Proofs!TypeInv, Proofs!TypeOK
<1>3. RequestType'
    BY <1>0, <1>1, <1>2 DEF RequestType, Phase, Profiles, InScope, requestModelMatches
<1>4. /\ phase'[s] = "profiling" /\ reqcfg'[s] = config /\ request'[s] = request[s] /\ constant'[s]
      /\ pc'[s] = "header" /\ source'[s] = truth'[s] /\ rewrites'[s] = 0 /\ lines'[s] = <<>>
    BY <1>0, <1>1 DEF RequestType, Calls, RequestInv, LinesInv, First
<1>5. Calls(s)'
    <2>1. RequestInv(s)'
        BY <1>4 DEF RequestInv, First, Second
    <2>2. LinesInv(s)'
        BY <1>4, LineFacts DEF LinesInv
    <2>3. ConstantInv(s)'
        BY <1>1, <1>4 DEF ConstantInv, First, Second, Gone
    <2> QED
        BY <2>1, <2>2, <2>3 DEF Calls
<1>6. \A q \in Streams \ {s} : RequestLocals(q)' = RequestLocals(q)
    BY <1>0, <1>1 DEF RequestType, RequestLocals
<1> QED
    BY <1>3, <1>5, <1>6

\* The first call logs what it inspects.
LEMMA LogProfileKeeps ==
    ASSUME IInv, NEW s \in Streams, LogProfile(s)
    PROVE  RequestType' /\ Calls(s)' /\ \A q \in Streams \ {s} : RequestLocals(q)' = RequestLocals(q)
<1>0. RequestType /\ Calls(s)
    BY DEF IInv
<1>1. /\ phase' = [phase EXCEPT ![s] = "rewriting"] /\ phase[s] = "profiling"
      /\ UNCHANGED <<request, body, reqcfg, profiled, rewrites, constant, truth, config, pc, source, steady>>
    BY DEF LogProfile, Goto, streamVars
<1>2. lines[s] = <<>> /\ rewrites[s] = 0 /\ pc[s] = "header" /\ source[s] = truth[s]
    BY <1>0, <1>1 DEF Calls, RequestInv, LinesInv, First
<1>3. \/ UNCHANGED lines
      \/ /\ InScope(reqcfg[s], request[s], body[s])
         /\ lines' = [lines EXCEPT ![s] = Append(@, "inspect")]
  <2>1. CASE InScope(reqcfg[s], request[s], body[s]) /\ config.LogMatch
      BY <2>1 DEF LogProfile, Log
  <2>2. CASE ~(InScope(reqcfg[s], request[s], body[s]) /\ config.LogMatch)
    <3>1. lines' = lines \/ lines' = [lines EXCEPT ![s] = lines[s]]
        BY <2>2 DEF LogProfile, Log
    <3> QED
        BY <1>0, <3>1 DEF RequestType
  <2> QED
      BY <2>1, <2>2
<1>4. RequestType'
  <2>1. lines[s] \in Seq({"inspect", "add_stream_usage"})
      BY <1>0 DEF RequestType
  <2>2. Append(lines[s], "inspect") \in Seq({"inspect", "add_stream_usage"})
      BY <2>1
  <2>3. lines' \in [Streams -> Seq({"inspect", "add_stream_usage"})]
      BY <1>0, <1>3, <2>2 DEF RequestType
  <2> QED
      BY <1>0, <1>1, <2>3 DEF RequestType, Phase
<1>5. /\ phase'[s] = "rewriting" /\ rewrites'[s] = 0 /\ pc'[s] = "header" /\ source'[s] = truth'[s]
      /\ constant'[s] = constant[s] /\ reqcfg'[s] = reqcfg[s] /\ request'[s] = request[s] /\ body'[s] = body[s]
    BY <1>0, <1>1, <1>2 DEF RequestType
<1>6. \/ lines'[s] = <<>>
      \/ lines'[s] = Append(<<>>, "inspect") /\ InScope(reqcfg[s], request[s], body[s])
    BY <1>0, <1>2, <1>3 DEF RequestType
<1>7. Calls(s)'
    <2>1. RequestInv(s)'
        BY <1>5 DEF RequestInv, First, Second
    <2>2. LinesInv(s)'
        BY <1>5, <1>6, LineFacts DEF LinesInv
    <2>3. ConstantInv(s)'
        BY <1>0, <1>1, <1>5 DEF Calls, ConstantInv, First, Second, Gone
    <2> QED
        BY <2>1, <2>2, <2>3 DEF Calls
<1>8. \A q \in Streams \ {s} : RequestLocals(q)' = RequestLocals(q)
    BY <1>0, <1>1, <1>3 DEF RequestType, RequestLocals
<1> QED
    BY <1>4, <1>7, <1>8

\* What the reply of either call does to the request.
LEMMA RewriteDoes ==
    ASSUME IInv, NEW s \in Streams, Rewrite(s)
    PROVE  /\ phase[s] \in {"rewriting", "rewriting again"}
           /\ phase'[s] = IF phase[s] = "rewriting" THEN "between" ELSE "upstream"
           /\ ToRewrite(s) =>
                 /\ rewrites[s] = 0 /\ rewrites'[s] = 1 /\ Readable(body'[s]) /\ body'[s].options = "asked"
                 /\ lines'[s] = IF phase[s] = "rewriting" /\ config.LogMatch
                                THEN Append(lines[s], "add_stream_usage") ELSE lines[s]
           /\ ~ToRewrite(s) =>
                 body'[s] = body[s] /\ rewrites'[s] = rewrites[s] /\ lines'[s] = lines[s]
           /\ UNCHANGED <<request, reqcfg, profiled, constant, truth, config, pc, source, steady>>
           /\ RequestType' /\ \A q \in Streams \ {s} : RequestLocals(q)' = RequestLocals(q)
<1>0. RequestType /\ Calls(s)
    BY DEF IInv
<1>1. /\ phase[s] \in {"rewriting", "rewriting again"}
      /\ phase' = [phase EXCEPT ![s] = IF phase[s] = "rewriting" THEN "between" ELSE "upstream"]
      /\ UNCHANGED <<request, reqcfg, profiled, constant, truth, config, pc, source, steady>>
    BY DEF Rewrite, Goto, streamVars
<1>2. CASE ToRewrite(s)
    <2>1. body[s] \in Body \cup {Malformed, Empty} /\ Rewrites(reqcfg[s], request[s], body[s])
        BY <1>0, <1>2 DEF RequestType, ToRewrite
    <2>2. /\ body[s].options # "asked"
          /\ Rewritten(body[s]) \in Body /\ Readable(Rewritten(body[s])) /\ Rewritten(body[s]).options = "asked"
        BY <2>1, RewriteFacts
    <2>3. rewrites[s] = 0
        BY <1>0, <2>2 DEF Calls, RequestInv
    <2>4. /\ body' = [body EXCEPT ![s] = Rewritten(@)] /\ rewrites' = [rewrites EXCEPT ![s] = @ + 1]
          /\ IF phase[s] = "rewriting" THEN Log(s, "add_stream_usage") ELSE UNCHANGED lines
        BY <1>2 DEF Rewrite
    <2>5. body'[s] = Rewritten(body[s]) /\ rewrites'[s] = 1
        BY <1>0, <2>3, <2>4 DEF RequestType
    <2> DEFINE new == IF phase[s] = "rewriting" /\ config.LogMatch
                      THEN Append(lines[s], "add_stream_usage") ELSE lines[s]
    <2>6. /\ lines[s] \in Seq({"inspect", "add_stream_usage"})
          /\ Append(lines[s], "add_stream_usage") \in Seq({"inspect", "add_stream_usage"})
        <3>1. lines[s] \in Seq({"inspect", "add_stream_usage"})
            BY <1>0 DEF RequestType
        <3> QED
            BY <3>1
    <2>11. new \in Seq({"inspect", "add_stream_usage"}) /\ lines' = [lines EXCEPT ![s] = new]
        <3>1. lines = [lines EXCEPT ![s] = lines[s]]
            BY <1>0 DEF RequestType
        <3>2. CASE phase[s] = "rewriting" /\ config.LogMatch
            BY <2>4, <2>6, <3>2 DEF Log
        <3>3. CASE phase[s] = "rewriting" /\ ~config.LogMatch
            BY <2>4, <2>6, <3>3 DEF Log
        <3>4. CASE phase[s] # "rewriting"
            BY <2>4, <2>6, <3>1, <3>4
        <3> QED
            BY <3>2, <3>3, <3>4
    <2>7. lines'[s] = new /\ phase'[s] = IF phase[s] = "rewriting" THEN "between" ELSE "upstream"
        BY <1>0, <1>1, <2>11 DEF RequestType
    <2>8. body' \in [Streams -> Body \cup {Malformed, Empty}] /\ rewrites' \in [Streams -> 0..2]
        BY <1>0, <2>2, <2>3, <2>4 DEF RequestType
    <2>9. RequestType'
        BY <1>0, <1>1, <2>11, <2>8 DEF RequestType, Phase
    <2>10. \A q \in Streams \ {s} : RequestLocals(q)' = RequestLocals(q)
        BY <1>0, <1>1, <2>4, <2>11 DEF RequestType, RequestLocals
    <2> QED
        BY <1>1, <1>2, <2>2, <2>3, <2>5, <2>7, <2>9, <2>10
<1>3. CASE ~ToRewrite(s)
    <2>1. UNCHANGED <<body, rewrites, lines>>
        BY <1>3 DEF Rewrite
    <2>2. RequestType'
        BY <1>0, <1>1, <2>1 DEF RequestType, Phase
    <2>3. \A q \in Streams \ {s} : RequestLocals(q)' = RequestLocals(q)
        BY <1>0, <1>1, <2>1 DEF RequestType, RequestLocals
    <2>4. phase'[s] = IF phase[s] = "rewriting" THEN "between" ELSE "upstream"
        BY <1>0, <1>1 DEF RequestType
    <2> QED
        BY <1>1, <1>3, <2>1, <2>2, <2>3, <2>4
<1> QED
    BY <1>2, <1>3

\* The reply of either call keeps what the two agree on.
LEMMA RewriteKeeps ==
    ASSUME IInv, NEW s \in Streams, Rewrite(s)
    PROVE  RequestType' /\ Calls(s)' /\ \A q \in Streams \ {s} : RequestLocals(q)' = RequestLocals(q)
<1>0. RequestType /\ RequestInv(s) /\ LinesInv(s) /\ ConstantInv(s)
    BY DEF IInv, Calls
<1>1. /\ phase[s] \in {"rewriting", "rewriting again"}
      /\ phase'[s] = IF phase[s] = "rewriting" THEN "between" ELSE "upstream"
      /\ ToRewrite(s) =>
            /\ rewrites[s] = 0 /\ rewrites'[s] = 1 /\ Readable(body'[s]) /\ body'[s].options = "asked"
            /\ lines'[s] = IF phase[s] = "rewriting" /\ config.LogMatch
                           THEN Append(lines[s], "add_stream_usage") ELSE lines[s]
      /\ ~ToRewrite(s) =>
            body'[s] = body[s] /\ rewrites'[s] = rewrites[s] /\ lines'[s] = lines[s]
      /\ UNCHANGED <<request, reqcfg, profiled, constant, truth, config, pc, source, steady>>
      /\ RequestType' /\ \A q \in Streams \ {s} : RequestLocals(q)' = RequestLocals(q)
    BY RewriteDoes
<1>2. ToRewrite(s) <=> /\ InScope(reqcfg[s], request[s], body[s])
                       /\ Rewrites(reqcfg[s], request[s], body[s])
    BY DEF ToRewrite
<1>3. ToRewrite(s) => ~Rewrites(config, request[s], body'[s])
    BY <1>1 DEF Rewrites
<1> HIDE DEF ToRewrite
<1>4. RequestInv(s)'
    BY <1>0, <1>1 DEF RequestInv, First, Second
<1>5. LinesInv(s)'
    BY <1>0, <1>1, LineFacts DEF LinesInv, RequestInv, First
<1>6. ASSUME constant[s], phase'[s] = "upstream", Watched(s)' PROVE body'[s].options = "asked"
    <2>1. CASE ToRewrite(s)
        BY <1>1, <2>1
    <2>2. CASE ~ToRewrite(s)
        <3>1. body'[s] = body[s] /\ phase[s] = "rewriting again" /\ reqcfg[s] = config
              /\ request[s] \in Request /\ request[s].Model = StreamModel[s]
            BY <1>0, <1>1, <1>6, <2>2 DEF RequestType, RequestInv, ConstantInv, First, Second
        <3>2. Watched(s)
            BY <1>1, <1>6, <3>1, WatchedFrame
        <3>3. InScope(config, request[s], body[s])
              /\ (body[s].options \in {"missing", "not asked"} => Rewrites(config, request[s], body[s]))
            BY <3>1, <3>2, WatchedRewrites, RequestsAssumption
        <3>4. body[s].options \notin {"missing", "not asked"}
            BY <1>2, <2>2, <3>1, <3>3
        <3>5. Readable(body[s]) /\ body[s].options # "no object"
            BY <3>2, Zenon DEF Watched
        <3>6. body[s] \in Body
            BY <1>0, <3>5 DEF RequestType, Readable
        <3>7. body[s].options \in Options
            BY <3>6 DEF Body
        <3> QED
            BY <3>1, <3>4, <3>5, <3>7 DEF Options
    <2> QED
        BY <2>1, <2>2
<1>7. ASSUME constant[s], lines'[s] \in Inspected
      PROVE  /\ ~Rewrites(config, request[s], body'[s])
             /\ config.LogMatch /\ rewrites'[s] = 1 => lines'[s] \in Added
    <2>0. reqcfg[s] = config
        BY <1>0, <1>1, <1>7 DEF ConstantInv
    <2>1. CASE phase[s] = "rewriting"
        <3>1. lines[s] = <<>> \/ lines[s] \in Inspected \ Added
            BY <1>0, <2>1 DEF LinesInv
        <3>2. CASE ToRewrite(s)
            BY <1>1, <1>3, <2>1, <3>1, <3>2, LineFacts
        <3>3. CASE ~ToRewrite(s)
            BY <1>0, <1>1, <1>2, <1>7, <2>0, <2>1, <3>3 DEF LinesInv, RequestInv, First
        <3> QED
            BY <3>2, <3>3
    <2>2. CASE phase[s] = "rewriting again"
        <3>1. lines'[s] = lines[s]
            BY <1>1, <2>2
        <3>2. ~Rewrites(config, request[s], body[s])
              /\ (config.LogMatch /\ rewrites[s] = 1 => lines[s] \in Added)
            BY <1>0, <1>7, <2>2, <3>1 DEF ConstantInv, First
        <3> QED
            BY <1>1, <1>2, <2>0, <3>1, <3>2
    <2> QED
        BY <1>1, <2>1, <2>2
<1>8. ConstantInv(s)'
    <2>1. constant'[s] = constant[s] /\ pc'[s] = pc[s] /\ steady'[s] = steady[s] /\ reqcfg'[s] = reqcfg[s]
          /\ request'[s] = request[s] /\ profiled'[s] = profiled[s] /\ config' = config
        BY <1>1
    <2>2. phase'[s] \in Gone => phase'[s] = "upstream" /\ phase[s] \in Second
        BY <1>1 DEF Gone, Second
    <2>3. phase'[s] \in Second => phase[s] \in Second
        BY <1>1 DEF Second
    <2>4. phase'[s] # "streaming" /\ phase[s] # "arrived"
        BY <1>1
    <2> HIDE DEF Watched
    <2> QED
        BY <1>0, <1>6, <1>7, <2>1, <2>2, <2>3, <2>4 DEF ConstantInv
<1> QED
    BY <1>1, <1>4, <1>5, <1>8 DEF Calls

\* The second call arrives, with the model that will answer.
LEMMA AfterKeeps ==
    ASSUME IInv, NEW s \in Streams, After(s)
    PROVE  RequestType' /\ Calls(s)' /\ \A q \in Streams \ {s} : RequestLocals(q)' = RequestLocals(q)
<1> DEFINE req == [request[s] EXCEPT !.Model = StreamModel[s]]
<1>0. RequestType /\ Calls(s)
    BY DEF IInv
<1>1. /\ phase' = [phase EXCEPT ![s] = "rewriting again"] /\ phase[s] = "between"
      /\ reqcfg' = [reqcfg EXCEPT ![s] = config] /\ request' = [request EXCEPT ![s] = req]
      /\ profiled' = [profiled EXCEPT ![s] = @ \/ InScope(config, req, body[s])]
      /\ UNCHANGED <<body, rewrites, lines, constant, truth, config, pc, source, steady>>
    BY DEF After, Capture, Profiles, Goto, streamVars
<1>2. config \in Configs
    BY DEF IInv, GuardInv, Proofs!IInv, Proofs!TypeInv, Proofs!TypeOK
<1>3. req \in Request /\ req.Model = StreamModel[s]
    <2>1. request[s] \in Request /\ StreamModel[s] \in Names
        BY <1>0, GuardedAssumption DEF RequestType
    <2> QED
        BY <2>1 DEF Request
<1>4. Rewrites(config, req, body[s]) <=> Rewrites(config, request[s], body[s])
    <2>1. request[s] \in Request
        BY <1>0 DEF RequestType
    <2>2. req.Stream = request[s].Stream /\ req.path = request[s].path
          /\ req.SourceFormat = request[s].SourceFormat
        BY <2>1 DEF Request
    <2> HIDE DEF req
    <2> QED
        BY <2>2, Zenon DEF Rewrites
<1>5. modelMatches(config, StreamModel[s]) => InScope(config, req, body[s])
    BY <1>3, ModelInScope
<1>6. InScope(config, req, body[s]) \in BOOLEAN
    BY DEF InScope, requestModelMatches
<1> HIDE DEF req
<1>7. RequestType'
    BY <1>0, <1>1, <1>2, <1>3, <1>6 DEF RequestType, Phase
<1>8. /\ phase'[s] = "rewriting again" /\ reqcfg'[s] = config /\ request'[s] = req
      /\ profiled'[s] = (profiled[s] \/ InScope(config, req, body[s]))
      /\ pc'[s] = pc[s] /\ source'[s] = source[s] /\ truth'[s] = truth[s] /\ lines'[s] = lines[s]
      /\ rewrites'[s] = rewrites[s] /\ body'[s] = body[s] /\ constant'[s] = constant[s]
      /\ steady'[s] = steady[s] /\ config' = config
    BY <1>0, <1>1 DEF RequestType
<1>9. RequestInv(s)'
    BY <1>0, <1>1, <1>3, <1>8 DEF Calls, RequestInv, First, Second
<1>10. LinesInv(s)'
    BY <1>0, <1>8 DEF Calls, LinesInv
<1>11. ConstantInv(s)'
    <2>1. phase[s] \notin First /\ phase'[s] \notin Gone /\ phase'[s] # "streaming"
        BY <1>1, <1>8 DEF First, Gone
    <2> HIDE DEF Watched
    <2> QED
        BY <1>0, <1>4, <1>5, <1>8, <2>1 DEF Calls, ConstantInv
<1>12. \A q \in Streams \ {s} : RequestLocals(q)' = RequestLocals(q)
    BY <1>0, <1>1 DEF RequestType, RequestLocals
<1> QED
    BY <1>7, <1>9, <1>10, <1>11, <1>12 DEF Calls

\* Upstream answers: asked for usage, it sends what there is.
LEMMA UpstreamKeeps ==
    ASSUME IInv, NEW s \in Streams, Upstream(s)
    PROVE  /\ RequestType' /\ Calls(s)' /\ GuardInv'
           /\ \A q \in Streams \ {s} : RequestLocals(q)' = RequestLocals(q)
<1>0. RequestType /\ Calls(s) /\ GuardInv /\ source[s] = truth[s] /\ pc[s] = "header"
    BY DEF IInv, Upstream, Calls, RequestInv
<1>1. /\ phase' = [phase EXCEPT ![s] = "streaming"] /\ phase[s] = "upstream"
      /\ UNCHANGED <<request, body, reqcfg, profiled, rewrites, lines, constant, truth, config,
                     pc, buffered, cfg, verdict, left, calls, kept, result, open, metrics, out, steady>>
    BY DEF Upstream, Goto
<1>2. DOMAIN source = Streams /\ source = [source EXCEPT ![s] = source[s]] /\ truth[s] \in Sources
    BY <1>0 DEF GuardInv, Proofs!IInv, Proofs!TypeInv, Proofs!TypeOK, RequestType
<1>3. PICK src \in Sources \cup {Muted(x) : x \in Sources} :
          /\ \/ src = source[s]
             \/ src = Muted(source[s]) /\ (Readable(body[s]) => body[s].options # "asked")
          /\ source' = [source EXCEPT ![s] = src]
    <2>1. CASE UNCHANGED source
        <3>1. source' = [source EXCEPT ![s] = source[s]] /\ source[s] \in Sources
            BY <1>0, <1>2, <2>1
        <3> QED
            BY <3>1, Zenon
    <2>2. CASE source' = [source EXCEPT ![s] = Muted(@)] /\ (Readable(body[s]) => body[s].options # "asked")
        BY <1>0, <1>2, <2>2
    <2> QED
        BY <2>1, <2>2 DEF Upstream
<1>4. Len(src) = Len(source[s])
    BY <1>0, <1>2, <1>3, MutedType
<1>5. GuardInv'
    BY <1>0, <1>1, <1>3, <1>4, GuardUpstream
<1>6. RequestType'
    BY <1>0, <1>1 DEF RequestType, Phase
<1>7. /\ phase'[s] = "streaming" /\ reqcfg'[s] = reqcfg[s] /\ request'[s] = request[s]
      /\ profiled'[s] = profiled[s] /\ pc'[s] = "header" /\ source'[s] = src /\ truth'[s] = truth[s]
      /\ lines'[s] = lines[s] /\ rewrites'[s] = rewrites[s] /\ body'[s] = body[s]
      /\ constant'[s] = constant[s] /\ config' = config
    BY <1>0, <1>1, <1>2, <1>3 DEF RequestType
<1>8. RequestInv(s)'
    BY <1>0, <1>1, <1>7 DEF Calls, RequestInv, First, Second
<1>9. LinesInv(s)'
    BY <1>0, <1>7 DEF Calls, LinesInv
<1>10. ConstantInv(s)'
    <2>1. Watched(s)' <=> Watched(s)
        BY <1>7, WatchedFrame
    <2>2. Watched(s) => Readable(body[s])
        BY Zenon DEF Watched
    <2> HIDE DEF Watched
    <2>3. phase[s] \notin First /\ phase[s] \in Second /\ phase[s] \in Gone /\ phase[s] # "arrived"
        BY <1>1 DEF First, Second, Gone
    <2>4. constant[s] /\ Watched(s) => body[s].options = "asked" /\ src = truth[s]
        BY <1>0, <1>3, <2>2, <2>3 DEF Calls, ConstantInv
    <2> QED
        BY <1>0, <1>7, <2>1, <2>3, <2>4 DEF Calls, ConstantInv
<1>11. \A q \in Streams \ {s} : RequestLocals(q)' = RequestLocals(q)
    BY <1>0, <1>1, <1>2, <1>3 DEF RequestType, RequestLocals
<1> QED
    BY <1>5, <1>6, <1>8, <1>9, <1>10, <1>11 DEF Calls

\* The guard goes on, and the request is past changing.
LEMMA StreamKeeps ==
    ASSUME IInv, NEW s \in Streams, Stream(s)
    PROVE  RequestType' /\ Calls(s)' /\ \A q \in Streams \ {s} : RequestLocals(q)' = RequestLocals(q)
<1>0. RequestType /\ Calls(s) /\ Proofs!TypeOK /\ phase[s] = "streaming"
    BY DEF IInv, Stream, GuardInv, Proofs!IInv, Proofs!TypeInv
<1>1. Proofs!Handle(s)
    BY SameHandle DEF Stream
<1>2. UNCHANGED <<phase, request, body, reqcfg, profiled, rewrites, lines, constant, truth>>
    BY DEF Stream, requestVars
<1>3. source' = source /\ config' = config
    BY <1>1 DEF Proofs!Handle, Proofs!HeaderInit, Proofs!PassBy, Proofs!Inspect, Proofs!Answer,
       Proofs!StartReplay, Proofs!OpenFails, Proofs!Open, Proofs!Read, Proofs!ReadFails,
       Proofs!ReadSuspicious, Proofs!ReadMore, Proofs!ReadEnd, Proofs!Close
<1>4. steady'[s] \/ (pc[s] # "header" /\ steady' = steady)
    BY <1>0, <1>1 DEF Proofs!Handle, Proofs!HeaderInit, Proofs!PassBy, Proofs!Inspect,
       Proofs!Answer, Proofs!StartReplay, Proofs!OpenFails, Proofs!Open, Proofs!Read,
       Proofs!ReadFails, Proofs!ReadSuspicious, Proofs!ReadMore, Proofs!ReadEnd, Proofs!Close,
       Proofs!TypeOK
<1>5. RequestType'
    BY <1>0, <1>2 DEF RequestType
<1>6. Watched(s)' <=> Watched(s)
    BY <1>2, <1>3, WatchedFrame
<1> HIDE DEF Watched
<1>7. RequestInv(s)'
    BY <1>0, <1>2 DEF Calls, RequestInv
<1>8. LinesInv(s)'
    BY <1>0, <1>2 DEF Calls, LinesInv
<1>9. ConstantInv(s)'
    BY <1>0, <1>2, <1>3, <1>4, <1>6 DEF Calls, ConstantInv
<1>10. \A q \in Streams \ {s} : RequestLocals(q)' = RequestLocals(q)
    <2>1. ASSUME NEW q \in Streams \ {s} PROVE pc'[q] = pc[q] /\ steady'[q] = steady[q]
        <3>1. Proofs!Locals(q)' = Proofs!Locals(q)
            BY <1>0, <1>1, GuardLocal
        <3> QED
            BY <3>1 DEF Proofs!Locals
    <2> QED
        BY <1>2, <1>3, <2>1 DEF RequestLocals
<1> QED
    BY <1>5, <1>7, <1>8, <1>9, <1>10 DEF Calls

\* Nothing is said of a request the configuration changed under.
LEMMA ReconfigureKeeps ==
    ASSUME IInv, NEW c, Reconfigure(c)
    PROVE  RequestType' /\ \A s \in Streams : Calls(s)'
<1>0. RequestType /\ \A s \in Streams : Calls(s)
    BY DEF IInv
<1>1. Proofs!Reconfigure(c)
    BY SameReconfigure DEF Reconfigure
<1>2. /\ constant' = [s \in Streams |-> FALSE] /\ pc' = pc /\ source' = source
      /\ UNCHANGED <<phase, request, body, reqcfg, profiled, rewrites, lines, truth>>
    BY <1>1 DEF Reconfigure, Proofs!Reconfigure
<1>3. RequestType'
    BY <1>0, <1>2 DEF RequestType
<1>4. ASSUME NEW s \in Streams PROVE Calls(s)'
    <2>1. RequestInv(s)' /\ LinesInv(s)'
        BY <1>0, <1>2 DEF Calls, RequestInv, LinesInv
    <2>2. ConstantInv(s)'
        BY <1>2, Zenon DEF ConstantInv
    <2> QED
        BY <2>1, <2>2 DEF Calls
<1> QED
    BY <1>3, <1>4

\* What the guard sees of a step: nothing, a step of its own, or the stream
\* upstream settles on before it has begun.
LEMMA GuardSees ==
    [Next]_vars => [Proofs!Next]_(Proofs!vars) \/ \E s \in Streams : Upstream(s)
<1> SUFFICES ASSUME [Next]_vars PROVE [Proofs!Next]_(Proofs!vars) \/ \E s \in Streams : Upstream(s)
    OBVIOUS
<1>1. ASSUME UNCHANGED <<config, streamVars>> PROVE UNCHANGED Proofs!vars
    BY <1>1 DEF streamVars, Proofs!vars, Proofs!handling
<1>2. ASSUME NEW s \in Streams, Before(s) \/ LogProfile(s) \/ Rewrite(s) \/ After(s)
      PROVE  UNCHANGED Proofs!vars
    BY <1>1, <1>2, Zenon DEF Before, LogProfile, Rewrite, After
<1>3. ASSUME NEW s \in Streams, Stream(s) PROVE Proofs!Next
    BY <1>3, SameHandle, Zenon DEF Stream, Proofs!Next
<1>4. ASSUME NEW c \in Configs, Reconfigure(c) PROVE Proofs!Next
    BY <1>4, SameReconfigure, Zenon DEF Reconfigure, Proofs!Next
<1>5. CASE UNCHANGED vars
    BY <1>1, <1>5 DEF vars
<1> QED
    BY <1>2, <1>3, <1>4, <1>5, Zenon DEF Next, Serve

\* The initial states.
LEMMA InitInv == Init => IInv
<1> SUFFICES ASSUME Init PROVE IInv
    OBVIOUS
<1>1. GuardInv
    BY GuardStarts DEF Init
<1>2. config \in Configs /\ pc = [s \in Streams |-> "header"]
    BY DEF Init, Guard!Init
<1>3. RequestType
    <2>1. request \in [Streams -> Request] /\ body \in [Streams -> Body \cup {Malformed, Empty}]
        BY RequestsAssumption DEF Init
    <2>2. <<>> \in Seq({"inspect", "add_stream_usage"})
        OBVIOUS
    <2> QED
        BY <1>2, <2>1, <2>2 DEF Init, RequestType, Phase
<1>4. ASSUME NEW s \in Streams PROVE Calls(s)
    <2>1. phase[s] = "arrived" /\ pc[s] = "header" /\ source[s] = truth[s] /\ rewrites[s] = 0
          /\ lines[s] = <<>>
        BY <1>2 DEF Init
    <2> HIDE DEF Watched
    <2> QED
        BY <2>1, LineFacts DEF Calls, RequestInv, LinesInv, ConstantInv, First, Second, Gone
<1> QED
    BY <1>1, <1>3, <1>4 DEF IInv

\* Every step.
LEMMA NextInv == IInv /\ [Next]_vars => IInv'
<1> SUFFICES ASSUME IInv, [Next]_vars PROVE IInv'
    OBVIOUS
<1>1. GuardInv'
    BY GuardSees, GuardSteps, UpstreamKeeps DEF IInv
<1>2. ASSUME NEW s \in Streams, Serve(s) PROVE RequestType' /\ \A q \in Streams : Calls(q)'
    <2>1. RequestType' /\ Calls(s)' /\ \A q \in Streams \ {s} : RequestLocals(q)' = RequestLocals(q)
        BY <1>2, BeforeKeeps, LogProfileKeeps, RewriteKeeps, AfterKeeps, UpstreamKeeps,
           StreamKeeps, Zenon DEF Serve
    <2>2. config' = config
        <3>1. CASE Stream(s)
            <4>1. Proofs!Handle(s)
                BY <3>1, SameHandle DEF Stream
            <4> QED
                BY <4>1 DEF Proofs!Handle, Proofs!HeaderInit, Proofs!PassBy, Proofs!Inspect,
                   Proofs!Answer, Proofs!StartReplay, Proofs!OpenFails, Proofs!Open, Proofs!Read,
                   Proofs!ReadFails, Proofs!ReadSuspicious, Proofs!ReadMore, Proofs!ReadEnd,
                   Proofs!Close
        <3>2. CASE Before(s) \/ LogProfile(s) \/ Rewrite(s) \/ After(s) \/ Upstream(s)
            BY <3>2 DEF Before, LogProfile, Rewrite, After, Upstream
        <3> QED
            BY <1>2, <3>1, <3>2 DEF Serve
    <2>3. ASSUME NEW q \in Streams \ {s} PROVE Calls(q)'
        <3>1. Calls(q)
            BY DEF IInv
        <3> QED
            BY <2>1, <2>2, <3>1, RequestFrame
    <2> QED
        BY <2>1, <2>3
<1>3. ASSUME NEW c \in Configs, Reconfigure(c) PROVE RequestType' /\ \A q \in Streams : Calls(q)'
    BY <1>3, ReconfigureKeeps
<1>4. ASSUME UNCHANGED vars PROVE RequestType' /\ \A q \in Streams : Calls(q)'
    <2>1. RequestType'
        BY <1>4 DEF IInv, RequestType, vars, requestVars
    <2>2. ASSUME NEW q \in Streams PROVE Calls(q)'
        <3>1. Calls(q)
            BY DEF IInv
        <3>2. RequestLocals(q)' = RequestLocals(q) /\ config' = config
            BY <1>4 DEF RequestLocals, vars, requestVars, streamVars
        <3> QED
            BY <3>1, <3>2, RequestFrame
    <2> QED
        BY <2>1, <2>2
<1>5. RequestType' /\ \A q \in Streams : Calls(q)'
    BY <1>2, <1>3, <1>4, Zenon DEF Next
<1> QED
    BY <1>1, <1>5 DEF IInv

-----------------------------------------------------------------------------
(* What holds of every request.                                             *)

\* The inductive invariant: the guard's own, what is known of a request in each
\* of its phases, of its log lines, and of one under a configuration that stays.
THEOREM Invariance == Spec => []IInv
BY InitInv, NextInv, PTL DEF Spec

\* Every variable has its type, those of the guard included.
THEOREM TypeOKHolds == Spec => []TypeOK
BY Invariance, InvTypes, PTL

\* The lines a request can have been given, counted.
LEMMA AddedOnce ==
    ASSUME NEW l \in {<<>>} \cup Inspected \cup Added
    PROVE  /\ Cardinality({i \in DOMAIN l : l[i] = "add_stream_usage"}) = IF l \in Added THEN 1 ELSE 0
           /\ (\E i \in DOMAIN l : l[i] = "inspect") => l \in Inspected
<1> DEFINE A == {i \in DOMAIN l : l[i] = "add_stream_usage"}
<1>0. Cardinality({}) = 0 /\ Cardinality({1}) = 1 /\ Cardinality({2}) = 1
    BY FS_EmptySet, FS_Singleton
<1>1. CASE l = <<>>
    <2>1. A = {} /\ ~\E i \in DOMAIN l : l[i] = "inspect"
        BY <1>1
    <2> QED
        BY <1>0, <1>1, <2>1, LineFacts
<1>2. CASE l = <<"inspect">>
    <2>1. A = {}
        BY <1>2
    <2>2. l \in Inspected \ Added
        BY <1>2, LineFacts DEF Inspected, Added
    <2> QED
        BY <1>0, <2>1, <2>2
<1>3. CASE l = <<"add_stream_usage">>
    <2>1. A = {1} /\ ~\E i \in DOMAIN l : l[i] = "inspect"
        BY <1>3
    <2>2. l \in Added
        BY <1>3 DEF Added
    <2> QED
        BY <1>0, <2>1, <2>2
<1>4. CASE l = <<"inspect", "add_stream_usage">>
    <2>1. A = {2}
        BY <1>4
    <2>2. l \in Added /\ l \in Inspected
        BY <1>4 DEF Added, Inspected
    <2> QED
        BY <1>0, <2>1, <2>2
<1> QED
    BY <1>1, <1>2, <1>3, <1>4 DEF Inspected, Added

\* The host's two calls rewrite a body once at most, and while the configuration
\* stays a rewrite of a request that was logged is logged (interceptors.go:229).
THEOREM RewrittenOnceAndLoggedHolds == Spec => []RewrittenOnceAndLogged
<1>1. IInv => RewrittenOnceAndLogged
  <2> SUFFICES ASSUME IInv, NEW s \in Streams
               PROVE  LET logged == Cardinality({i \in DOMAIN lines[s] : lines[s][i] = "add_stream_usage"})
                      IN  /\ logged <= rewrites[s] /\ rewrites[s] <= 1
                          /\ (/\ constant[s] /\ config.LogMatch
                              /\ phase[s] \in {"upstream", "streaming"}
                              /\ \E i \in DOMAIN lines[s] : lines[s][i] = "inspect") => logged = rewrites[s]
      BY DEF RewrittenOnceAndLogged
  <2> DEFINE logged == Cardinality({i \in DOMAIN lines[s] : lines[s][i] = "add_stream_usage"})
  <2>1. RequestInv(s) /\ LinesInv(s) /\ ConstantInv(s)
      BY DEF IInv, Calls
  <2>2. /\ logged = IF lines[s] \in Added THEN 1 ELSE 0
        /\ (\E i \in DOMAIN lines[s] : lines[s][i] = "inspect") => lines[s] \in Inspected
      BY <2>1, AddedOnce DEF LinesInv
  <2>3. rewrites[s] \in {0, 1} /\ (lines[s] \in Added => rewrites[s] = 1)
      BY <2>1 DEF RequestInv, LinesInv
  <2>4. constant[s] /\ config.LogMatch /\ phase[s] \in {"upstream", "streaming"} /\ lines[s] \in Inspected
            /\ rewrites[s] = 1 => lines[s] \in Added
      BY <2>1 DEF ConstantInv, First
  <2> HIDE DEF logged
  <2>5. /\ logged <= rewrites[s] /\ rewrites[s] <= 1
        /\ (/\ constant[s] /\ config.LogMatch
            /\ phase[s] \in {"upstream", "streaming"}
            /\ \E i \in DOMAIN lines[s] : lines[s][i] = "inspect") => logged = rewrites[s]
      BY <2>2, <2>3, <2>4
  <2> QED
      BY <2>5 DEF logged
<1> QED
    BY <1>1, Invariance, PTL

\* Something was sent of a stream, so it has begun.
LEMMA SentFacts ==
    ASSUME IInv, NEW s \in Streams, NEW i \in DOMAIN out[s]
    PROVE  /\ i \in 1..Len(out[s]) /\ phase[s] = "streaming" /\ pc[s] # "header"
           /\ Proofs!SentInv(s)
<1>1. Proofs!TypeOK /\ Proofs!PlaceInv(s) /\ Proofs!SentInv(s) /\ RequestInv(s)
    BY DEF IInv, GuardInv, Proofs!IInv, Proofs!TypeInv, Proofs!SentAsJudged, Calls
<1>2. out[s] \in Seq(Proofs!Item)
    BY <1>1 DEF Proofs!TypeOK
<1>3. i \in 1..Len(out[s]) /\ out[s] # <<>>
    BY <1>2
<1> QED
    BY <1>1, <1>3 DEF Proofs!PlaceInv, RequestInv

\* While the configuration stays, a stream the guard judges is one whose request
\* was profiled, although requests are looked at under three names and streams
\* under one.
THEOREM JudgedWasProfiledHolds == Spec => []JudgedWasProfiled
<1>1. IInv => JudgedWasProfiled
  <2> SUFFICES ASSUME IInv, NEW s \in Streams, constant[s], NEW i \in DOMAIN out[s],
                      out[s][i].kind # "unguarded"
               PROVE  profiled[s]
      BY DEF JudgedWasProfiled
  <2>1. /\ i \in 1..Len(out[s]) /\ phase[s] = "streaming" /\ pc[s] # "header"
        /\ Proofs!SentInv(s)
      BY SentFacts
  <2>2. ConstantInv(s)
      BY DEF IInv, Calls
  <2>3. modelMatches(config, StreamModel[s])
      BY <2>1, <2>2, SameForBoth DEF ConstantInv, Proofs!SentInv
  <2> QED
      BY <2>1, <2>2, <2>3 DEF ConstantInv, Second
<1> QED
    BY <1>1, Invariance, PTL

\* While the configuration stays, no suspicious chunk of a stream that can be
\* asked for its usage reaches the client as upstream sent it, however reticent
\* upstream is about usage it was not asked for, if no retried stream is empty.
THEOREM NothingSuspiciousDeliveredHolds ==
    ASSUME EmptyStreams = FALSE
    PROVE  Spec => []NothingSuspiciousDelivered
<1>1. Init => Proofs!SentHarmless
    BY Assumed, SameInit, Proofs!InitSent DEF Init
<1>2. IInv /\ Proofs!SentHarmless /\ [Next]_vars => Proofs!SentHarmless'
  <2> SUFFICES ASSUME IInv, Proofs!SentHarmless, [Next]_vars PROVE Proofs!SentHarmless'
      OBVIOUS
  <2>1. ASSUME [Proofs!Next]_(Proofs!vars) PROVE Proofs!SentHarmless'
      <3>1. Proofs!IInv
          BY DEF IInv, GuardInv
      <3>2. Proofs!IInv /\ Proofs!SentHarmless /\ [Proofs!Next]_(Proofs!vars) => Proofs!SentHarmless'
          BY Assumed, Proofs!NextHarmless
      <3> QED
          BY <2>1, <3>1, <3>2
  <2>2. ASSUME NEW s \in Streams, Upstream(s) PROVE Proofs!SentHarmless'
      <3>1. UNCHANGED <<pc, result, kept, out>>
          BY <2>2 DEF Upstream
      <3> QED
          BY <3>1 DEF Proofs!SentHarmless, Proofs!HarmlessInv, Proofs!Suspicious
  <2> QED
      BY <2>1, <2>2, GuardSees
<1>3. IInv /\ Proofs!SentHarmless => NothingSuspiciousDelivered
  <2> SUFFICES ASSUME IInv, Proofs!SentHarmless, NEW s \in Streams, Watched(s),
                      NEW i \in DOMAIN out[s], out[s][i].kind = "original"
               PROVE  ~Guard!Suspicious(config, Truth(s, i))
      BY Zenon DEF NothingSuspiciousDelivered
  <2>1. /\ i \in 1..Len(out[s]) /\ phase[s] = "streaming" /\ pc[s] # "header"
        /\ Proofs!SentInv(s)
      BY SentFacts
  <2>2. ConstantInv(s) /\ constant[s]
      BY Zenon DEF IInv, Calls, Watched
  <2>3. steady[s] /\ source[s] = truth[s]
      <3> HIDE DEF Watched
      <3> QED
          BY <2>1, <2>2 DEF ConstantInv
  <2>4. out[s][i].cfg = config /\ out[s][i].lines = Proofs!Sent(s, i)
      BY <2>1, <2>3 DEF Proofs!SentInv
  <2>5. Proofs!Sent(s, i) = Truth(s, i)
      BY <2>3, SameForBoth, Zenon DEF Proofs!Sent, Truth
  <2>6. ~Proofs!Suspicious(out[s][i].cfg, out[s][i].lines)
      BY <2>1 DEF Proofs!SentHarmless, Proofs!HarmlessInv
  <2> QED
      BY <2>4, <2>5, <2>6, SameSuspicious
<1> QED
    BY <1>1, <1>2, <1>3, Invariance, PTL DEF Spec
=============================================================================
