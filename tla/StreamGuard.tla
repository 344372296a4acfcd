----------------------------- MODULE StreamGuard -----------------------------
(****************************************************************************)
(* The guard of streaming responses: handleStreamIntercept,                 *)
(* replayStreamWithRetry and readRetriedStreamAttempt of                    *)
(* internal/bridge/interceptors.go.                                         *)
(*                                                                          *)
(* The host shows the plugin a stream in separate calls: once before the    *)
(* first chunk (header init), then each chunk in turn.  Nothing is kept in  *)
(* the plugin between the calls, and each loads the configuration anew.     *)
(* Asked to buffer, the host shows the whole stream as one chunk; else what *)
(* it forwarded of a chunk is gone before it shows the next.                *)
(*                                                                          *)
(* A suspicious chunk may be answered with a replay: the handler of that    *)
(* chunk has the host run the model again as a stream, reads it to its end, *)
(* judging chunk by chunk, closes it, and hands over the whole of it.  The  *)
(* host is external: opening and reading can fail; its streams end.         *)
(* Log lines are not modelled here.                                         *)
(****************************************************************************)
EXTENDS Inspection, SequencesExt

CONSTANTS Streams,       \* the streams the host shows the guard
          StreamModel,   \* the model that produces each one (req.Model)
          Sources,       \* what upstream can stream: sequences of chunks
          RetryChunks,   \* chunks of retried streams
          MaxReads,      \* bound: payloads of a retried stream
          EmptyStreams,  \* whether a retried stream can end without a payload
          Configs        \* configurations that can be published

ASSUME StreamsAssumption == StreamModel \in [Streams -> Names]

Chunk == Seq(StreamLine)

ASSUME SourcesAssumption ==
    /\ \A src \in Sources : src \in Seq(Chunk) /\ src # <<>>
    /\ \A c \in RetryChunks : c \in Chunk /\ c # <<>>
    /\ MaxReads \in Nat \ {0}
    /\ EmptyStreams \in BOOLEAN

ASSUME StreamConfigsAssumption == Configs \subseteq StoredConfig

\* The longest of the streams, and the largest of the budgets (which are ints).
ASSUME LengthsAssumption ==
    \E src \in Sources : \A other \in Sources : Len(other) <= Len(src)

ASSUME StreamGrantsAssumption ==
    \E c \in Configs : \A d \in Configs : d.GuardRetryAttempts <= c.GuardRetryAttempts

VARIABLES config,    \* State.config, the published configuration
          pc,        \* where the stream is
          source,    \* the original stream, as upstream sends it
          buffered,  \* the host was asked to buffer it
          cfg,       \* the chunk handler's copy of the configuration
          verdict,   \* decision on the chunk at hand
          left,      \* attemptsRemaining
          calls,     \* host.model.execute_stream calls for this chunk
          kept,      \* chunks: payloads of the retried stream read so far
          result,    \* how reading it ended, while it is being closed
          open,      \* retried streams the host holds open for this handler
          metrics,   \* the counters of runtime.Metrics
          out,       \* history: what became of each chunk, in order
          steady     \* history: not reconfigured since the stream began

handling == <<buffered, cfg, verdict, left, calls, kept, result, open, out>>
vars == <<config, pc, source, handling, metrics, steady>>

Pc      == {"header", "waiting", "judged", "opening", "reading", "closing", "done"}
Result  == {"none", "again", "failed", "replay", "blocked", "dropped", "original"}
Counter == {"total", "inspected", "matched", "blocked"}

\* What became of one chunk shown to the guard: its kind, the lines the
\* client was sent for it, the retries it took and the configuration used.
Kind == {"unguarded", "original", "dropped", "blocked", "replay", "failed"}
Item == [kind : Kind, lines : Chunk, calls : Nat, cfg : Configs]

NoVerdict == [Matched |-> FALSE, Retry |-> FALSE, DropChunk |-> FALSE,
              ReplacementChunk |-> FALSE, ReasoningFound |-> FALSE]

TypeOK ==
    /\ config   \in Configs
    /\ pc       \in [Streams -> Pc]
    /\ source   \in [Streams -> Sources]
    /\ buffered \in [Streams -> BOOLEAN]
    /\ cfg      \in [Streams -> Configs]
    /\ verdict  \in [Streams -> StreamDecision]
    /\ left     \in [Streams -> Nat]
    /\ calls    \in [Streams -> Nat]
    /\ kept     \in [Streams -> Seq(Chunk)]
    /\ result   \in [Streams -> Result]
    /\ open     \in [Streams -> Nat]
    /\ metrics  \in [Counter -> Nat]
    /\ out      \in [Streams -> Seq(Item)]
    /\ steady   \in [Streams -> BOOLEAN]

Init ==
    /\ config   \in Configs
    /\ pc       = [s \in Streams |-> "header"]
    /\ source   \in [Streams -> Sources]
    /\ buffered = [s \in Streams |-> FALSE]
    /\ cfg      = [s \in Streams |-> config]
    /\ verdict  = [s \in Streams |-> NoVerdict]
    /\ left     = [s \in Streams |-> 0]
    /\ calls    = [s \in Streams |-> 0]
    /\ kept     = [s \in Streams |-> <<>>]
    /\ result   = [s \in Streams |-> "none"]
    /\ open     = [s \in Streams |-> 0]
    /\ metrics  = [m \in Counter |-> 0]
    /\ out      = [s \in Streams |-> <<>>]
    /\ steady   = [s \in Streams |-> TRUE]

-----------------------------------------------------------------------------
(* runtime.Metrics: RecordProxyAttempt, RecordInspectedResponse and         *)
(* RecordBlockedResponse, as one step of a handler makes them.              *)

Count(counted) == metrics' = [m \in Counter |-> metrics[m] + (IF m \in counted THEN 1 ELSE 0)]

MatchCounts(c) ==
    {"inspected", "matched"} \cup (IF c.InterceptStreaming THEN {"blocked"} ELSE {})

\* A chunk of the original stream counts only if it reports something.
ChunkCounts(c, v) ==
    IF ~v.ReasoningFound THEN {}
    ELSE {"total"} \cup (IF v.Matched THEN MatchCounts(c) ELSE {"inspected"})

-----------------------------------------------------------------------------
(* The host's side of a stream.                                             *)

\* The chunk it shows next, with the index it gives it (ChunkIndex).
Shown(s)      == IF buffered[s] THEN FlattenSeq(source[s]) ELSE source[s][Len(out[s]) + 1]
ChunkIndex(s) == Len(out[s])

\* It takes the reply to a chunk and goes on to the next one, if the stream
\* has more and the handler did not fail.  Nothing tells it to stop: the
\* inspector's CloseStream is not part of any reply.
Finish(s, kind, lines) ==
    /\ out' = [out EXCEPT ![s] = Append(@, [kind |-> kind, lines |-> lines,
                                            calls |-> calls[s], cfg |-> cfg[s]])]
    /\ calls' = [calls EXCEPT ![s] = 0]
    /\ pc'  = [pc EXCEPT ![s] = IF \/ buffered[s]
                                   \/ kind = "failed"
                                   \/ Len(out[s]) + 1 = Len(source[s])
                                THEN "done" ELSE "waiting"]

\* The reply in which the code ends a chunk.  A replay without payloads has
\* an empty body, the form of a reply that leaves the chunk as it is.
Reply(s, what) ==
    CASE what = "replay" /\ kept[s] # <<>> -> Finish(s, "replay", FlattenSeq(kept[s]))
      [] what = "original" \/ (what = "replay" /\ kept[s] = <<>>)
                                           -> Finish(s, "original", Shown(s))
      [] OTHER                             -> Finish(s, what, <<>>)

\* What a decision that is not a retry does to a chunk.
Disposal(v) ==
    IF v.DropChunk THEN "dropped" ELSE IF v.ReplacementChunk THEN "blocked" ELSE "original"

-----------------------------------------------------------------------------
(* The chunk handler.                                                       *)

\* Header init: have the stream buffered if it may have to be replayed.
HeaderInit(s) ==
    /\ pc[s] = "header"
    /\ buffered' = [buffered EXCEPT ![s] = /\ modelMatches(config, StreamModel[s])
                                           /\ config.InterceptStreaming
                                           /\ config.StreamAction # "disconnect"]
    /\ pc' = [pc EXCEPT ![s] = "waiting"]
    /\ steady' = [steady EXCEPT ![s] = TRUE]
    /\ UNCHANGED <<config, source, cfg, verdict, left, calls, kept, result, open, out, metrics>>

\* The model is not on the allow list: an empty reply, nothing counted.
PassBy(s) ==
    /\ pc[s] = "waiting"
    /\ ~modelMatches(config, StreamModel[s])
    /\ Finish(s, "unguarded", Shown(s))
    /\ UNCHANGED <<config, source, buffered, cfg, verdict, left, kept, result, open, metrics, steady>>

Inspect(s) ==
    /\ pc[s] = "waiting"
    /\ modelMatches(config, StreamModel[s])
    /\ LET v == InspectStreamChunk(config, Shown(s), config.GuardRetryAttempts, ChunkIndex(s) > 0)
       IN  /\ verdict' = [verdict EXCEPT ![s] = v]
           /\ Count(ChunkCounts(config, v))
    /\ cfg' = [cfg EXCEPT ![s] = config]
    /\ pc' = [pc EXCEPT ![s] = "judged"]
    /\ UNCHANGED <<config, source, buffered, left, calls, kept, result, open, out, steady>>

\* A bug it must not have: a chunk that reports nothing is never answered.
Bug_AnswersOnlyReports(s) ==
    /\ pc[s] = "judged"
    /\ ~verdict[s].Retry
    /\ verdict[s].ReasoningFound
    /\ Reply(s, Disposal(verdict[s]))
    /\ UNCHANGED <<config, source, buffered, cfg, verdict, left, kept, result, open, metrics, steady>>

Answer(s) ==
    /\ pc[s] = "judged"
    /\ ~verdict[s].Retry
    /\ Reply(s, Disposal(verdict[s]))
    /\ UNCHANGED <<config, source, buffered, cfg, verdict, left, kept, result, open, metrics, steady>>

-----------------------------------------------------------------------------
(* The replay.                                                              *)

\* One round of replayStreamWithRetry begins: the attempt is counted before
\* the host is asked (the non-streaming handler counts afterwards).
Execute(s, n) ==
    /\ left'  = [left EXCEPT ![s] = n]
    /\ calls' = [calls EXCEPT ![s] = @ + 1]
    /\ pc'    = [pc EXCEPT ![s] = "opening"]
    /\ Count({"total"})

StartReplay(s) ==
    /\ pc[s] = "judged"
    /\ verdict[s].Retry
    /\ Execute(s, cfg[s].GuardRetryAttempts)
    /\ UNCHANGED <<config, source, buffered, cfg, verdict, kept, result, open, out, steady>>

\* A bug it must not have: a retry that cannot start leaves the chunk alone.
Bug_FailsOpen(s) ==
    /\ pc[s] = "opening"
    /\ Reply(s, "original")
    /\ UNCHANGED <<config, source, buffered, cfg, verdict, left, kept, result, open, metrics, steady>>

\* host.model.execute_stream fails, or its result does not decode.
OpenFails(s) ==
    /\ pc[s] = "opening"
    /\ Reply(s, "failed")
    /\ UNCHANGED <<config, source, buffered, cfg, verdict, left, kept, result, open, metrics, steady>>

Open(s) ==
    /\ pc[s] = "opening"
    /\ open' = [open EXCEPT ![s] = @ + 1]
    /\ kept' = [kept EXCEPT ![s] = <<>>]
    /\ pc'   = [pc EXCEPT ![s] = "reading"]
    /\ UNCHANGED <<config, source, buffered, cfg, verdict, left, calls, result, out, metrics, steady>>

\* readRetriedStreamAttempt returns: its deferred call closes the stream.
Leave(s, how) ==
    /\ result' = [result EXCEPT ![s] = how]
    /\ pc'     = [pc EXCEPT ![s] = "closing"]

\* Bugs it must not have: a failed read returns without the deferred close, or
\* closes the stream itself as well.
Bug_LeavesOpen(s) ==
    /\ pc[s] = "reading"
    /\ Reply(s, "failed")
    /\ UNCHANGED <<config, source, buffered, cfg, verdict, left, kept, result, open, metrics, steady>>

Bug_ClosesTwice(s) ==
    /\ pc[s] = "reading"
    /\ open' = [open EXCEPT ![s] = @ - 1]
    /\ Leave(s, "failed")
    /\ UNCHANGED <<config, source, buffered, cfg, verdict, left, calls, kept, out, metrics, steady>>

\* host.model.stream_read fails, does not decode or reports an error.
ReadFails(s) ==
    /\ pc[s] = "reading"
    /\ Leave(s, "failed")
    /\ UNCHANGED <<config, source, buffered, cfg, verdict, left, calls, kept, open, out, metrics, steady>>

\* A bug it must not have: the budget of the attempt before.
Bug_StaleBudget(s, chunk) == InspectStreamChunk(cfg[s], chunk, left[s], FALSE)

\* A retried chunk is judged with the attempts left after this one (the code's
\* max(0, left - 1); left is positive), as if nothing had been written.
RetryVerdict(s, chunk) == InspectStreamChunk(cfg[s], chunk, left[s] - 1, FALSE)

\* A payload that is suspicious ends the attempt, also if it is the last one.
ReadSuspicious(s, chunk) ==
    LET v == RetryVerdict(s, chunk)
    IN  /\ pc[s] = "reading"
        /\ v.Matched
        /\ kept' = [kept EXCEPT ![s] = Append(@, chunk)]
        /\ Count(MatchCounts(cfg[s]))
        /\ Leave(s, IF v.Retry /\ left[s] > 1 THEN "again" ELSE Disposal(v))
        /\ UNCHANGED <<config, source, buffered, cfg, verdict, left, calls, open, out, steady>>

\* Any other payload is kept; more will come.
ReadMore(s, chunk) ==
    /\ pc[s] = "reading"
    /\ Len(kept[s]) + 1 < MaxReads
    /\ ~RetryVerdict(s, chunk).Matched
    /\ kept' = [kept EXCEPT ![s] = Append(@, chunk)]
    /\ UNCHANGED <<config, source, pc, buffered, cfg, verdict, left, calls, result, open, out, metrics, steady>>

\* A bug it must not have: only a match counts as an inspection.
Bug_EndsUncounted(s, payload) ==
    /\ pc[s] = "reading"
    /\ \A chunk \in payload : ~RetryVerdict(s, chunk).Matched
    /\ payload = {} => kept[s] # <<>> \/ EmptyStreams
    /\ kept' = [kept EXCEPT ![s] = IF payload = {} THEN @
                                   ELSE Append(@, CHOOSE chunk \in payload : TRUE)]
    /\ Leave(s, "replay")
    /\ UNCHANGED <<config, source, buffered, cfg, verdict, left, calls, open, metrics, out, steady>>

\* The stream is done, with a last payload or without one.
ReadEnd(s, payload) ==
    /\ pc[s] = "reading"
    /\ \A chunk \in payload : ~RetryVerdict(s, chunk).Matched
    /\ payload = {} => kept[s] # <<>> \/ EmptyStreams
    /\ kept' = [kept EXCEPT ![s] = IF payload = {} THEN @
                                   ELSE Append(@, CHOOSE chunk \in payload : TRUE)]
    /\ Count({"inspected"})
    /\ Leave(s, "replay")
    /\ UNCHANGED <<config, source, buffered, cfg, verdict, left, calls, open, out, steady>>

Read(s) ==
    \/ ReadFails(s)
    \/ \E chunk \in RetryChunks : ReadSuspicious(s, chunk) \/ ReadMore(s, chunk)
    \/ \E payload \in {{}} \cup {{chunk} : chunk \in RetryChunks} : ReadEnd(s, payload)

\* A bug it must not have: the next round keeps the budget of this one.
Bug_KeepsBudget(s) ==
    /\ pc[s] = "closing"
    /\ open' = [open EXCEPT ![s] = @ - 1]
    /\ result' = [result EXCEPT ![s] = "none"]
    /\ IF result[s] = "again"
       THEN Execute(s, left[s]) /\ UNCHANGED out
       ELSE Reply(s, result[s]) /\ UNCHANGED <<left, metrics>>
    /\ UNCHANGED <<config, source, buffered, cfg, verdict, kept, steady>>

\* host.model.stream_close has returned (its own failure is ignored): run the
\* next round, or reply.
Close(s) ==
    /\ pc[s] = "closing"
    /\ open' = [open EXCEPT ![s] = @ - 1]
    /\ result' = [result EXCEPT ![s] = "none"]
    /\ IF result[s] = "again" /\ left[s] > 1
       THEN Execute(s, left[s] - 1) /\ UNCHANGED out
       ELSE /\ Reply(s, IF result[s] = "again" THEN "original" ELSE result[s])
            /\ UNCHANGED <<left, metrics>>
    /\ UNCHANGED <<config, source, buffered, cfg, verdict, kept, steady>>

Handle(s) ==
    \/ HeaderInit(s) \/ PassBy(s) \/ Inspect(s) \/ Answer(s)
    \/ StartReplay(s) \/ OpenFails(s) \/ Open(s) \/ Read(s) \/ Close(s)

\* plugin.reconfigure or a management POST publishes another configuration.
Reconfigure(c) ==
    /\ c # config
    /\ config' = c
    /\ steady' = [s \in Streams |-> FALSE]
    /\ UNCHANGED <<pc, source, handling, metrics>>

Next ==
    \/ \E s \in Streams : Handle(s)
    \/ \E c \in Configs : Reconfigure(c)

\* The host keeps showing chunks, and its calls return or fail; retried
\* streams end (MaxReads).  Each stream is handled on a thread of its own.
Spec == Init /\ [][Next]_vars /\ \A s \in Streams : WF_vars(Handle(s))

-----------------------------------------------------------------------------
(* Properties.                                                              *)

Suspicious(c, lines) ==
    ReportingLines(lines) # {} /\ ReasoningMatched(c, LastReport(lines))

Items(s) == {out[s][i] : i \in DOMAIN out[s]}

\* The retries the handler of the i-th chunk may make: in disconnect mode only
\* that of the first one, before anything has been written.
Granted(c, i) ==
    IF c.InterceptStreaming /\ ~(c.StreamAction = "disconnect" /\ i > 1)
    THEN c.GuardRetryAttempts ELSE 0

\* A suspicious chunk costs the upstream at most the configured retries, and
\* while a retried stream is open the rounds begun and the attempts left add
\* up to them (replayStreamWithRetry and the inspector each keep a count).
StreamRetryBudget ==
    \A s \in Streams :
        /\ calls[s] <= Granted(cfg[s], Len(out[s]) + 1)
        /\ \A i \in DOMAIN out[s] : out[s][i].calls <= Granted(out[s][i].cfg, i)
        /\ pc[s] \in {"opening", "reading", "closing"}
              => calls[s] + left[s] = cfg[s].GuardRetryAttempts + 1

\* Nothing suspicious is streamed to the client: no chunk of the original that
\* was judged, and no replay, although a replay is judged in pieces and sent
\* as a whole, as long as the pieces are whole lines (see ReplayJudgedAsSent)
\* and there is one (EmptyStreams is FALSE).
NoSuspiciousStream ==
    \A s \in Streams : \A item \in Items(s) :
        item.kind \in {"original", "replay"} => ~Suspicious(item.cfg, item.lines)

\* A replay never follows output of the original: under a configuration that
\* stays, header init has the stream buffered whenever a later chunk could be
\* retried (interceptors.go:388), and only a first chunk is retried otherwise.
RetryBeforeAnyOutput ==
    \A s \in Streams : steady[s] =>
        \A i \in DOMAIN out[s] : out[s][i].calls > 0 => i = 1

\* The host holds a retried stream open for a handler exactly while the
\* handler reads it: each is closed once, also when reading fails or a verdict
\* ends it early, and before the next one is asked for.
HostStreamsClosed ==
    \A s \in Streams : open[s] = IF pc[s] \in {"reading", "closing"} THEN 1 ELSE 0

\* Attempts and inspections are counted at different moments, but each attempt
\* is inspected in the end, once, unless the host failed it.
AttemptsAccounted ==
    metrics["total"] - metrics["inspected"] =
        Cardinality({s \in Streams :
            \/ pc[s] \in {"opening", "reading"}
            \/ pc[s] = "closing" /\ result[s] = "failed"
            \/ \E item \in Items(s) : item.kind = "failed"})

\* Every stream comes to its end, whatever its replays bring.
EveryStreamFinished == \A s \in Streams : <>(pc[s] = "done")

\* Each chunk shown to the guard is treated as the contract says; a suspicious
\* one sent on would be "leaked", which the contract never gives.
MaxLength == CHOOSE n \in {Len(src) : src \in Sources} : \A src \in Sources : Len(src) <= n
MaxGranted == CHOOSE n \in {c.GuardRetryAttempts : c \in Configs} :
                 \A c \in Configs : c.GuardRetryAttempts <= n

Slots == Streams \X (1..MaxLength)

Settled(t) == t[2] <= Len(out[t[1]])
Judging(t) == t[2] = Len(out[t[1]]) + 1 /\ pc[t[1]] \in {"judged", "opening", "reading", "closing"}

OutcomeOf(item) ==
    CASE item.kind \in {"unguarded", "failed"} -> item.kind
      [] item.kind \in {"blocked", "dropped"} -> "blocked"
      [] OTHER -> IF Suspicious(item.cfg, item.lines) THEN "leaked" ELSE "clean"

BudgetOf(item, i) == IF item.kind = "unguarded" THEN 0 ELSE Granted(item.cfg, i)

SlotPhase(t) == IF Settled(t) THEN "settled" ELSE IF Judging(t) THEN "judging" ELSE "arriving"

SlotBudget(t) == IF Settled(t) THEN BudgetOf(out[t[1]][t[2]], t[2])
                 ELSE IF Judging(t) THEN Granted(cfg[t[1]], t[2]) ELSE 0

SlotRetries(t) == IF Settled(t) THEN out[t[1]][t[2]].calls
                  ELSE IF Judging(t) THEN calls[t[1]] ELSE 0

SlotOutcome(t) == IF Settled(t) THEN OutcomeOf(out[t[1]][t[2]]) ELSE "none"

Contract == INSTANCE GuardContract WITH
    Slots     <- Slots,
    MaxBudget <- MaxGranted,
    phase     <- [t \in Slots |-> SlotPhase(t)],
    budget    <- [t \in Slots |-> SlotBudget(t)],
    retries   <- [t \in Slots |-> SlotRetries(t)],
    outcome   <- [t \in Slots |-> SlotOutcome(t)]

\* Only the safety part: the slots of chunks a stream does not have stay empty.
ImplementsContract == Contract!Safety

-----------------------------------------------------------------------------
(* What the repository says and the code does not do.                       *)

\* Buffering is there so that no half stream is sent before a match is found
\* (docs/codex-retry-guard-vs-gateway.md:40).  But whether to buffer is decided
\* by the configuration at header init, whether to replay by that of the chunk.
NoHalfStreamBeforeReplay ==
    \A s \in Streams : \A i \in DOMAIN out[s] :
        out[s][i].kind = "replay" /\ out[s][i].cfg.StreamAction # "disconnect" => i = 1

\* README.md:5 has suspicious responses retried or blocked.  A retried stream
\* is judged payload by payload (interceptors.go:501) and sent joined (:543): a
\* report cut by the end of a payload is judged by neither and sent whole.
ReplayJudgedAsSent ==
    \A s \in Streams : \A item \in Items(s) :
        item.kind = "replay" => ~Suspicious(item.cfg, item.lines)
=============================================================================
