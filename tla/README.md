# Formal verification of codex-retry-guard

codex-retry-guard is a plugin of the CPA gateway. The host shows it every model
request and every response; the plugin looks for suspicious counts of reasoning
tokens in the responses and, when it finds one, has the host run the model
again, or replaces the response by an error body. These modules model that
guard and what surrounds it in the plugin, from the calls of the host to the
script of the status page; TLC checks them on small instances, and TLAPS proves
their safety properties for every value of the constants.

    tlc -workers 2 -config nonstream_guard.cfg NonStreamGuardMC
    tlapm NonStreamGuardProofs.tla

`PROJECT.json` lists the components, the runs, the mutants (one deliberate bug
per property that TLC must find), the source lines each definition stands for,
the findings, the hazards and the theorems.

## Inventory

| Component (source) | State | Operations | Correct when |
| --- | --- | --- | --- |
| Configuration (`internal/config/config.go`) | none | `ParseYAML`, `NormalizeAndValidate`, `ReasoningMatched` | what is published is valid and in normal form; the match modes mean what they say |
| Inspectors (`internal/interceptor/nonstream.go`, `stream.go`) | none | `InspectNonStream`, `InspectStreamChunk` | the count is found where it stands; retry, block or drop follow from budget, switch and mode |
| Non-streaming handler (`internal/bridge/interceptors.go:272`) | locals of one call: configuration, `attemptsRemaining`, decision | judge, log, call the host, judge again, answer | never more host calls than granted, no suspicious body passed on, a block only after all retries, always an answer |
| Stream handler and replay (`interceptors.go:377-558`) | locals of one call; nothing between the calls of one stream | header init, chunk verdict, open, read, close, next round, answer | the same, and: a replay before any output only, host streams closed exactly once |
| Runtime counters and log (`internal/runtime/metrics.go`) | nine atomics; ring of 100 entries and request profile under a mutex | `Record...`, `AppendLog`, `Reset`, `Snapshot` | counters count each response once; a snapshot and a reset make sense while handlers run |
| Published configuration (`internal/runtime/state.go`) | an atomic pointer | `Config`, `Reconfigure` | a reader sees a whole configuration; no update is lost |
| Request interceptor (`interceptors.go:210-270`) | none (writes profile and log) | add `stream_options.include_usage` | a stream in scope is made to report usage, everything else untouched |
| Management (`internal/management/http.go`) | page script: `refreshing`, last status, logs and rate | status, logs, reset, config GET and POST, page; refresh, reset and timer of the page | a POST changes two fields and nothing else; the page never shows the past and comes to show the present |
| Plugin boundary (`cmd/plugin/main.go`) | global `pluginState` | init, call, shutdown, host calls | no call runs without a state, but for the race with shutdown |

**How they interact.** The host calls the plugin on its own threads, many at a
time: a handler call for each response or chunk, `plugin.reconfigure`, and
management requests. They share two things: the pointer to the published
configuration, which handlers load and never lock, and the counters with the
log. During a handler call the plugin calls back into the host (run a model,
open, read and close a stream, write a log line); the handler waits in that
call, and everything else goes on. No state is kept for a stream between the
calls the host makes for it.

**What is hard.** (1) A configuration replaced in the middle: a handler judges
with its own copy and logs by the published one, and a stream is buffered by one
configuration and replayed by another. (2) The retry budget is counted by a loop
and passed, decremented in advance, to the inspector; the replay has a third
count. (3) Every host call can fail, return something that does not decode, or
return nothing, and each has its own path. (4) Each path adds to several shared
counters. (5) A reply without a body means "leave it as it is", so the result of
a retry can accidentally restore the original. (6) The guard judges what upstream
reports, and upstream may report only what the request was rewritten to ask for,
by another handler, under another configuration, perhaps before the model is
known. (7) Configurations are replaced by documents and edited by POSTs that read
and write back, on instances that a shutdown can take away. (8) The status page
asks for two halves of a picture and resets it, and any request can fail.
`PROJECT.json` lists these as
hazards, each at its line with the properties that would catch it going wrong.

## Modules

| Module | Models | Used by |
| --- | --- | --- |
| `GuardConfig` | `Config`, `DefaultConfig`, `ParseYAML`, `NormalizeAndValidate`, `ReasoningMatched`, the allow-list tests | everything |
| `Inspection` | the two inspectors, over abstract documents and chunks | both guards |
| `GuardContract` | what a response shown to the guard is promised, whatever the transport | both guards, as the specification they implement |
| `NonStreamGuard` | `handleNonStreamIntercept` for concurrent responses | its `MC` and `Proofs` modules |
| `StreamGuard` | `handleStreamIntercept`, `replayStreamWithRetry`, `readRetriedStreamAttempt` | `StreamGuardMC`, `StreamGuardProofs`, `GuardedStream` |
| `RequestIntercept` | what `handleRequestIntercept` decides of one request: scope, path, rewrite, panic | `GuardedStream`, `Plugin` |
| `GuardedStream` | a request from its arrival to the end of its stream: both calls of the interceptor, upstream, and `StreamGuard` as an instance | `GuardedStreamMC`, `GuardedStreamProofs` |
| `Plugin` | init, call and shutdown; dispatch and routes; `plugin.reconfigure` and the configuration POST | `PluginMC`, `PluginProofs` |
| `StatusPage` | the script of the status page and the routes it polls | `StatusPageMC`, `StatusPageProofs` |
| `Metrics` | counters, log and profile access by access; the status, logs and reset routes | `MetricsMC`, `MetricsProofs` |
| `GuardMC`, `NonStreamGuardMC`, `StreamGuardMC`, `GuardedStreamMC`, `PluginMC`, `StatusPageMC`, `MetricsMC` | values of the constants for TLC | the runs |
| `NonStreamGuardProofs`, `StreamGuardProofs`, `GuardedStreamProofs`, `PluginProofs`, `MetricsProofs`, `StatusPageProofs` | the theorems about each | `tlapm` |
| `SequenceLemmas` | what the proofs about streams need of `FlattenSeq` | `StreamGuardProofs` |

**GuardConfig.** Strings are members of `Names`, `strings.TrimSpace` and
`strings.ToLower` are functions on them. Lists the code keeps free of duplicates
and only searches are sets. `StoredConfig` is what `NewState` and `Reconfigure`
can publish: accepted, and its own normal form. A YAML document is the fields it
sets; `Decoded` lays them over the defaults.

**Inspection.** A JSON document is what the two envelopes decode of it: four
places a count may stand, the first that is present wins. A stream chunk is a
sequence of lines, of which the last that reports a count wins. The end of a
chunk can cut a line in two: a half alone is no line the inspector can read, and
where chunks are joined its halves are one line again. Bytes that do
not decode are `Malformed`; no bytes at all are `Empty`.

**NonStreamGuard.** A handler is split where something can come between its
steps: after the configuration is loaded and the body judged (logging reads the
configuration again) and around each host call. `pc` is `arrived`, `judged`,
`calling` or `done`.

| Action | Code (`interceptors.go`) |
| --- | --- |
| `Skip` | model not on the list, 278-280 |
| `Reject` | first body is not JSON, 284-286 |
| `Inspect` | load the configuration, count, judge, 277-297 |
| `CallHost` | log the verdict and call `host.model.execute`, 298-312, 343-347 |
| `HostFails` | the call fails or its result does not decode, 313-319 |
| `Reinspect` | count and judge the retried body with one attempt less, 320-344 |
| `PassUnreadable` | a retried body that is not JSON is passed on, 322-325 |
| `Answer` | log the verdict; block, or pass what was judged, 327-332, 348-374 |
| `Reconfigure` | `plugin.reconfigure` or a configuration POST, 119-134 |

**StreamGuard.** The host's side is in the model because the guard's promise
depends on it: it shows the chunks in order, or the whole stream as one chunk
when asked to buffer; what it was told to send for a chunk is gone before it
shows the next. `out` records what became of each chunk. A replay goes through
`opening`, `reading` and `closing`, since other threads and the host run in
between; the deferred `stream_close` is the `Close` action, whatever ended the
reading, and it also begins the next round.

| Action | Code (`interceptors.go`) |
| --- | --- |
| `HeaderInit` | ask for buffering, 382-393 |
| `PassBy` | model not on the list, 395-397 |
| `Inspect` | load the configuration, judge the chunk, count, 394-422 |
| `Answer` | drop, replace or leave the chunk, 430-440 |
| `StartReplay` | first round of the replay: count, call the host, 423-447 |
| `OpenFails`, `Open` | `host.model.execute_stream` returns, 455-462 |
| `ReadFails` | a read fails, does not decode or reports an error, 488-497 |
| `ReadSuspicious` | a payload matches: again, block or drop, 505-536 |
| `ReadMore`, `ReadEnd` | any other payload, with or without more to come, 498-545 |
| `Close` | the deferred close, then the next round or the reply, 463-482 |

**GuardedStream.** `phase` is where the request is; once it is `streaming`, the
steps are those of `StreamGuard`. Upstream streams `source`: `truth`, if the body
asks for usage, and otherwise that or the same without its reports (`Muted`).

| Action | Code (`interceptors.go`) |
| --- | --- |
| `Before`, `After` | load the configuration and capture the profile, in either call, 210-220; the second call knows the model |
| `LogProfile` | the profile's log line, which loads the configuration again, 221-223, 784-808 |
| `Rewrite` | rewrite the body, and log it in the first call, 225-235, 237-270, 817-838 |
| `Upstream` | external |
| `Stream` | `StreamGuard`'s `Handle` |
| `Reconfigure` | `plugin.reconfigure` or a configuration POST |

**Plugin.** One thread per call, one call per thread. `pluginState` is the global
pointer, `config` the configuration of each instance, `next` a POST's copy.

| Action | Code |
| --- | --- |
| `Initialise`, `Shutdown` | `main.go:73-138`, 174-177 |
| `Enter` | the first look at `pluginState`, `main.go:140-148` |
| `ReturnWithout` | handlers that end before they touch the state, `interceptors.go:98-129`, 382-393 |
| `Crash` | a handler given nil dereferences it |
| `PanicOnNull` | a streaming request whose body is the JSON `null` has `stream_options` written to a nil map, `interceptors.go:264`; nothing recovers in `main.go:141-164` |
| `Dispatch` | the second look, `main.go:153`, and `HandleMethod` |
| `Serve` | calls that leave the configuration as it is; routes and page, `interceptors.go:575-606` |
| `Reconfigure` | `handleReconfigure` of a document that parses, 119-134 |
| `LoadConfig`, `PublishEdit`, `AnswerEdit` | the configuration POST, `http.go:84-102`: load and edit the copy, validate and publish it, answer with what is in force |

`latest`, `edited`, `reverted`, `stale`, `disturbed` and `shutdownAt` are history:
which document and edits an instance has seen, which POSTs hold a copy from
before the latest document, which were not alone, and which calls were between
their two looks when the plugin was shut down.

**StatusPage.** The server is one counter and the log, with a history of how much
was ever counted, written and cleared, which is what the properties compare.
`exchange` holds the requests under way: the page itself, a refresh (status and
logs answered in any order), a reset, or a reset from elsewhere.

| Action | Code (`http.go`) |
| --- | --- |
| `Inspected`, `Logged` | a handler counts and logs a response (`metrics.go`) |
| `ServeStatus`, `ServeLogs`, `ServeReset` | the routes, 26-72, and the page's own snapshot, 118-141 |
| `initial` | the script renders what came with the page, 580-592 |
| `refresh`, `resetData` | take `refreshing` and send, 541-548, 561-567; also the timer, 598-600 |
| `Then` | both answers, or the reply, are rendered, 549-551, 567-570 |
| `Catch` | an error or no answer, 551-557, 570-576; the server may go on with a reset |
| `LimitChanged` | render again, 601-605 |
| `ElsewhereReset` | external: another client |

Fetches whose refresh has already failed are forgotten with it, since nothing
looks at their answers. Left out of the script: what `initial` does with a page
whose data does not parse (the server writes it with `json.Marshal`), and
unchecking the timer's box, after which the page promises no more.

**Metrics.** The guards add to a counter within a handler step; here every
addition, load and store of an atomic is a step of its own, and what the mutex
protects is one step. `work` is what is left of a handler's call, counters to add
to and lines to log in the order the code has them; `sweep` the atomics a reset or
a snapshot has still to visit. A handler is called for a request (capture the
profile, then log), a response (count, then log) or a replay of a stream (count
the attempt, log a pass line for each payload that reports a count and passes, and
only then count the inspection, or nothing more if a read fails,
`interceptors.go:446-542`). Which of these a handler is called for, and how often,
is left to the guards. Each management request is made once. `since`,
`torn` and `excused` are history: what was done since the last reset began,
whether a handler was at work during it, and whether a snapshot met such a reset.

| Action | Code |
| --- | --- |
| `Begin` | a handler is called; `SetRequestProfile` for a request, `state.go:53-80` |
| `Add` | one addition of a `Record...` call, `metrics.go:80-113`; `Calls` has their order |
| `DrawSeq`, `AppendEntry` | `AppendLog`: the number, then append and trim under the mutex, 134-149 |
| `SkipLog` | nothing to log, `interceptors.go:299`, 742-746 |
| `StartReset`, `Zero`, `ClearLog` | the reset route and `Reset`, `http.go:54-58`, `metrics.go:115-132` |
| `Poll`, `CopyLog`, `Load` | the status and logs routes, and the end of reset: `Snapshot`, `metrics.go:58-78` |

**Assumptions about the host**, none of which the repository's code decides: a
reply without a body leaves the response or the chunk as it is (the code relies
on it for every response it passes); an error envelope ends the response or
stream; a header `X-CPA-Buffer-Stream` makes it show the stream as one chunk;
model runs the plugin asks for are not themselves shown to the plugin; its calls
return or fail. It calls the request interceptor twice, sends upstream what the
two made of the body, and initialises a plugin only when none is running; a
payload of a retried stream can end anywhere, also inside a line. Whether a
replay's run goes through the rewrite again is the host's choice; the chunks of
retried streams report what they like in the model.

## Runs

| Run | Bounds | Shows |
| --- | --- | --- |
| `nonstream_guard` | 2 responses, 4 bodies, 4 configurations with budgets 0, 1, 2; 50,736 states | the properties below |
| `stream_guard` | 1 stream of 1 or 2 chunks, one of them cut inside a line; retried streams of at most 2 payloads, 4 configurations; 11,096 states | the properties below |
| `guarded_stream` | 1 request of 6 kinds with 5 bodies, its stream of 1 or 2 chunks, 4 configurations; 363,482 states | the properties below |
| `metrics_poll` | 2 handlers, 2 calls of 6 kinds, two of them replays, log of 2 lines, 1 snapshot; 949,938 states | the properties below |
| `metrics_reset` | 1 handler, 1 call of 3 kinds, log of 1 line, a reset and a snapshot; 548,033 states | the properties below |
| `plugin` | 3 calls of 13 kinds, 2 instances; 165,183 states | the properties below |
| `status_page` | 2 responses, 2 resets, 1 failure, 2 requests at a time, log of 1 line; 400,219 states | the properties below |
| `observe_only` | as `nonstream_guard` | finding: a match only "observed" is blocked |
| `endpoint_scope` | as `nonstream_guard` | finding: `endpoints` does not limit inspection |
| `empty_retry` | as `nonstream_guard`, and bodies can be empty | finding: an empty retry restores the suspicious original |
| `half_stream` | as `stream_guard` | finding: a replay after part of a stream was sent |
| `cut_replay` | as `stream_guard`, with retried streams cut inside a line | finding: a suspicious replay that no verdict saw whole |

*Why the bounds are enough.* Responses interact only through the configuration
and the counters, so two show every interaction of a pair. A budget of 2 is the
least with a first, a middle and a last attempt; 1 and 0 are its boundaries.
The bodies cover unreadable, silent, suspicious, and two counts that disagree.
The configurations differ in budget, allow list, match mode, interception switch,
stream action and logging, and are replaced at any moment, so also between any two steps of
a handler. Streams of two chunks have a first chunk and a later one, which is
all the code distinguishes (`ChunkIndex > 0`); with two payloads a retried
stream can be harmless first and suspicious last. One stream suffices because
streams share nothing but the configuration, already replaced freely, and
counters nothing reads. `Reconfigure` is unbounded: the state space is finite
without a bound on it. Both guards stop when all responses are answered, but
`Reconfigure` stays enabled, so deadlock checking stays on.

`Metrics` is checked in two instances because a reset followed by its snapshot is
twenty steps that interleave with everything. Polling takes two handlers, for the
order of their lines, and a replay that logs two of them, so that one is more than
the log holds. Resetting takes one
call that is counted, or captures a profile, before, during or after the reset,
and a second client that reads meanwhile. The limit of the log, 100 in the code,
is 2 and 1. There, every client is served and every call made in the end, so
deadlock checking is off.

A request needs only one stream here as well. Its kinds have the model known at
once, late, under another name and not at all, paths that are listed, not listed
and missing; its bodies every form `stream_options` can have and none that can be
read. A null body is streaming or not, under the default configuration and under
one that does not ask for usage. A POST is three steps after it is given its instance, so three calls have
every order of an edit, a document in the middle of it and a second edit or
document; two instances have calls that outlive theirs. Each thread makes one
call and a crash ends everything, so deadlock checking is off. The page has two
resets for one of its own whose reply is lost and another after or beside it, and
two responses, before and after a render.

Properties of `nonstream_guard`:

- `RetryBudget`: host calls never exceed the grant, and calls made plus attempts left equal it.
- `NoSuspiciousPass`: a body the handler returns is not suspicious under its configuration.
- `BlockedOnlyAfterExhaustion`: with interception on, a block comes after every granted retry, each suspicious.
- `LogTellsTheTruth`: what the last line written for a finished response says of its outcome. A pass, a block or an observation is always the final verdict's. A line that announces a retry promises that it was made; unless a later verdict was muted (`log_match` switched off since), that retry failed or brought a body that is unreadable or reports nothing, and the number printed is the one that was left. `action` is the last line: a verdict that writes none leaves it.
- `Accounting`: the four counters are the sums over every body taken up, in every state.
- `EveryRequestAnswered`: each response is answered.
- `ImplementsContract`: the guard refines `GuardContract`, liveness included.

Properties of `stream_guard`:

- `StreamRetryBudget`: the same budget, for each chunk and across the three counts of it.
- `NoSuspiciousStream`: nothing suspicious is sent that the handler of that chunk judged.
- `RetryBeforeAnyOutput`: as long as the configuration stays, no replay follows output of the original.
- `HostStreamsClosed`: host streams are open exactly while they are read, one at a time.
- `AttemptsAccounted`: attempts without an inspection are those under way or failed by the host.
- `EveryStreamFinished`: each stream comes to its end.
- `ImplementsContract`: each chunk is treated as the contract says (its safety part).

Properties of `guarded_stream`:

- `NothingSuspiciousDelivered`: end to end, no chunk of the original that would report a suspicious count if asked reaches the client, although upstream says only what it is asked for. The premise (`Watched`) names what this rests on: the configuration stays, the stream's model is listed, the rewrite is on, the request streams on a listed path, and its body has options that are an object or missing.
- `RewrittenOnceAndLogged`: the two calls rewrite a body at most once, and log it when the first could.
- `JudgedWasProfiled`: a stream that is judged is one whose request was profiled.

Properties of `plugin`:

- `LatestDocumentInForce`: all fields follow the latest accepted document, but the two an edit has changed since; rejected documents and edits leave no trace. The exception (`reverted`) is an edit that loaded before the document came: the POST writes back everything, so the document is lost. The code takes no measure against it, and no text of the repository excludes it: the hazard is real, and no property here catches it.
- `EditAnsweredInForce`: an accepted POST is answered with its own values, normalised and in force, unless disturbed.
- `CrashOnlyUnderShutdownOrNull`: the process is lost only when the plugin is shut down between the two looks of a call, or to a streaming request whose body is `null` under a configuration that asks for usage.
- `EveryCallAnswered`: every call is answered or the process is gone.

Properties of `status_page`:

- `NeverBackwards`: nothing is rendered that is older, in either half, than what was rendered before.
- `RateIsTrue`: the activity is at most what was inspected between the two statuses compared, and that exactly if nobody reset the counter.
- `EventuallyCurrent`: once traffic has stopped the page comes to show what the server has, whatever failed.
- `ButtonsComeBack`: every refresh and every reset is over some time.

Properties of `metrics_poll` and `metrics_reset`:

- `CountsAddUp`: matches and blocks add up by kind, and nest, also between two additions, unless a handler was at work during the last reset.
- `LogComplete`: the log holds the last lines numbered, each once, each handler's in order.
- `SnapshotCountsItsLog`: a snapshot shows no more matches, of either transport, and no more passes of non-streaming responses than it counts. The pass lines of streams are excepted, because the inequality is false of them in the code: a replay logs one per reporting payload before it counts the stream as inspected, or without ever doing so if a read then fails.
- `ResetForgetsThePast`: whatever overlaps with a reset, nothing from before it began is left.

The exception in `CountsAddUp` is needed: a response counted while a reset is
under way loses some of its additions, and inspected can stay above total.

**Fairness.** Weak fairness of each response's or stream's own steps. The host
runs each call on a thread of its own, the handler waits for nothing but host
calls, and those return or fail by assumption. No fairness is assumed for
`Reconfigure`, and none between the ways a host call can end: the properties
hold if every retry is suspicious. That a retried stream ends is an assumption
(`MaxReads`), because the code reads until the host says it is done. In `Plugin`,
weak fairness of a call's own steps once it has entered: handlers wait for
nothing there. In `StatusPage`, weak fairness of the timer (it ticks every ten
seconds), of the server's answers and their delivery: the browser settles every
request in the end, which the script relies on since it sets no timeout. Failures
are bounded by `MaxFailures`, so a page that is refused for ever is not counted
against it; no button has to be pressed.

## Findings

The five `violation` runs each refute one sentence of the repository; the
counterexample is the finding. `PROJECT.json` quotes the sentences. `empty_retry`
rests on the host's treatment of a reply without a body, and holds for a retried
stream without a payload too: the runs of `StreamGuard` set `EmptyStreams` to
FALSE, and with TRUE its `NoSuspiciousStream` is violated by just that. `cut_replay` rests on payloads that can end inside
a line. `observe_only` needs only a configuration the validation accepts.

## Proofs

Each theorem is about the specification its runs check, for every value of the
constants the assumptions allow: any number of requests, streams, threads,
handlers or management requests, and any bodies, streams, documents and budgets.

| Module | Theorem | States |
| --- | --- | --- |
| `NonStreamGuardProofs` | `TypeOKHolds`, `RetryBudgetHolds`, `NoSuspiciousPassHolds`, `BlockedOnlyAfterExhaustionHolds`, `LogTellsTheTruthHolds`, `AccountingHolds` | the invariants of `nonstream_guard` |
| | `FormulaIsProgression` | formula mode finds suspicious exactly the numbers `518n - 2`, `n >= 1` |
| | `Implementation` | `Spec => Contract!Safety`, if no body is `Empty` |
| `StreamGuardProofs` | `TypeOKHolds`, `HostStreamsClosedHolds`, `StreamRetryBudgetHolds`, `RetryBeforeAnyOutputHolds`, `AttemptsAccountedHolds` | the invariants of `stream_guard` |
| | `NoSuspiciousStreamHolds` | `NoSuspiciousStream`, if payloads are whole (`Uncut`) |
| | `SentAsJudgedHolds` | what is sent of the original is what upstream sent there, judged by the configuration in force if that stayed |
| | `SentHarmlessHolds` | and it is not suspicious, if no retried stream is empty |
| | `Implementation` | `ImplementsContract`, if payloads are whole |
| `GuardedStreamProofs` | `TypeOKHolds`, `RewrittenOnceAndLoggedHolds`, `JudgedWasProfiledHolds` | the invariants of `guarded_stream` |
| | `NothingSuspiciousDeliveredHolds` | the end-to-end property, if no retried stream is empty |
| `PluginProofs` | `NormalizedIsStored` | validation applied twice is validation applied once |
| | `TypeOKHolds`, `LatestDocumentInForceHolds`, `EditAnsweredInForceHolds`, `CrashOnlyUnderShutdownOrNullHolds` | the invariants of `plugin` |
| `MetricsProofs` | `TypeCorrect`, `ResetForgetsThePastHolds`, `CountsAddUpHolds`, `LogCompleteHolds`, `SnapshotCountsItsLogHolds` | the invariants of `metrics_poll` and `metrics_reset` |
| `StatusPageProofs` | `TypeCorrect`, `NeverBackwardsHolds`, `RateIsTrueHolds` | the type invariant and both action properties of `status_page` |
| | `BusyHolds` | the buttons are disabled exactly while a request is out that enables them again |

**Assumptions.** The named `ASSUME`s, which TLC evaluates on the runs. Of the
configuration: trimming is idempotent and maps the names the code compares with
to themselves, as lower-casing does; the default endpoints are trimmed and not
empty (`GuardConfig`). Of what is inspected: `Absent` is no number, `Malformed`
and `Empty` no documents (`Inspection`). Of the guards: configurations are ones
the plugin can publish, bodies and streams are made of documents and lines, a
stream has a chunk; a budget of the configurations is the largest and a stream
the longest, which the contract's bounds are chosen from (`GrantsAssumption`,
`StreamGrantsAssumption`, `LengthsAssumption`, in `GuardedStream` all in
`GuardedAssumption`): budgets are ints, so this loses nothing. Of `Plugin`: calls
are calls. Of `Metrics`: the handlers are finitely many, replays are of streams and
only they pass payloads before a verdict. Of `StatusPage`: the bounds are numbers.

**Hypotheses.** Three theorems hold only without a defect the findings have, and
say so: `Empty \notin Bodies` in `Implementation` of `NonStreamGuardProofs`
(`empty_retry` violates the contract's promise with it); `Uncut`, that payloads
of retried streams hold no half lines and no retried stream is empty, in
`NoSuspiciousStreamHolds` and the other `Implementation` (`cut_replay` is what a
half line does); `EmptyStreams = FALSE`, the second part of `Uncut`, in
`SentHarmlessHolds` and `NothingSuspiciousDeliveredHolds`. The last two allow
half lines: what is sent of the *original* was judged as it was sent.

**The non-streaming guard.** None of the properties is inductive: a body passed is
harmless only because the verdict was made with the budget that was really left.
`IInv` ties them together, one conjunct per place a handler can be. While a
verdict stands (`JudgedInv`) it is the inspector's verdict on the body at hand
with the attempts left, calls and attempts left add up to the grant, and all
earlier bodies were suspicious; while the host is called (`CallingInv`) the sum is
one more. `LineInv` says that the last line of a running handler announces a retry
that was made, and prints the attempts left unless a verdict since was muted;
`LineDone` what it says in the end. `TypeInv` adds to the typing that a call is
only made with attempts left, without which the budget could become
negative. `InspectFacts` is what the proof uses of the inspector,
`StoredConfigFacts` what it uses of the validation (a status code is never zero,
so a verdict that is suspicious always retries or blocks). `ArrivalSafe`,
`VerdictSafe` and `RetrySafe` treat the actions of one handler, `OthersUntouched`
and `Frame` the other responses. `Accounting` is about the cardinality of a set
that grows by one element with each step that counts (`AccountInv`).

**The stream guard.** `PlaceInv` says that a stream that is not done has a chunk
left to show, and exactly when a host stream is open; `RoundInv` how rounds begun,
attempts left and the way a round ended hang together, and that the verdict at
hand is the inspector's; `SteadyInv` ties what header init had buffered to the
configuration as long as that stays. `Clean` adds that what has been kept of a
retried stream is harmless as a whole: the last report of joined payloads is the
last report of one of them (`JoinHarmless`), which is false of lines that payloads
cut, hence `Uncut`. `AttemptInv` makes `AttemptsAccounted` a set with one element
per stream that owes an inspection. For both refinements the mapping gives every
chunk or response a slot of its own; each action is shown to take up, retry or
settle one slot, or none, and to leave the others as they are (`StepMapped`).

**A guarded request.** `GuardedStream` uses `StreamGuard` as an instance over the
sources and their muted forms, and so do its proofs use `StreamGuardProofs`: the
guard's invariant is not proved again. The `Same...` lemmas show that the two
instances define alike what the proof carries from one to the other, `Assumed`
that the assumptions of `StreamGuard` hold of the enlarged sources, and
`GuardUpstream` that exchanging a stream before the guard has seen any of it keeps
the guard's invariant. The request's part of `IInv` says what the two calls agree
on. The subtle conjunct is in `ConstantInv`: a request that was logged and whose
first call is over need not be rewritten again under the same configuration,
although the second call has another model name, because the rewrite does not
look at the name; from it follows that the second call never makes the silent
rewrite unless the first could not.

**Plugin.** `InForce` is the property with what it rests on: each POST that has
loaded the configuration carries the latest document's fields, but those an edit
changes, or it is stale. That validation changes nothing of what is valid
(`NormalizedIsStored`) makes the copy a POST writes back the same document.
`DoorInv` is about the two looks at the global state, and what a lost process was
doing; it stays as it was then (`CrashIsFinal`).

**Metrics.** One invariant for all properties, because they hold at different
moments: `ForgetInv` and `ResetInv` say what of a reset is done and what the
atomics still to visit hide, `SumsInv` that a counter together with what
handlers have still to add equals its parts, and nests in its superset, `LogInv`
how the ring and the lines being appended fill the numbers drawn, and `CreditInv`
that each line in the ring that `SnapshotCountsItsLog` speaks of has been counted. `SnapInv` relates what a
snapshot has copied of the log to the counters it has still to load: it reads
counters after the log, and handlers log these verdicts after they count them, so
the order of the two is what the property needs. Handlers are a finite set, so that what they owe
is a number.

**The status page.** Answers are ordered in time (`Precedes`, `LogsPrecede`).
`IInv` places every answer on its way between what the page shows and what the
server has, and has one request of the page's own at most: with two out, the
older answer could come last. That is `refreshing`, and `BusyHolds` is the safety
half of `ButtonsComeBack`.

**Induction over data.** Two proofs need what a recursive function computes for
every sequence: that joining payloads (`FlattenSeq`) gives lines, and that the
joined payloads with one more are the join followed by that one. `SequenceLemmas`
derives both from the well-foundedness of the numbers, with sets of numbers in
the place of predicates, since the library's induction rules take an operator.

## Only model-checked

What is left to TLC is liveness, which is outside the prover's reach:
`EveryRequestAnswered`, `EveryStreamFinished`, `EveryCallAnswered`,
`EventuallyCurrent`, `ButtonsComeBack`, and the liveness part of `GuardContract`,
which `ImplementsContract` of `nonstream_guard` includes (`Implementation` proves
the rest of it). `GuardContract`, `GuardConfig`, `Inspection` and
`RequestIntercept` have no runs of their own: they are checked through the modules
that use them.

## Not modelled

YAML and JSON syntax, the wording of bodies, headers and log lines; which headers
of a request its profile keeps; the registration table and envelopes; the layout
of the status page, its row limit and the key it sends; the C boundary's buffers.
`state.CallHost` is never nil after `cliproxy_plugin_init`, so the tests for it
are left out. Log lines of the stream guard are left out, but for the order in which
a replay logs and counts, which `Metrics` has; and of the chunks of a
stream that is not buffered no property puts together what a cut line says. A
request body that is JSON `null` is none of the bodies in `GuardedStream`: what it
does is in `Plugin`, and there is no stream after it. An `execute_stream` result
that does not decode (`interceptors.go:459-461`) is taken as a failed open: if the
host did open a stream for it, nothing closes that one, and the model has no such
stream. `Enabled` is shown on the page and read by no handler; what the
host does with it is not known here.

## Plan

1. Deadlock freedom of the guards as an invariant (a handler that is not done has
   an enabled step) in terms of guards instead of ENABLED, which is what their
   liveness rests on.
2. That the first of the two guards' contracts also holds with empty bodies for
   the requests whose retries are never empty.
3. Larger instances: a second stream, and a second request beside it.
