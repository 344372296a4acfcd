------------------------------- MODULE Metrics -------------------------------
(****************************************************************************)
(* The runtime counters and the log (internal/runtime/metrics.go), used by  *)
(* handlers and by the management routes that read and reset them           *)
(* (internal/management/http.go), all at the same time.                     *)
(*                                                                          *)
(* Nine atomics are added to, loaded and stored one at a time; log and      *)
(* request profile are under a mutex, so what is done while it is held is   *)
(* one step.  Every operation is as many steps as it has accesses.          *)
(*                                                                          *)
(* A handler makes the calls the bridge makes, in the bridge's order: for a *)
(* request, capture its profile and log it (the second line of a rewritten  *)
(* request is left out, it is one more of these); for a response, count and *)
(* then log it; for a replayed stream, count the attempt, log a line for    *)
(* every payload that passes, and only then count what was inspected.  A    *)
(* retry is another task of the same handler.                               *)
(****************************************************************************)
EXTENDS Integers, Sequences, FiniteSets

CONSTANTS Handlers,       \* threads of the host running handlers
          Managers,       \* management requests, each on its own thread
          Routes,         \* what each of them may ask for
          Tasks,          \* what a handler is called for
          MaxLogEntries,
          MaxTasks        \* bound: handler calls

\* A lost response is counted as an attempt, no more: the inspector cannot read
\* it, or the replay of the stream fails.  passes are the payloads of a replay
\* that report a count and pass before it matches, ends or fails.
Task == [kind : {"request", "response", "replay"},
         matched : BOOLEAN, stream : BOOLEAN, blocked : BOOLEAN, lost : BOOLEAN, passes : Nat]

ASSUME HandlersAssumption == IsFiniteSet(Handlers)
ASSUME TasksAssumption    == /\ Tasks \subseteq Task
                             /\ \A t \in Tasks : IF t.kind = "replay" THEN t.stream ELSE t.passes = 0
ASSUME RoutesAssumption   == Routes \in [Managers -> SUBSET {"reset", "snapshot"}]
ASSUME LogAssumption      == MaxLogEntries \in Nat \ {0}
ASSUME BoundAssumption    == MaxTasks \in Nat

VARIABLES atomics,        \* the nine atomic.Int64
          logEntries, profile,
          work,           \* what is left of a handler's call: atomics to add to, lines to log
          entry,          \* the line it is appending
          mpc,            \* where a management request is
          sweep,          \* atomics its reset or snapshot has still to visit
          snapshot,
          begun,          \* bounded: handler calls so far
          since,          \* history: what was done since the last reset began
          torn,           \* history: the last reset overlapped with a handler
          excused         \* history: a reset came into the snapshot, or was torn before it

handlerVars == <<work, entry>>
managerVars == <<mpc, sweep, snapshot, excused>>
vars == <<atomics, logEntries, profile, handlerVars, managerVars, begun, since, torn>>

Counters == <<"total", "inspected", "matched", "blocked", "matchedStreaming",
              "matchedNonStreaming", "blockedStreaming", "blockedNonStreaming">>
Counter  == {Counters[i] : i \in 1..8}

\* A bug it must not have: a counter that Reset forgets.
Bug_ResetForgetsOne == SelectSeq(Append(Counters, "nextLogSeq"), LAMBDA c : c # "matchedNonStreaming")

\* Reset visits the counters and the sequence number, a snapshot the counters.
ResetOrder == Append(Counters, "nextLogSeq")

LineText == {"request", "match stream", "match non-stream", "inspect stream", "inspect non-stream"}
LogEntry == [by : Handlers, seq : Nat, text : LineText]
NoEntry  == [seq |-> 0]
Deeds    == Counter \cup {"nextLogSeq", "appended", "captured"}
NoSnapshot == [log |-> <<>>, counters |-> [c \in Counter |-> 0]]

TypeOK ==
    /\ atomics    \in [Counter \cup {"nextLogSeq"} -> Nat]
    /\ logEntries \in Seq(LogEntry) /\ Len(logEntries) <= MaxLogEntries
    /\ profile    \in {"none", "captured"}
    /\ work       \in [Handlers -> Seq(Counter \cup LineText)]
    /\ entry      \in [Handlers -> LogEntry \cup {NoEntry}]
    /\ mpc        \in [Managers -> {"idle", "resetting", "copying", "loading", "served"}]
    /\ sweep      \in [Managers -> Seq(Counter \cup {"nextLogSeq"})]
    /\ snapshot   \in [Managers -> [log : Seq(LogEntry), counters : [Counter -> Nat]]]
    /\ begun      \in 0..MaxTasks
    /\ since      \in [Deeds -> Nat]
    /\ torn       \in BOOLEAN
    /\ excused    \in [Managers -> BOOLEAN]

Init ==
    /\ atomics    = [c \in Counter \cup {"nextLogSeq"} |-> 0]
    /\ logEntries = <<>>
    /\ profile    = "none"
    /\ work       = [h \in Handlers |-> <<>>]
    /\ entry      = [h \in Handlers |-> NoEntry]
    /\ mpc        = [g \in Managers |-> "idle"]
    /\ sweep      = [g \in Managers |-> <<>>]
    /\ snapshot   = [g \in Managers |-> NoSnapshot]
    /\ begun      = 0
    /\ since      = [d \in Deeds |-> 0]
    /\ torn       = FALSE
    /\ excused    = [g \in Managers |-> FALSE]

-----------------------------------------------------------------------------
(* The handlers' calls, in order: the atomics each adds one to, and lines.  *)

RecordProxyAttempt == <<"total">>

\* A bug it must not have: a streaming match goes on to be counted as both.
Bug_CountsBothKinds(matched, stream) ==
    IF ~matched THEN <<"inspected">>
    ELSE IF stream THEN <<"inspected", "matched", "matchedStreaming", "matchedNonStreaming">>
    ELSE <<"inspected", "matched", "matchedNonStreaming">>

RecordInspectedResponse(matched, stream) ==
    IF ~matched THEN <<"inspected">>
    ELSE <<"inspected", "matched", IF stream THEN "matchedStreaming" ELSE "matchedNonStreaming">>

RecordBlockedResponse(stream) ==
    <<"blocked", IF stream THEN "blockedStreaming" ELSE "blockedNonStreaming">>

MatchLine(stream)   == IF stream THEN "match stream" ELSE "match non-stream"
InspectLine(stream) == IF stream THEN "inspect stream" ELSE "inspect non-stream"

\* logMatch or logInspect after counting; the passes of a replay had theirs.
VerdictLines(t) ==
    IF t.matched THEN <<MatchLine(t.stream)>>
    ELSE IF t.kind = "response" THEN <<InspectLine(t.stream)>> ELSE <<>>

Verdict(t) ==
    RecordInspectedResponse(t.matched, t.stream)
        \o (IF t.matched /\ t.blocked THEN RecordBlockedResponse(t.stream) ELSE <<>>)
        \o VerdictLines(t)

\* A bug it must not have: the verdict is logged before it is counted.
Bug_LogsFirst(t) ==
    IF t.kind = "request" THEN <<"request">>
    ELSE RecordProxyAttempt
            \o [i \in 1..t.passes |-> InspectLine(t.stream)]
            \o (IF t.lost THEN <<>>
                ELSE VerdictLines(t) \o RecordInspectedResponse(t.matched, t.stream))

Calls(t) ==
    IF t.kind = "request" THEN <<"request">>
    ELSE RecordProxyAttempt
            \o [i \in 1..t.passes |-> InspectLine(t.stream)]
            \o (IF t.lost THEN <<>> ELSE Verdict(t))

Resetting == \E g \in Managers : mpc[g] = "resetting"

\* Bookkeeping of a handler's step: what was done, and whether a reset was on.
Did(deeds) ==
    /\ since' = [d \in Deeds |-> since[d] + (IF d \in deeds THEN 1 ELSE 0)]
    /\ torn'  = (torn \/ Resetting)

\* A handler is called for a response, or for a request whose profile it
\* captures (SetRequestProfile, under the mutex).
Begin(h, t) ==
    /\ work[h] = <<>>
    /\ begun < MaxTasks
    /\ begun' = begun + 1
    /\ work'  = [work EXCEPT ![h] = Calls(t)]
    /\ profile' = IF t.kind = "request" THEN "captured" ELSE profile
    /\ Did(IF t.kind = "request" THEN {"captured"} ELSE {})
    /\ UNCHANGED <<atomics, logEntries, entry, managerVars>>

Adds(h) == work[h] # <<>> /\ Head(work[h]) \in Counter
Logs(h) == work[h] # <<>> /\ Head(work[h]) \in LineText

Add(h) ==
    /\ Adds(h)
    /\ atomics' = [atomics EXCEPT ![Head(work[h])] = @ + 1]
    /\ work'    = [work EXCEPT ![h] = Tail(@)]
    /\ Did({Head(work[h])})
    /\ UNCHANGED <<logEntries, profile, entry, managerVars, begun>>

\* AppendLog, first half: the sequence number is drawn outside the mutex.
DrawSeq(h) ==
    /\ Logs(h) /\ entry[h] = NoEntry
    /\ atomics' = [atomics EXCEPT !["nextLogSeq"] = @ + 1]
    /\ entry'   = [entry EXCEPT ![h] =
                     [by |-> h, seq |-> atomics["nextLogSeq"] + 1, text |-> Head(work[h])]]
    /\ Did({"nextLogSeq"})
    /\ UNCHANGED <<logEntries, profile, work, managerVars, begun>>

\* A bug it must not have: room is made before appending, one entry too many.
Bug_TrimsEarly(log, e) ==
    Append(IF Len(log) + 1 >= MaxLogEntries THEN Tail(log) ELSE log, e)

\* A bug it must not have: the log is cut one line too late.
Bug_TrimsLate(log, e) ==
    LET longer == Append(log, e)
    IN  IF Len(longer) > MaxLogEntries + 1 THEN Tail(longer) ELSE longer

Appended(log, e) ==
    LET longer == Append(log, e)
    IN  IF Len(longer) > MaxLogEntries
        THEN SubSeq(longer, Len(longer) - MaxLogEntries + 1, Len(longer))
        ELSE longer

\* Second half, under the mutex; the call goes on.
AppendEntry(h) ==
    /\ entry[h] # NoEntry
    /\ logEntries' = Appended(logEntries, entry[h])
    /\ entry' = [entry EXCEPT ![h] = NoEntry]
    /\ work'  = [work EXCEPT ![h] = Tail(@)]
    /\ Did({"appended"})
    /\ UNCHANGED <<atomics, profile, managerVars, begun>>

\* The line is not written: log_match is off, the verdict reports nothing, or
\* the request is shown a second time.
SkipLog(h) ==
    /\ Logs(h) /\ entry[h] = NoEntry
    /\ work' = [work EXCEPT ![h] = Tail(@)]
    /\ Did({})
    /\ UNCHANGED <<atomics, logEntries, profile, entry, managerVars, begun>>

-----------------------------------------------------------------------------
(* The management routes: reset is Reset and then Snapshot, the others are  *)
(* Snapshot alone.                                                          *)

Busy == \E h \in Handlers : work[h] # <<>>

StartReset(g) ==
    /\ "reset" \in Routes[g]
    /\ mpc[g] = "idle"
    /\ mpc'   = [mpc EXCEPT ![g] = "resetting"]
    /\ sweep' = [sweep EXCEPT ![g] = ResetOrder]
    /\ excused' = [f \in Managers |-> excused[f] \/ mpc[f] \in {"copying", "loading"}]
    /\ since' = [d \in Deeds |-> 0]
    /\ torn'  = Busy
    /\ UNCHANGED <<atomics, logEntries, profile, handlerVars, snapshot, begun>>

Zero(g) ==
    /\ mpc[g] = "resetting" /\ sweep[g] # <<>>
    /\ atomics' = [atomics EXCEPT ![Head(sweep[g])] = 0]
    /\ sweep'   = [sweep EXCEPT ![g] = Tail(@)]
    /\ UNCHANGED <<logEntries, profile, handlerVars, mpc, snapshot, excused, begun, since, torn>>

\* A bug it must not have: the profile, of a request long past, is kept.
Bug_KeepsProfile(g) ==
    /\ mpc[g] = "resetting" /\ sweep[g] = <<>>
    /\ logEntries' = <<>>
    /\ mpc'     = [mpc EXCEPT ![g] = "copying"]
    /\ excused' = [excused EXCEPT ![g] = torn \/ \E f \in Managers \ {g} : mpc[f] = "resetting"]
    /\ UNCHANGED <<atomics, profile, handlerVars, sweep, snapshot, begun, since, torn>>

\* The last part of Reset, under the mutex; the route goes on to Snapshot.
ClearLog(g) ==
    /\ mpc[g] = "resetting" /\ sweep[g] = <<>>
    /\ logEntries' = <<>>
    /\ profile' = "none"
    /\ mpc'     = [mpc EXCEPT ![g] = "copying"]
    /\ excused' = [excused EXCEPT ![g] = torn \/ \E f \in Managers \ {g} : mpc[f] = "resetting"]
    /\ UNCHANGED <<atomics, handlerVars, sweep, snapshot, begun, since, torn>>

Poll(g) ==
    /\ "snapshot" \in Routes[g]
    /\ mpc[g] = "idle"
    /\ mpc'   = [mpc EXCEPT ![g] = "copying"]
    /\ excused' = [excused EXCEPT ![g] = torn \/ Resetting]
    /\ UNCHANGED <<atomics, logEntries, profile, handlerVars, sweep, snapshot, begun, since, torn>>

\* Snapshot: the log is copied under the mutex, then the counters are loaded.
CopyLog(g) ==
    /\ mpc[g] = "copying"
    /\ snapshot' = [snapshot EXCEPT ![g].log = logEntries]
    /\ sweep'    = [sweep EXCEPT ![g] = Counters]
    /\ mpc'      = [mpc EXCEPT ![g] = "loading"]
    /\ UNCHANGED <<atomics, logEntries, profile, handlerVars, excused, begun, since, torn>>

\* A bug it must not have: the log is copied after the counters were loaded.
Bug_LogLast(g) ==
    /\ mpc[g] = "loading" /\ sweep[g] # <<>>
    /\ snapshot' = [snapshot EXCEPT ![g].counters[Head(sweep[g])] = atomics[Head(sweep[g])],
                                   ![g].log = logEntries]
    /\ sweep'    = [sweep EXCEPT ![g] = Tail(@)]
    /\ mpc'      = [mpc EXCEPT ![g] = IF Len(sweep[g]) = 1 THEN "served" ELSE "loading"]
    /\ UNCHANGED <<atomics, logEntries, profile, handlerVars, excused, begun, since, torn>>

Load(g) ==
    /\ mpc[g] = "loading" /\ sweep[g] # <<>>
    /\ snapshot' = [snapshot EXCEPT ![g].counters[Head(sweep[g])] = atomics[Head(sweep[g])]]
    /\ sweep'    = [sweep EXCEPT ![g] = Tail(@)]
    /\ mpc'      = [mpc EXCEPT ![g] = IF Len(sweep[g]) = 1 THEN "served" ELSE "loading"]
    /\ UNCHANGED <<atomics, logEntries, profile, handlerVars, excused, begun, since, torn>>

Handle(h) ==
    \/ \E t \in Tasks : Begin(h, t)
    \/ Add(h) \/ DrawSeq(h) \/ AppendEntry(h) \/ SkipLog(h)

Manage(g) ==
    StartReset(g) \/ Zero(g) \/ ClearLog(g) \/ Poll(g) \/ CopyLog(g) \/ Load(g)

Next == (\E h \in Handlers : Handle(h)) \/ (\E g \in Managers : Manage(g))

Spec == Init /\ [][Next]_vars

-----------------------------------------------------------------------------
(* Properties.                                                              *)

\* The number of handlers that have still to add to one of these counters.
Owing(counters) == Cardinality({h \in Handlers : \E i \in DOMAIN work[h] : work[h][i] \in counters})

Lines(log, texts) == Cardinality({i \in DOMAIN log : log[i].text \in texts})

Nested(n) == n["blocked"] <= n["matched"] /\ n["matched"] <= n["inspected"] /\ n["inspected"] <= n["total"]

\* Unless the last reset overlapped with a handler, every match and block is
\* of one kind and counted under it, also while handlers are between two
\* additions (metrics.go:87-113), and the counters nest as the rates of the
\* status page assume.
CountsAddUp ==
    ~torn /\ ~Resetting =>
        /\ atomics["matched"] + Owing({"matched"}) = atomics["matchedStreaming"]
              + atomics["matchedNonStreaming"] + Owing({"matchedStreaming", "matchedNonStreaming"})
        /\ atomics["blocked"] + Owing({"blocked"}) = atomics["blockedStreaming"]
              + atomics["blockedNonStreaming"] + Owing({"blockedStreaming", "blockedNonStreaming"})
        /\ Nested(atomics)

\* Whatever overlaps with it, a finished reset leaves nothing of the time before
\* it began: no count, no sequence number, no line, no profile
\* (metrics.go:115-132 clears them in ten steps).
ResetForgetsThePast ==
    ~Resetting =>
        /\ \A c \in DOMAIN atomics : atomics[c] <= since[c]
        /\ Len(logEntries) <= since["appended"]
        /\ profile = "captured" => since["captured"] > 0

\* The log misses no line: unless the last reset overlapped with a handler it
\* holds as many as were drawn, but for those on their way and those the limit
\* pushed out; each number once; and each handler's own lines in order
\* (metrics.go:138-147 draws the number before it takes the mutex).
LogComplete ==
    ~torn /\ ~Resetting =>
        LET drawn == atomics["nextLogSeq"] - Cardinality({h \in Handlers : entry[h] # NoEntry})
        IN  /\ Len(logEntries) = IF drawn < MaxLogEntries THEN drawn ELSE MaxLogEntries
            /\ \A i, j \in DOMAIN logEntries : i < j =>
                  /\ logEntries[i].seq # logEntries[j].seq
                  /\ logEntries[i].by = logEntries[j].by => logEntries[i].seq < logEntries[j].seq

\* The verdicts that are counted before they are logged: all matches, and the
\* passes of non-streaming responses.
Matches   == {"match stream", "match non-stream"}
Inspected == Matches \cup {"inspect non-stream"}

\* A snapshot shows no more lines of these verdicts than it counts, kind by
\* kind: the log is copied before the counters are loaded
\* (metrics.go:62-77), unless a reset comes between or was torn before.  The
\* pass lines of streams are no part of it: a replay writes one for every
\* payload that passes, before it counts the stream as inspected once, or
\* never if it then fails (interceptors.go:502-504, 539-542), and a stream's
\* own pass line reads the same.
SnapshotCountsItsLog ==
    \A g \in Managers : mpc[g] = "served" /\ ~excused[g] =>
        LET shown == snapshot[g]
        IN  /\ Lines(shown.log, {"match stream"}) <= shown.counters["matchedStreaming"]
            /\ Lines(shown.log, {"match non-stream"}) <= shown.counters["matchedNonStreaming"]
            /\ Lines(shown.log, Matches) <= shown.counters["matched"]
            /\ Lines(shown.log, Inspected) <= shown.counters["inspected"]
            /\ Lines(shown.log, Inspected) <= shown.counters["total"]
=============================================================================
