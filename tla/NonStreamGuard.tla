---------------------------- MODULE NonStreamGuard ---------------------------
(****************************************************************************)
(* The guard of non-streaming responses: handleNonStreamIntercept of        *)
(* internal/bridge/interceptors.go, run by the host concurrently for many   *)
(* responses, against one published configuration that other host calls     *)
(* replace, and the counters all handlers share.                            *)
(*                                                                          *)
(* The handler of one response is split where another thread or the host    *)
(* can come between: after the configuration is loaded and the body judged  *)
(* (logging loads the configuration again), and around every call into the  *)
(* host.  Counters are atomic increments nothing here reads, so a step      *)
(* makes several of them at once.  The host is external: a model execution  *)
(* returns any body, fails, or answers with something that does not decode. *)
(*                                                                          *)
(* state.CallHost is never nil (cliproxy_plugin_init sets it), so the       *)
(* test for it is left out.                                                 *)
(****************************************************************************)
EXTENDS Inspection, FiniteSets

CONSTANTS Requests,      \* the responses the host shows the guard
          ReqModel,      \* the model that produced each one (req.Model)
          ReqPath,       \* the request path of each (requestPath(...))
          Bodies,        \* bodies the upstream can answer with
          Configs        \* configurations that can be published

ASSUME RequestsAssumption ==
    /\ ReqModel \in [Requests -> Names]
    /\ ReqPath  \in [Requests -> Names]

ASSUME BodiesAssumption  == Bodies \subseteq Document \cup {Malformed, Empty}
ASSUME ConfigsAssumption == Configs \subseteq StoredConfig

\* One of them is in force, and their budgets, which are ints, have a maximum.
ASSUME GrantsAssumption ==
    \E c \in Configs : \A d \in Configs : d.GuardRetryAttempts <= c.GuardRetryAttempts

VARIABLES config,    \* State.config, the published configuration
          pc,        \* where the handler of a request is
          cfg,       \* the handler's copy of the configuration
          body,      \* the body under judgement: req.Body, then hostResp.Body
          left,      \* attemptsRemaining
          verdict,   \* decision, then nextDecision
          calls,     \* host.model.execute calls made
          action,    \* the action of its last log line, "none" before the first
          reply,     \* what the handler returned to the host
          metrics,   \* the counters of runtime.Metrics
          seen,      \* history: the bodies taken up, in order
          muted      \* history: its last verdict that had a line was not logged

vars == <<config, pc, cfg, body, left, verdict, calls, action, reply, metrics, seen, muted>>

Pc     == {"arrived", "judged", "calling", "done"}
Reply  == {"none", "untouched", "original", "retried", "blocked",
           "inspect_failed", "host_retry_failed", "host_retry_decode_failed"}
Counter == {"total", "inspected", "matched", "blocked"}

\* A log line's action, with the number it prints.
NoLine           == [text |-> "none", remaining |-> 0]
Line(text)       == [text |-> text, remaining |-> 0]
RetryLine(n)     == [text |-> "internal_retry", remaining |-> n]
LogLine == [text : {"none", "pass", "observe_only", "internal_retry", "return_status"},
            remaining : Nat]

NoVerdict == [Matched |-> FALSE, Retry |-> FALSE, StatusCode |-> 0, ReasoningFound |-> FALSE]

TypeOK ==
    /\ config  \in Configs
    /\ pc      \in [Requests -> Pc]
    /\ cfg     \in [Requests -> Configs]
    /\ body    \in [Requests -> Bodies]
    /\ left    \in [Requests -> Nat]
    /\ verdict \in [Requests -> NonStreamDecision]
    /\ calls   \in [Requests -> Nat]
    /\ action  \in [Requests -> LogLine]
    /\ reply   \in [Requests -> Reply]
    /\ metrics \in [Counter -> Nat]
    /\ seen    \in [Requests -> Seq(Bodies)]
    /\ muted   \in [Requests -> BOOLEAN]

\* Before its handler runs a request's locals mean nothing; cfg and left get
\* the values of a handler that has just loaded the configuration.
Init ==
    /\ config  \in Configs
    /\ pc      = [r \in Requests |-> "arrived"]
    /\ cfg     = [r \in Requests |-> config]
    /\ body    \in [Requests -> Bodies]
    /\ left    = [r \in Requests |-> 0]
    /\ verdict = [r \in Requests |-> NoVerdict]
    /\ calls   = [r \in Requests |-> 0]
    /\ action  = [r \in Requests |-> NoLine]
    /\ reply   = [r \in Requests |-> "none"]
    /\ metrics = [m \in Counter |-> 0]
    /\ seen    = [r \in Requests |-> <<>>]
    /\ muted   = [r \in Requests |-> FALSE]

-----------------------------------------------------------------------------
(* runtime.Metrics: RecordProxyAttempt, RecordInspectedResponse and         *)
(* RecordBlockedResponse, as one step of a handler makes them.              *)

Count(counted) == metrics' = [m \in Counter |-> metrics[m] + (IF m \in counted THEN 1 ELSE 0)]

\* A bug it must not have: blocks are counted with interception off as well.
Bug_CountsUnblocked(c, v) ==
    {"total", "inspected"} \cup (IF v.Matched THEN {"matched", "blocked"} ELSE {})

\* What judging one body counts: the first body and a retried one alike.
JudgedCounts(c, v) ==
    {"total", "inspected"}
        \cup (IF v.Matched THEN {"matched"} ELSE {})
        \cup (IF v.Matched /\ c.InterceptNonStreaming THEN {"blocked"} ELSE {})

-----------------------------------------------------------------------------
(* The handler.                                                             *)

Return(r, what) ==
    /\ pc'    = [pc EXCEPT ![r] = "done"]
    /\ reply' = [reply EXCEPT ![r] = what]

\* A bug it must not have: the inspector is given the budget of the attempt
\* before, as if max(0, attemptsRemaining-1) were attemptsRemaining.
Bug_StaleBudget(r, c, b, n) ==
    LET v == InspectNonStream(c, b, n + 1)
    IN  /\ verdict' = [verdict EXCEPT ![r] = v]
        /\ left'    = [left EXCEPT ![r] = n]
        /\ pc'      = [pc EXCEPT ![r] = "judged"]
        /\ Count(JudgedCounts(c, v))

\* Body b is judged with a budget of n retries; the verdict is then logged.
Judge(r, c, b, n) ==
    LET v == InspectNonStream(c, b, n)
    IN  /\ verdict' = [verdict EXCEPT ![r] = v]
        /\ left'    = [left EXCEPT ![r] = n]
        /\ pc'      = [pc EXCEPT ![r] = "judged"]
        /\ Count(JudgedCounts(c, v))

\* The model is not on the allow list: an empty response, nothing counted.
Skip(r) ==
    /\ pc[r] = "arrived"
    /\ ~modelMatches(config, ReqModel[r])
    /\ Return(r, "untouched")
    /\ UNCHANGED <<config, cfg, body, left, verdict, calls, action, metrics, seen, muted>>

\* The body is not JSON: counted as an attempt, answered with an error.
Reject(r) ==
    /\ pc[r] = "arrived"
    /\ modelMatches(config, ReqModel[r])
    /\ ~Readable(body[r])
    /\ cfg' = [cfg EXCEPT ![r] = config]
    /\ Count({"total"})
    /\ seen' = [seen EXCEPT ![r] = Append(@, body[r])]
    /\ Return(r, "inspect_failed")
    /\ UNCHANGED <<config, body, left, verdict, calls, action, muted>>

\* The configuration is loaded once for the whole handler; the first verdict.
Inspect(r) ==
    /\ pc[r] = "arrived"
    /\ modelMatches(config, ReqModel[r])
    /\ Readable(body[r])
    /\ cfg' = [cfg EXCEPT ![r] = config]
    /\ seen' = [seen EXCEPT ![r] = Append(@, body[r])]
    /\ Judge(r, config, body[r], config.GuardRetryAttempts)
    /\ UNCHANGED <<config, body, calls, action, reply, muted>>

\* A bug it must not have: the line prints the retries left after the next.
Bug_LineCountsNextRetry(r) ==
    IF ~verdict[r].Matched THEN Line("pass")
    ELSE IF ~cfg[r].InterceptNonStreaming THEN Line("observe_only")
    ELSE IF verdict[r].Retry /\ left[r] > 0 THEN RetryLine(left[r] - 1)
    ELSE Line("return_status")

\* What logMatch or logInspect says, by the handler's copy of the configuration.
VerdictLine(r) ==
    IF ~verdict[r].Matched THEN Line("pass")
    ELSE IF ~cfg[r].InterceptNonStreaming THEN Line("observe_only")
    ELSE IF verdict[r].Retry /\ left[r] > 0 THEN RetryLine(left[r])
    ELSE Line("return_status")

\* A verdict that reports a count has a line, and the published configuration
\* decides, at this moment, whether it is written; if not, and for a verdict
\* without a count, the line of an earlier verdict stays the last.
Log(r) ==
    IF ~verdict[r].ReasoningFound THEN UNCHANGED <<action, muted>>
    ELSE /\ muted'  = [muted EXCEPT ![r] = ~config.LogMatch]
         /\ action' = IF config.LogMatch THEN [action EXCEPT ![r] = VerdictLine(r)] ELSE action

RetriesAgain(r) == verdict[r].Retry /\ left[r] > 0

\* Log the verdict and ask the host for another response.
CallHost(r) ==
    /\ pc[r] = "judged"
    /\ RetriesAgain(r)
    /\ Log(r)
    /\ calls' = [calls EXCEPT ![r] = @ + 1]
    /\ pc'    = [pc EXCEPT ![r] = "calling"]
    /\ UNCHANGED <<config, cfg, body, left, verdict, reply, metrics, seen>>

\* A bug it must not have: a response that reports nothing is never answered.
Bug_AnswersOnlyReports(r) ==
    /\ pc[r] = "judged"
    /\ ~RetriesAgain(r)
    /\ verdict[r].ReasoningFound
    /\ Log(r)
    /\ Return(r, IF verdict[r].StatusCode # 0 THEN "blocked" ELSE "original")
    /\ UNCHANGED <<config, cfg, body, left, verdict, calls, metrics, seen>>

\* Log the verdict and return: the block body if there is one, else the body
\* that was judged.
Answer(r) ==
    /\ pc[r] = "judged"
    /\ ~RetriesAgain(r)
    /\ Log(r)
    /\ Return(r, IF verdict[r].StatusCode # 0 THEN "blocked"
                 ELSE IF calls[r] = 0 THEN "original" ELSE "retried")
    /\ UNCHANGED <<config, cfg, body, left, verdict, calls, metrics, seen>>

\* A bug it must not have: a failed retry falls back to the original response.
Bug_FailsOpen(r) ==
    /\ pc[r] = "calling"
    /\ Return(r, "original")
    /\ UNCHANGED <<config, cfg, body, left, verdict, calls, action, metrics, seen, muted>>

\* The host call failed, or its result does not decode.
HostFails(r) ==
    /\ pc[r] = "calling"
    /\ \E e \in {"host_retry_failed", "host_retry_decode_failed"} : Return(r, e)
    /\ UNCHANGED <<config, cfg, body, left, verdict, calls, action, metrics, seen, muted>>

\* Bugs it must not have: no attempt is used up, or two are.
Bug_KeepsBudget(r, b) ==
    /\ pc[r] = "calling"
    /\ Readable(b)
    /\ body' = [body EXCEPT ![r] = b]
    /\ seen' = [seen EXCEPT ![r] = Append(@, b)]
    /\ Judge(r, cfg[r], b, left[r])
    /\ UNCHANGED <<config, cfg, calls, action, reply, muted>>

Bug_DecrementsTwice(r, b) ==
    /\ pc[r] = "calling"
    /\ Readable(b)
    /\ body' = [body EXCEPT ![r] = b]
    /\ seen' = [seen EXCEPT ![r] = Append(@, b)]
    /\ Judge(r, cfg[r], b, left[r] - 2)
    /\ UNCHANGED <<config, cfg, calls, action, reply, muted>>

\* The retried response has come: one attempt of the budget is used up.  The
\* code judges with max(0, left - 1); a call is only made with left > 0.
Reinspect(r, b) ==
    /\ pc[r] = "calling"
    /\ Readable(b)
    /\ body' = [body EXCEPT ![r] = b]
    /\ seen' = [seen EXCEPT ![r] = Append(@, b)]
    /\ Judge(r, cfg[r], b, left[r] - 1)
    /\ UNCHANGED <<config, cfg, calls, action, reply, muted>>

\* A retried body that is not JSON is passed on as it is, unlike a first one.
PassUnreadable(r, b) ==
    /\ pc[r] = "calling"
    /\ ~Readable(b)
    /\ body' = [body EXCEPT ![r] = b]
    /\ seen' = [seen EXCEPT ![r] = Append(@, b)]
    /\ Count({"total"})
    /\ Return(r, "retried")
    /\ UNCHANGED <<config, cfg, left, verdict, calls, action, muted>>

Handle(r) ==
    \/ Skip(r) \/ Reject(r) \/ Inspect(r) \/ CallHost(r) \/ Answer(r) \/ HostFails(r)
    \/ \E b \in Bodies : Reinspect(r, b) \/ PassUnreadable(r, b)

\* plugin.reconfigure or a management POST publishes another configuration.
Reconfigure(c) ==
    /\ config' = c
    /\ UNCHANGED <<pc, cfg, body, left, verdict, calls, action, reply, metrics, seen, muted>>

Next ==
    \/ \E r \in Requests : Handle(r)
    \/ \E c \in Configs : Reconfigure(c)

\* A handler runs on its own host thread and waits for nothing but the host,
\* whose model execution returns or fails: weak fairness for each.
Spec == Init /\ [][Next]_vars /\ \A r \in Requests : WF_vars(Handle(r))

-----------------------------------------------------------------------------
(* Properties.                                                              *)

Suspicious(c, b) ==
    Readable(b) /\ Reports(b) /\ ReasoningMatched(c, extractNonStreamReasoning(b))

\* The retries a handler may make under its configuration.
Granted(r) == IF cfg[r].InterceptNonStreaming THEN cfg[r].GuardRetryAttempts ELSE 0

\* What a request has cost the upstream never exceeds the configured budget,
\* and while a retry is owed the calls made and the attempts left add up to it
\* (the loop at interceptors.go:302-363 keeps the two counts apart).
RetryBudget ==
    \A r \in Requests :
        /\ calls[r] <= Granted(r)
        /\ pc[r] = "judged" /\ verdict[r].Matched /\ cfg[r].InterceptNonStreaming
              => calls[r] + left[r] = Granted(r)

\* What the client gets when the reply is not an error or a block.  A reply
\* without a body leaves the response as it is (the handler's own way to pass
\* one, and retry_test.go:46), so an Empty retried body means the original.
Delivered(r) ==
    IF reply[r] = "retried" /\ body[r] # Empty THEN body[r] ELSE seen[r][1]

\* The handler never passes on a body it judged suspicious: not the original
\* by a reply without a body, not a retried one, whatever the budget was when
\* the last verdict fell (interceptors.go:344-361 passes a body whenever the
\* inspector gives neither a retry nor a status code).
NoSuspiciousPass ==
    \A r \in Requests :
        reply[r] \in {"original", "retried"} => ~Suspicious(cfg[r], body[r])

\* With interception on, the client is refused an answer only after every
\* granted retry has been made and every body seen was suspicious.
BlockedOnlyAfterExhaustion ==
    \A r \in Requests :
        reply[r] = "blocked" /\ cfg[r].InterceptNonStreaming =>
            /\ calls[r] = cfg[r].GuardRetryAttempts
            /\ Len(seen[r]) = calls[r] + 1
            /\ \A i \in DOMAIN seen[r] : Suspicious(cfg[r], seen[r][i])

\* What the log lets a reader conclude of a finished request.  Every line is
\* written before the outcome, log_match may have been switched off since the
\* last one, and a retried body without a count writes none.  The line of a
\* pass, a block or an observation is always the final verdict's.  A line
\* announcing a retry promises that it was made; if no verdict was muted after
\* it, it was the last one, the printed number is the retries it left, itself
\* included, and it failed or brought a body that is unreadable or reports
\* nothing.  No line, and none muted: nothing was retried or blocked, and
\* what was passed on reported nothing.  (Whether observe_only is the truth is
\* the subject of ObserveOnlyNeverBlocks.)
Countless(b) == ~Readable(b) \/ ~Reports(b)

LogTellsTheTruth ==
    \A r \in Requests : pc[r] = "done" =>
        CASE action[r].text = "pass" ->
                reply[r] \in {"original", "retried"} /\ ~Suspicious(cfg[r], body[r])
          [] action[r].text = "return_status" -> reply[r] = "blocked"
          [] action[r].text = "observe_only" -> ~cfg[r].InterceptNonStreaming /\ calls[r] = 0
          [] action[r].text = "internal_retry" ->
                /\ calls[r] + action[r].remaining > Granted(r)
                /\ ~muted[r] =>
                      /\ calls[r] + action[r].remaining = Granted(r) + 1
                      /\ \/ reply[r] \in {"host_retry_failed", "host_retry_decode_failed"}
                         \/ reply[r] = "retried" /\ Countless(body[r])
          [] action[r].text = "none" ->
                ~muted[r] => /\ calls[r] = 0
                             /\ reply[r] # "blocked"
                             /\ reply[r] = "original" => Countless(body[r])

\* The counters the status page shows are the sums, over every response the
\* handlers took up, of what those were: attempts, readable ones, suspicious
\* ones, and suspicious ones met with interception on (a retry counts as a
\* block).  Each handler adds its share in several places.
TakenUp == UNION {{r} \X DOMAIN seen[r] : r \in Requests}

Accounting ==
    LET Tally(P(_, _)) == Cardinality({t \in TakenUp : P(t[1], seen[t[1]][t[2]])})
    IN  /\ metrics["total"]     = Tally(LAMBDA r, b : TRUE)
        /\ metrics["inspected"] = Tally(LAMBDA r, b : Readable(b))
        /\ metrics["matched"]   = Tally(LAMBDA r, b : Suspicious(cfg[r], b))
        /\ metrics["blocked"]   = Tally(LAMBDA r, b : /\ Suspicious(cfg[r], b)
                                                      /\ cfg[r].InterceptNonStreaming)

\* Every response shown to the guard is answered, however often the retries
\* come back suspicious and whatever is reconfigured meanwhile.
EveryRequestAnswered == \A r \in Requests : <>(pc[r] = "done")

\* The handlers implement the contract.  A suspicious body returned would be
\* the outcome "leaked", which the contract never gives.
OutcomeOf(r) ==
    CASE reply[r] = "none" -> "none"
      [] reply[r] = "untouched" -> "unguarded"
      [] reply[r] = "blocked" -> "blocked"
      [] reply[r] \in {"original", "retried"} ->
            IF Suspicious(cfg[r], Delivered(r)) THEN "leaked"
            ELSE IF Readable(body[r]) THEN "clean" ELSE "unchecked"
      [] OTHER -> "failed"

PhaseOf(r) ==
    IF pc[r] = "done" THEN "settled" ELSE IF pc[r] = "arrived" THEN "arriving" ELSE "judging"

\* The budget exists from the first verdict on: once a readable body was seen.
BudgetOf(r) == IF seen[r] = <<>> THEN 0 ELSE IF ~Readable(seen[r][1]) THEN 0 ELSE Granted(r)

MaxGranted == CHOOSE n \in {c.GuardRetryAttempts : c \in Configs} :
                 \A c \in Configs : c.GuardRetryAttempts <= n

Contract == INSTANCE GuardContract WITH
    Slots     <- Requests,
    MaxBudget <- MaxGranted,
    phase     <- [r \in Requests |-> PhaseOf(r)],
    budget    <- [r \in Requests |-> BudgetOf(r)],
    retries   <- calls,
    outcome   <- [r \in Requests |-> OutcomeOf(r)]

ImplementsContract == Contract!Spec

-----------------------------------------------------------------------------
(* What the repository says and the code does not do.                       *)

\* README.md:5 has suspicious responses retried or blocked.  Here the client
\* gets one although interception is on: a retry that comes back empty is
\* passed on unread (interceptors.go:322-325), and an empty body in the reply
\* leaves the suspicious original in place.
SuspiciousNeverDelivered ==
    \A r \in Requests :
        reply[r] \in {"original", "retried"} => ~Suspicious(cfg[r], Delivered(r))

\* The action field of the log calls a match with interception off
\* observe_only: observed, not interfered with (interceptors.go:289, 334).
ObserveOnlyNeverBlocks ==
    \A r \in Requests : action[r].text = "observe_only" => reply[r] # "blocked"

\* The endpoints field is described as the request paths to inspect
\* (interceptors.go:153); a response on another path should not be judged.
OnlyListedEndpointsJudged ==
    \A r \in Requests : seen[r] # <<>> => endpointMatches(cfg[r], ReqPath[r])
=============================================================================
