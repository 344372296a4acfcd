------------------------- MODULE NonStreamGuardProofs ------------------------
(****************************************************************************)
(* What holds of the guard of non-streaming responses for any number of     *)
(* responses, any bodies and any configurations the plugin accepts.         *)
(****************************************************************************)
EXTENDS NonStreamGuard, FiniteSetTheorems, SequenceTheorems, TLAPS

-----------------------------------------------------------------------------
(* Facts about configurations and the inspector.                            *)

\* A configuration the plugin holds has a non-zero status code and a budget
\* that is a natural number (NormalizeAndValidate sees to both).
LEMMA StoredConfigFacts ==
    ASSUME NEW c \in Configs
    PROVE  /\ c \in Config
           /\ c.GuardRetryAttempts \in Nat
           /\ c.NonStreamStatusCode \in Int
           /\ c.NonStreamStatusCode # 0
           /\ c.InterceptNonStreaming \in BOOLEAN
<1>1. c \in Config /\ Accepted(c) /\ Normalized(c) = c
    BY ConfigsAssumption DEF StoredConfig
<1>2. c.GuardRetryAttempts \in Nat /\ c.NonStreamStatusCode \in Int /\ c.InterceptNonStreaming \in BOOLEAN
    BY <1>1 DEF Config, Accepted
<1>3. Normalized(c).NonStreamStatusCode = IF c.NonStreamStatusCode <= 0 THEN 502 ELSE c.NonStreamStatusCode
    BY <1>1 DEF Normalized, Config, DefaultConfig
<1>4. c.NonStreamStatusCode # 0
    BY <1>1, <1>2, <1>3
<1> QED
    BY <1>1, <1>2, <1>4

\* The inspector's decision is well formed.
LEMMA InspectType ==
    ASSUME NEW c \in Configs, NEW b, NEW n \in Nat
    PROVE  InspectNonStream(c, b, n) \in NonStreamDecision
<1>1. c.NonStreamStatusCode \in Int /\ c.InterceptNonStreaming \in BOOLEAN
    BY StoredConfigFacts
<1>2. Reports(b) \in BOOLEAN
    BY DEF Reports
<1>3. ReasoningMatched(c, extractNonStreamReasoning(b)) \in BOOLEAN
    BY DEF ReasoningMatched
<1> QED
    BY <1>1, <1>2, <1>3 DEF InspectNonStream, NonStreamDecision

\* It orders a retry only with interception on and budget left, and when it
\* gives neither a retry nor a status code the body is not suspicious.
LEMMA InspectFacts ==
    ASSUME NEW c \in Configs, NEW b, NEW n \in Nat
    PROVE  LET v == InspectNonStream(c, b, n)
           IN  /\ v.Retry => c.InterceptNonStreaming /\ n > 0 /\ v.Matched
               /\ v.Matched /\ ~v.Retry => ~c.InterceptNonStreaming \/ n = 0
               /\ ~v.Retry /\ v.StatusCode = 0 => ~Suspicious(c, b)
               /\ v.StatusCode # 0 => v.Matched /\ ~v.Retry
               /\ v.Matched /\ ~v.Retry => v.StatusCode # 0
               /\ v.Matched /\ Readable(b) => Suspicious(c, b)
               /\ ~v.Matched => ~Suspicious(c, b)
               /\ v.Matched => v.ReasoningFound
               /\ v.ReasoningFound <=> Reports(b)
<1> DEFINE found   == Reports(b)
           matched == found /\ ReasoningMatched(c, extractNonStreamReasoning(b))
           retry   == matched /\ c.InterceptNonStreaming /\ n > 0
           v       == InspectNonStream(c, b, n)
<1>1. /\ v.Matched = matched
      /\ v.Retry = retry
      /\ v.StatusCode = IF matched /\ ~retry THEN c.NonStreamStatusCode ELSE 0
      /\ v.ReasoningFound = found
    BY DEF InspectNonStream
<1>2. c.NonStreamStatusCode # 0
    BY StoredConfigFacts
<1>3. Suspicious(c, b) => matched
    BY DEF Suspicious
<1>4. v.Retry => c.InterceptNonStreaming /\ n > 0 /\ v.Matched
    BY <1>1
<1>5. v.Matched /\ ~v.Retry => ~c.InterceptNonStreaming \/ n = 0
    BY <1>1
<1>6. ~v.Retry /\ v.StatusCode = 0 => ~Suspicious(c, b)
    BY <1>1, <1>2, <1>3
<1>7. v.StatusCode # 0 => v.Matched /\ ~v.Retry
    BY <1>1
<1>8. v.Matched /\ ~v.Retry => v.StatusCode # 0
    BY <1>1, <1>2
<1>9. v.Matched /\ Readable(b) => Suspicious(c, b)
    BY <1>1 DEF Suspicious
<1>10. ~v.Matched => ~Suspicious(c, b)
    BY <1>1, <1>3
<1>11. (v.Matched => v.ReasoningFound) /\ (v.ReasoningFound <=> Reports(b))
    BY <1>1 DEF Reports
<1> QED
    BY <1>4, <1>5, <1>6, <1>7, <1>8, <1>9, <1>10, <1>11

\* In formula mode exactly the numbers 516, 1034, 1552, ... are suspicious
\* (README.md:40, "the full `518*n-2` sequence").
THEOREM FormulaIsProgression ==
    ASSUME NEW c, c.ReasoningMatchMode = Formula, NEW reasoning \in Int
    PROVE  ReasoningMatched(c, reasoning) <=> \E n \in Nat \ {0} : reasoning = 518 * n - 2
<1>1. ASSUME reasoning >= 516, (reasoning + 2) % 518 = 0
      PROVE  \E n \in Nat \ {0} : reasoning = 518 * n - 2
    <2> DEFINE n == (reasoning + 2) \div 518
    <2>1. reasoning + 2 = (518 * n) + ((reasoning + 2) % 518) /\ n \in Int
        <3> DEFINE m == reasoning + 2
        <3>1. m \in Int
            OBVIOUS
        <3> HIDE DEF m
        <3>2. m = (518 * (m \div 518)) + (m % 518) /\ (m \div 518) \in Int
            BY <3>1, Z3
        <3> QED
            BY <3>2 DEF m
    <2>2. reasoning = 518 * n - 2
        BY <1>1, <2>1
    <2> HIDE DEF n
    <2>3. n \in Nat \ {0}
        BY <1>1, <2>1, <2>2
    <2> QED
        BY <2>2, <2>3
<1>2. ASSUME NEW n \in Nat \ {0}, reasoning = 518 * n - 2
      PROVE  reasoning >= 516 /\ (reasoning + 2) % 518 = 0
    <2>1. reasoning + 2 = 518 * n
        BY <1>2
    <2>2. (518 * n) % 518 = 0
        OBVIOUS
    <2>3. n >= 1
        OBVIOUS
    <2> QED
        BY <1>2, <2>1, <2>2, <2>3
<1> QED
    BY <1>1, <1>2 DEF ReasoningMatched

-----------------------------------------------------------------------------
(* Type correctness.  That attempts remain while the host is called keeps   *)
(* the next budget a natural number.                                        *)

CallingOwesRetry == \A r \in Requests : pc[r] = "calling" => left[r] > 0

TypeInv == TypeOK /\ CallingOwesRetry

\* Counting keeps every counter a natural number.
LEMMA CountType ==
    ASSUME metrics \in [Counter -> Nat], NEW counted, Count(counted)
    PROVE  metrics' \in [Counter -> Nat]
BY DEF Count

\* Logging a verdict writes a well-formed line or leaves the last one.
LEMMA LogType ==
    ASSUME TypeOK, NEW r \in Requests, Log(r)
    PROVE  action' \in [Requests -> LogLine] /\ muted' \in [Requests -> BOOLEAN]
<1>1. VerdictLine(r) \in LogLine
    BY DEF TypeOK, VerdictLine, Line, RetryLine, LogLine
<1>2. config.LogMatch \in BOOLEAN
    BY StoredConfigFacts DEF TypeOK, Config
<1> QED
    BY <1>1, <1>2 DEF TypeOK, Log

\* The typing holds before any handler runs ...
LEMMA InitType == Init => TypeInv
<1> SUFFICES ASSUME Init PROVE TypeInv
    OBVIOUS
<1>1. NoVerdict \in NonStreamDecision
    BY DEF NoVerdict, NonStreamDecision
<1>2. NoLine \in LogLine
    BY DEF NoLine, LogLine
<1> QED
    BY <1>1, <1>2 DEF Init, TypeInv, TypeOK, CallingOwesRetry, Pc, Reply, Counter

\* ... and every step of a handler or of a reconfiguration keeps it.
LEMMA NextType == TypeInv /\ [Next]_vars => TypeInv'
<1> SUFFICES ASSUME TypeInv, [Next]_vars PROVE TypeInv'
    OBVIOUS
<1> USE DEF TypeInv, TypeOK, CallingOwesRetry, Pc, Reply
<1>1. ASSUME NEW r \in Requests, Skip(r) PROVE TypeInv'
    BY <1>1 DEF Skip, Return
<1>2. ASSUME NEW r \in Requests, Reject(r) PROVE TypeInv'
    <2>1. metrics' \in [Counter -> Nat]
        BY <1>2, CountType DEF Reject
    <2> QED
        BY <1>2, <2>1 DEF Reject, Return
<1>3. ASSUME NEW r \in Requests, Inspect(r) PROVE TypeInv'
    <2>1. metrics' \in [Counter -> Nat]
        BY <1>3, CountType DEF Inspect, Judge
    <2>2. config.GuardRetryAttempts \in Nat
        BY StoredConfigFacts
    <2>3. InspectNonStream(config, body[r], config.GuardRetryAttempts) \in NonStreamDecision
        BY <2>2, InspectType
    <2> QED
        BY <1>3, <2>1, <2>2, <2>3 DEF Inspect, Judge
<1>4. ASSUME NEW r \in Requests, CallHost(r) PROVE TypeInv'
    <2>1. action' \in [Requests -> LogLine] /\ muted' \in [Requests -> BOOLEAN]
        BY <1>4, LogType DEF CallHost
    <2>2. calls[r] + 1 \in Nat
        OBVIOUS
    <2>3. TypeOK'
        BY <1>4, <2>1, <2>2 DEF CallHost
    <2>4. CallingOwesRetry'
        BY <1>4 DEF CallHost, RetriesAgain
    <2> QED
        BY <2>3, <2>4
<1>5. ASSUME NEW r \in Requests, Answer(r) PROVE TypeInv'
    <2>1. action' \in [Requests -> LogLine] /\ muted' \in [Requests -> BOOLEAN]
        BY <1>5, LogType DEF Answer
    <2> QED
        BY <1>5, <2>1 DEF Answer, Return
<1>6. ASSUME NEW r \in Requests, HostFails(r) PROVE TypeInv'
    BY <1>6 DEF HostFails, Return
<1>7. ASSUME NEW r \in Requests, NEW b \in Bodies, Reinspect(r, b) PROVE TypeInv'
    <2>1. metrics' \in [Counter -> Nat]
        BY <1>7, CountType DEF Reinspect, Judge
    <2>2. left[r] - 1 \in Nat
        BY <1>7 DEF Reinspect
    <2>3. InspectNonStream(cfg[r], b, left[r] - 1) \in NonStreamDecision
        BY <2>2, InspectType
    <2> QED
        BY <1>7, <2>1, <2>2, <2>3 DEF Reinspect, Judge
<1>8. ASSUME NEW r \in Requests, NEW b \in Bodies, PassUnreadable(r, b) PROVE TypeInv'
    <2>1. metrics' \in [Counter -> Nat]
        BY <1>8, CountType DEF PassUnreadable
    <2> QED
        BY <1>8, <2>1 DEF PassUnreadable, Return
<1>9. ASSUME NEW c \in Configs, Reconfigure(c) PROVE TypeInv'
    BY <1>9 DEF Reconfigure
<1>10. CASE UNCHANGED vars
    BY <1>10 DEF vars
<1> QED
    BY <1>1, <1>2, <1>3, <1>4, <1>5, <1>6, <1>7, <1>8, <1>9, <1>10 DEF Next, Handle

\* Type correctness of the guard, with the fact that makes it inductive.
THEOREM TypeCorrect == Spec => []TypeInv
BY InitType, NextType, PTL DEF Spec

\* Every variable keeps its type in every reachable state.
THEOREM TypeOKHolds == Spec => []TypeOK
<1>1. TypeInv => TypeOK
    BY DEF TypeInv
<1> QED
    BY <1>1, TypeCorrect, PTL

-----------------------------------------------------------------------------
(* Safety.  RequestInv says, for each place a handler can be, how the       *)
(* calls made, the attempts left, the verdict and the history of bodies     *)
(* hang together; LineInv and LineDone what the last log line says of them. *)

AllSuspicious(r, n) == \A i \in 1..n : Suspicious(cfg[r], seen[r][i])

ArrivedInv(r) == pc[r] = "arrived" =>
    /\ calls[r] = 0
    /\ reply[r] = "none"
    /\ action[r] = NoLine
    /\ ~muted[r]
    /\ seen[r] = <<>>

JudgedInv(r) == pc[r] = "judged" =>
    /\ Readable(body[r])
    /\ verdict[r] = InspectNonStream(cfg[r], body[r], left[r])
    /\ calls[r] + left[r] = cfg[r].GuardRetryAttempts
    /\ reply[r] = "none"
    /\ Len(seen[r]) = calls[r] + 1
    /\ seen[r][calls[r] + 1] = body[r]
    /\ AllSuspicious(r, calls[r])

CallingInv(r) == pc[r] = "calling" =>
    /\ left[r] > 0
    /\ calls[r] > 0
    /\ calls[r] + left[r] = cfg[r].GuardRetryAttempts + 1
    /\ reply[r] = "none"
    /\ Len(seen[r]) = calls[r]
    /\ AllSuspicious(r, calls[r])

DoneInv(r) == pc[r] = "done" =>
    /\ reply[r] \in {"original", "retried"} => ~Suspicious(cfg[r], body[r])
    /\ reply[r] = "blocked" /\ cfg[r].InterceptNonStreaming =>
          /\ calls[r] = cfg[r].GuardRetryAttempts
          /\ Len(seen[r]) = calls[r] + 1
          /\ AllSuspicious(r, calls[r] + 1)

BudgetInv(r) ==
    /\ calls[r] <= cfg[r].GuardRetryAttempts
    /\ calls[r] > 0 => cfg[r].InterceptNonStreaming
    /\ pc[r] # "done" => reply[r] = "none"

RequestInv(r) ==
    ArrivedInv(r) /\ JudgedInv(r) /\ CallingInv(r) /\ DoneInv(r) /\ BudgetInv(r)

\* While a handler runs its last line, if any, announces a retry: at least
\* that one was made since, and no more unless a verdict was muted.
LineInv(r) ==
    /\ pc[r] \in {"judged", "calling"} => action[r].text \in {"none", "internal_retry"}
    /\ action[r].text = "internal_retry" =>
          /\ calls[r] > 0
          /\ calls[r] + action[r].remaining > cfg[r].GuardRetryAttempts
          /\ ~muted[r] => calls[r] + action[r].remaining = cfg[r].GuardRetryAttempts + 1
    /\ action[r].text = "none" /\ ~muted[r] => calls[r] = 0

\* What the last line says once the handler has returned.
LineDone(r) == pc[r] = "done" =>
    /\ action[r].text = "pass" => reply[r] \in {"original", "retried"}
    /\ action[r].text = "return_status" => reply[r] = "blocked"
    /\ action[r].text = "observe_only" => ~cfg[r].InterceptNonStreaming
    /\ action[r].text = "internal_retry" /\ ~muted[r] =>
          \/ reply[r] \in {"host_retry_failed", "host_retry_decode_failed"}
          \/ reply[r] = "retried" /\ Countless(body[r])
    /\ action[r].text = "none" /\ ~muted[r] =>
          reply[r] # "blocked" /\ (reply[r] = "original" => Countless(body[r]))

IInv == TypeInv /\ \A r \in Requests : RequestInv(r) /\ LineInv(r) /\ LineDone(r)

Locals(r) == <<pc[r], cfg[r], body[r], left[r], verdict[r], calls[r], action[r], reply[r], seen[r],
               muted[r]>>

\* What no step of this request's handler touches stays as it is.
LEMMA Frame ==
    ASSUME NEW q \in Requests, RequestInv(q), LineInv(q), LineDone(q), Locals(q)' = Locals(q)
    PROVE  RequestInv(q)' /\ LineInv(q)' /\ LineDone(q)'
<1> USE DEF Locals
<1>1. ArrivedInv(q)'
    BY DEF RequestInv, ArrivedInv
<1>2. JudgedInv(q)'
    BY DEF RequestInv, JudgedInv, AllSuspicious
<1>3. CallingInv(q)'
    BY DEF RequestInv, CallingInv, AllSuspicious
<1>4. DoneInv(q)'
    BY DEF RequestInv, DoneInv, AllSuspicious
<1>5. BudgetInv(q)'
    BY DEF RequestInv, BudgetInv
<1>6. LineInv(q)' /\ LineDone(q)'
    BY DEF LineInv, LineDone, Countless
<1> QED
    BY <1>1, <1>2, <1>3, <1>4, <1>5, <1>6 DEF RequestInv

\* Before any handler runs every request is in order.
LEMMA InitSafe == Init => IInv
<1> SUFFICES ASSUME Init, NEW r \in Requests PROVE RequestInv(r) /\ LineInv(r) /\ LineDone(r)
    BY InitType DEF IInv
<1>1. cfg[r] = config /\ config \in Configs /\ config.GuardRetryAttempts \in Nat
    BY StoredConfigFacts DEF Init
<1>2. pc[r] = "arrived" /\ calls[r] = 0 /\ reply[r] = "none" /\ action[r] = NoLine /\ ~muted[r]
      /\ seen[r] = <<>>
    BY DEF Init
<1>3. RequestInv(r)
    BY <1>1, <1>2 DEF RequestInv, ArrivedInv, JudgedInv, CallingInv, DoneInv, BudgetInv
<1>4. LineInv(r) /\ LineDone(r)
    BY <1>2 DEF LineInv, LineDone, NoLine
<1> QED
    BY <1>3, <1>4

\* A handler that is skipped, rejects the body or judges it for the first time.
LEMMA ArrivalSafe ==
    ASSUME IInv, NEW r \in Requests, Skip(r) \/ Reject(r) \/ Inspect(r)
    PROVE  RequestInv(r)'
<1> USE DEF IInv, TypeInv, TypeOK
<1>0. RequestInv(r) /\ config.GuardRetryAttempts \in Nat
    BY StoredConfigFacts
<1>1. CASE Skip(r)
    <2>1. pc[r] = "arrived" /\ pc'[r] = "done" /\ reply'[r] = "untouched"
        BY <1>1 DEF Skip, Return
    <2>2. calls'[r] = 0 /\ cfg'[r] = cfg[r] /\ cfg[r].GuardRetryAttempts \in Nat
        BY <1>0, <1>1, StoredConfigFacts DEF Skip, RequestInv, ArrivedInv
    <2> QED
        BY <2>1, <2>2 DEF RequestInv, ArrivedInv, JudgedInv, CallingInv, DoneInv, BudgetInv
<1>2. CASE Reject(r)
    <2>1. pc[r] = "arrived" /\ pc'[r] = "done" /\ reply'[r] = "inspect_failed"
        BY <1>2 DEF Reject, Return
    <2>2. calls'[r] = 0 /\ cfg'[r] = config
        BY <1>0, <1>2 DEF Reject, RequestInv, ArrivedInv
    <2> QED
        BY <1>0, <2>1, <2>2 DEF RequestInv, ArrivedInv, JudgedInv, CallingInv, DoneInv, BudgetInv
<1>3. CASE Inspect(r)
    <2>1. pc[r] = "arrived" /\ pc'[r] = "judged" /\ cfg'[r] = config /\ body'[r] = body[r]
        BY <1>3 DEF Inspect, Judge
    <2>2. calls'[r] = 0 /\ reply'[r] = "none" /\ seen[r] = <<>>
        BY <1>0, <1>3 DEF Inspect, RequestInv, ArrivedInv
    <2>3. left'[r] = config.GuardRetryAttempts /\ Readable(body[r])
        BY <1>3 DEF Inspect, Judge
    <2>4. verdict'[r] = InspectNonStream(config, body[r], config.GuardRetryAttempts)
        BY <1>3 DEF Inspect, Judge
    <2>5. seen'[r] = Append(seen[r], body[r])
        BY <1>3 DEF Inspect
    <2>6. Len(seen'[r]) = 1 /\ seen'[r][1] = body[r]
        BY <2>2, <2>5
    <2>7. JudgedInv(r)'
        BY <1>0, <2>1, <2>2, <2>3, <2>4, <2>6 DEF JudgedInv, AllSuspicious
    <2> QED
        BY <1>0, <2>1, <2>2, <2>7 DEF RequestInv, ArrivedInv, CallingInv, DoneInv, BudgetInv
<1> QED
    BY <1>1, <1>2, <1>3

\* A verdict is acted on: another call to the host, or the answer.
LEMMA VerdictSafe ==
    ASSUME IInv, NEW r \in Requests, CallHost(r) \/ Answer(r)
    PROVE  RequestInv(r)'
<1> USE DEF IInv, TypeInv, TypeOK
<1> DEFINE v == verdict[r]
<1>0. RequestInv(r) /\ cfg[r] \in Configs /\ left[r] \in Nat /\ calls[r] \in Nat
    OBVIOUS
<1>1. cfg[r].GuardRetryAttempts \in Nat
    BY <1>0, StoredConfigFacts
<1>2. pc[r] = "judged"
    BY DEF CallHost, Answer
<1>3. /\ Readable(body[r])
      /\ v = InspectNonStream(cfg[r], body[r], left[r])
      /\ calls[r] + left[r] = cfg[r].GuardRetryAttempts
      /\ Len(seen[r]) = calls[r] + 1
      /\ seen[r][calls[r] + 1] = body[r]
      /\ AllSuspicious(r, calls[r])
    BY <1>0, <1>2 DEF RequestInv, JudgedInv
<1>4. /\ v.Retry => cfg[r].InterceptNonStreaming /\ left[r] > 0 /\ v.Matched
      /\ v.Matched /\ ~v.Retry => (~cfg[r].InterceptNonStreaming \/ left[r] = 0) /\ v.StatusCode # 0
      /\ v.StatusCode # 0 => v.Matched /\ ~v.Retry
      /\ v.Matched => Suspicious(cfg[r], body[r])
      /\ ~v.Matched => ~Suspicious(cfg[r], body[r])
    BY <1>0, <1>3, InspectFacts
<1>6. v.Matched => AllSuspicious(r, calls[r] + 1)
    <2> SUFFICES ASSUME v.Matched, NEW i \in 1..(calls[r] + 1)
                 PROVE  Suspicious(cfg[r], seen[r][i])
        BY DEF AllSuspicious
    <2>1. CASE i = calls[r] + 1
        BY <1>3, <1>4, <2>1
    <2>2. CASE i # calls[r] + 1
        <3>1. i \in 1..calls[r]
            BY <1>0, <2>2
        <3> QED
            BY <1>3, <3>1 DEF AllSuspicious
    <2> QED
        BY <2>1, <2>2
<1>7. CASE CallHost(r)
    <2>1. /\ pc'[r] = "calling"
          /\ calls'[r] = calls[r] + 1
          /\ left'[r] = left[r] /\ cfg'[r] = cfg[r] /\ seen'[r] = seen[r] /\ reply'[r] = reply[r]
          /\ v.Retry /\ left[r] > 0
        BY <1>7 DEF CallHost, RetriesAgain
    <2>4. reply[r] = "none"
        BY <1>0, <1>2 DEF RequestInv, JudgedInv
    <2>5. AllSuspicious(r, calls[r])'
        BY <1>4, <1>6, <2>1 DEF AllSuspicious
    <2>6. CallingInv(r)'
        <3>0. calls[r] \in Nat /\ left[r] \in Nat /\ calls[r] + left[r] = cfg[r].GuardRetryAttempts
            BY <1>0, <1>3
        <3>1. calls[r] + 1 > 0 /\ (calls[r] + 1) + left[r] = cfg[r].GuardRetryAttempts + 1
            <4> HIDE DEF IInv, TypeInv, TypeOK
            <4> QED
                BY <1>1, <3>0
        <3> QED
            BY <1>3, <2>1, <2>4, <2>5, <3>1 DEF CallingInv
    <2> QED
        BY <1>0, <1>1, <1>3, <1>4, <2>1, <2>4, <2>6 DEF RequestInv, ArrivedInv, JudgedInv, DoneInv, BudgetInv
<1>8. CASE Answer(r)
    <2>1. /\ pc'[r] = "done"
          /\ calls'[r] = calls[r] /\ cfg'[r] = cfg[r] /\ seen'[r] = seen[r] /\ body'[r] = body[r]
          /\ ~(v.Retry /\ left[r] > 0)
        BY <1>8 DEF Answer, Return, RetriesAgain
    <2>2. reply'[r] = IF v.StatusCode # 0 THEN "blocked" ELSE IF calls[r] = 0 THEN "original" ELSE "retried"
        BY <1>8 DEF Answer, Return
    <2>3. ~v.Retry
        BY <1>4, <2>1
    <2>4. reply'[r] = "blocked" <=> v.Matched
        BY <1>4, <2>2, <2>3
    <2>6. reply'[r] = "blocked" /\ cfg[r].InterceptNonStreaming =>
             calls[r] = cfg[r].GuardRetryAttempts /\ AllSuspicious(r, calls[r] + 1)'
        BY <1>0, <1>1, <1>3, <1>4, <1>6, <2>1, <2>3, <2>4 DEF AllSuspicious
    <2>7. DoneInv(r)'
        BY <1>0, <1>3, <1>4, <2>1, <2>2, <2>3, <2>4, <2>6 DEF DoneInv, AllSuspicious
    <2> QED
        BY <1>0, <2>1, <2>7 DEF RequestInv, ArrivedInv, JudgedInv, CallingInv, BudgetInv
<1> QED
    BY <1>7, <1>8

\* The host's answer to a retry, of whatever kind.
LEMMA RetrySafe ==
    ASSUME IInv, NEW r \in Requests, NEW b \in Bodies,
           HostFails(r) \/ Reinspect(r, b) \/ PassUnreadable(r, b)
    PROVE  RequestInv(r)'
<1> USE DEF IInv, TypeInv, TypeOK
<1>0. RequestInv(r) /\ cfg[r] \in Configs /\ left[r] \in Nat /\ calls[r] \in Nat /\ seen[r] \in Seq(Bodies)
    OBVIOUS
<1>1. cfg[r].GuardRetryAttempts \in Nat
    BY <1>0, StoredConfigFacts
<1>2. pc[r] = "calling"
    BY DEF HostFails, Reinspect, PassUnreadable
<1>3. CallingInv(r) /\ BudgetInv(r)
    BY <1>0 DEF RequestInv
<1>4. CASE HostFails(r)
    <2>1. /\ pc'[r] = "done"
          /\ reply'[r] \in {"host_retry_failed", "host_retry_decode_failed"}
          /\ calls'[r] = calls[r] /\ cfg'[r] = cfg[r]
        BY <1>4 DEF HostFails, Return
    <2>2. DoneInv(r)'
        BY <2>1 DEF DoneInv
    <2> QED
        BY <1>3, <2>1, <2>2 DEF RequestInv, ArrivedInv, JudgedInv, CallingInv, BudgetInv
<1>5. CASE Reinspect(r, b)
    <2>1. /\ pc'[r] = "judged" /\ body'[r] = b /\ Readable(b)
          /\ calls'[r] = calls[r] /\ cfg'[r] = cfg[r] /\ reply'[r] = reply[r]
          /\ left'[r] = left[r] - 1
          /\ verdict'[r] = InspectNonStream(cfg[r], b, left[r] - 1)
          /\ seen'[r] = Append(seen[r], b)
        BY <1>5 DEF Reinspect, Judge
    <2>2. /\ Len(seen'[r]) = calls[r] + 1
          /\ seen'[r][calls[r] + 1] = b
          /\ \A i \in 1..calls[r] : seen'[r][i] = seen[r][i]
        BY <1>0, <1>2, <1>3, <2>1 DEF CallingInv
    <2>3. AllSuspicious(r, calls[r])'
        BY <1>0, <1>2, <1>3, <2>1, <2>2 DEF CallingInv, AllSuspicious
    <2>4. JudgedInv(r)'
        <3>1. calls[r] + (left[r] - 1) = cfg[r].GuardRetryAttempts /\ reply[r] = "none"
            BY <1>0, <1>1, <1>2, <1>3 DEF CallingInv
        <3> QED
            BY <2>1, <2>2, <2>3, <3>1 DEF JudgedInv
    <2> QED
        BY <1>2, <1>3, <2>1, <2>4 DEF RequestInv, ArrivedInv, CallingInv, DoneInv, BudgetInv
<1>6. CASE PassUnreadable(r, b)
    <2>1. /\ pc'[r] = "done" /\ body'[r] = b /\ ~Readable(b) /\ reply'[r] = "retried"
          /\ calls'[r] = calls[r] /\ cfg'[r] = cfg[r]
        BY <1>6 DEF PassUnreadable, Return
    <2>2. ~Suspicious(cfg[r], b)
        BY <2>1 DEF Suspicious
    <2>3. DoneInv(r)'
        BY <2>1, <2>2 DEF DoneInv
    <2> QED
        BY <1>3, <2>1, <2>3 DEF RequestInv, ArrivedInv, JudgedInv, CallingInv, BudgetInv
<1> QED
    BY <1>4, <1>5, <1>6

\* What logging does to the last line, by the verdict and the configuration
\* in force.
LEMMA LogFacts ==
    ASSUME TypeOK, NEW r \in Requests, Log(r)
    PROVE  \/ /\ ~verdict[r].ReasoningFound
              /\ action'[r] = action[r] /\ muted'[r] = muted[r]
           \/ verdict[r].ReasoningFound /\ muted'[r] /\ action'[r] = action[r]
           \/ verdict[r].ReasoningFound /\ ~muted'[r] /\ action'[r] = VerdictLine(r)
<1>1. CASE ~verdict[r].ReasoningFound
    BY <1>1 DEF Log
<1>2. CASE verdict[r].ReasoningFound
    BY <1>2 DEF Log, TypeOK
<1> QED
    BY <1>1, <1>2

\* The line of a retry is announced, and the retry made.
LEMMA CallLine ==
    ASSUME IInv, NEW r \in Requests, CallHost(r)
    PROVE  LineInv(r)' /\ LineDone(r)'
<1> USE DEF IInv, TypeInv, TypeOK
<1>1. /\ calls[r] \in Nat /\ left[r] \in Nat /\ action[r].remaining \in Nat
      /\ cfg[r] \in Configs /\ cfg[r].GuardRetryAttempts \in Nat
    BY StoredConfigFacts DEF LogLine
<1>2. /\ pc[r] = "judged" /\ pc'[r] = "calling"
      /\ calls'[r] = calls[r] + 1 /\ cfg'[r] = cfg[r]
      /\ verdict[r].Retry /\ left[r] > 0
    BY DEF CallHost, RetriesAgain
<1>3. /\ verdict[r] = InspectNonStream(cfg[r], body[r], left[r])
      /\ calls[r] + left[r] = cfg[r].GuardRetryAttempts
    BY <1>2 DEF RequestInv, JudgedInv
<1>4. verdict[r].Matched /\ verdict[r].ReasoningFound /\ cfg[r].InterceptNonStreaming
    BY <1>1, <1>2, <1>3, InspectFacts
<1>5. VerdictLine(r) = RetryLine(left[r])
    BY <1>2, <1>4 DEF VerdictLine
<1>6. LineInv(r)
    OBVIOUS
<1>7. CASE muted'[r] /\ action'[r] = action[r]
    <2>1. action[r].text = "internal_retry" => calls[r] + action[r].remaining > cfg[r].GuardRetryAttempts
        BY <1>6 DEF LineInv
    <2>2. action[r].text = "internal_retry" => calls[r] + 1 > 0 /\ calls[r] + 1 + action[r].remaining > cfg[r].GuardRetryAttempts
        <3> HIDE DEF IInv, TypeInv, TypeOK
        <3> QED
            BY <1>1, <2>1
    <2>3. LineInv(r)'
        BY <1>2, <1>4, <1>6, <1>7, <2>2 DEF LineInv
    <2> QED
        BY <1>2, <2>3 DEF LineDone
<1>8. CASE ~muted'[r] /\ action'[r] = VerdictLine(r)
    <2>1. action'[r].text = "internal_retry" /\ action'[r].remaining = left[r]
        BY <1>5, <1>8 DEF RetryLine
    <2>2. calls'[r] + action'[r].remaining = cfg[r].GuardRetryAttempts + 1
        <3> HIDE DEF IInv, TypeInv, TypeOK
        <3> QED
            BY <1>1, <1>2, <1>3, <2>1
    <2>3. calls'[r] > 0 /\ calls'[r] + action'[r].remaining > cfg[r].GuardRetryAttempts
        <3> HIDE DEF IInv, TypeInv, TypeOK
        <3> QED
            BY <1>1, <1>2, <2>2
    <2>4. LineInv(r)'
        BY <1>2, <1>4, <2>1, <2>2, <2>3 DEF LineInv
    <2> QED
        BY <1>2, <2>4 DEF LineDone
<1> QED
    BY <1>4, <1>7, <1>8, LogFacts DEF CallHost

\* The final verdict is logged before the answer.
LEMMA AnswerLine ==
    ASSUME IInv, NEW r \in Requests, Answer(r)
    PROVE  LineInv(r)' /\ LineDone(r)'
<1> USE DEF IInv, TypeInv, TypeOK
<1>1. left[r] \in Nat /\ cfg[r] \in Configs
    OBVIOUS
<1>2. /\ pc[r] = "judged" /\ pc'[r] = "done"
      /\ calls'[r] = calls[r] /\ cfg'[r] = cfg[r] /\ body'[r] = body[r]
      /\ ~(verdict[r].Retry /\ left[r] > 0)
    BY DEF Answer, Return, RetriesAgain
<1>3. Readable(body[r]) /\ verdict[r] = InspectNonStream(cfg[r], body[r], left[r])
    BY <1>2 DEF RequestInv, JudgedInv
<1>4. reply'[r] = IF verdict[r].StatusCode # 0 THEN "blocked" ELSE IF calls[r] = 0 THEN "original" ELSE "retried"
    BY DEF Answer, Return
<1>5. /\ verdict[r].Matched => verdict[r].ReasoningFound
      /\ verdict[r].Matched => verdict[r].StatusCode # 0
      /\ verdict[r].StatusCode # 0 => verdict[r].Matched
      /\ verdict[r].ReasoningFound <=> Reports(body[r])
    BY <1>1, <1>2, <1>3, InspectFacts
<1>6. LineInv(r)
    OBVIOUS
<1>7. action[r].text \in {"none", "internal_retry"}
    BY <1>2, <1>6 DEF LineInv
<1>8. CASE /\ ~verdict[r].ReasoningFound
           /\ action'[r] = action[r] /\ muted'[r] = muted[r]
    <2>1. LineInv(r)'
        BY <1>2, <1>6, <1>7, <1>8 DEF LineInv
    <2>2. reply'[r] = IF calls[r] = 0 THEN "original" ELSE "retried"
        BY <1>4, <1>5, <1>8
    <2>3. Countless(body[r])
        BY <1>5, <1>8 DEF Countless
    <2>4. action[r].text = "internal_retry" => calls[r] # 0
        BY <1>6 DEF LineInv
    <2> QED
        BY <1>2, <1>7, <1>8, <2>1, <2>2, <2>3, <2>4 DEF LineDone, Countless
<1>9. CASE muted'[r] /\ action'[r] = action[r]
    <2>1. LineInv(r)'
        BY <1>2, <1>6, <1>7, <1>9 DEF LineInv
    <2> QED
        BY <1>2, <1>7, <1>9, <2>1 DEF LineDone
<1>10. CASE ~muted'[r] /\ action'[r] = VerdictLine(r)
    <2>1. /\ action'[r].text \in {"pass", "observe_only", "return_status"}
          /\ action'[r].text = "pass" => ~verdict[r].Matched
          /\ action'[r].text = "observe_only" => ~cfg[r].InterceptNonStreaming
          /\ action'[r].text = "return_status" => verdict[r].Matched
        BY <1>2, <1>10 DEF VerdictLine, Line
    <2>2. LineInv(r)'
        BY <1>2, <2>1 DEF LineInv
    <2> QED
        BY <1>2, <1>4, <1>5, <2>1, <2>2 DEF LineDone
<1> QED
    BY <1>8, <1>9, <1>10, LogFacts DEF Answer

\* The other steps of a handler write no line.
LEMMA QuietLine ==
    ASSUME IInv, NEW r \in Requests, NEW b \in Bodies,
           \/ Skip(r) \/ Reject(r) \/ Inspect(r)
           \/ HostFails(r) \/ Reinspect(r, b) \/ PassUnreadable(r, b)
    PROVE  LineInv(r)' /\ LineDone(r)'
<1> USE DEF IInv, TypeInv, TypeOK
<1>1. LineInv(r) /\ action' = action /\ muted' = muted /\ calls' = calls
    BY DEF Skip, Reject, Inspect, HostFails, Reinspect, PassUnreadable
<1>2. CASE Skip(r) \/ Reject(r) \/ Inspect(r)
    <2>1. action[r].text = "none" /\ calls[r] = 0
        BY <1>2 DEF Skip, Reject, Inspect, RequestInv, ArrivedInv, NoLine
    <2>2. LineInv(r)'
        BY <1>1, <2>1 DEF LineInv
    <2>3. pc'[r] = "done" => reply'[r] \in {"untouched", "inspect_failed"}
        BY <1>2 DEF Skip, Reject, Inspect, Judge, Return
    <2> QED
        BY <1>1, <2>1, <2>2, <2>3 DEF LineDone
<1>3. CASE HostFails(r) \/ Reinspect(r, b) \/ PassUnreadable(r, b)
    <2>1. pc[r] = "calling" /\ cfg' = cfg
        BY <1>3 DEF HostFails, Reinspect, PassUnreadable
    <2>2. action[r].text \in {"none", "internal_retry"}
        BY <1>1, <2>1 DEF LineInv
    <2>3. LineInv(r)'
        BY <1>1, <2>1, <2>2 DEF LineInv
    <2>4. pc'[r] = "done" => \/ reply'[r] \in {"host_retry_failed", "host_retry_decode_failed"}
                             \/ reply'[r] = "retried" /\ Countless(body[r])'
        BY <1>3 DEF HostFails, Reinspect, PassUnreadable, Judge, Return, Countless
    <2> QED
        BY <1>1, <2>2, <2>3, <2>4 DEF LineDone
<1> QED
    BY <1>2, <1>3

\* A handler touches the locals of its own request only.
LEMMA OthersUntouched ==
    ASSUME TypeOK, NEW r \in Requests, Handle(r), NEW q \in Requests, q # r
    PROVE  Locals(q)' = Locals(q)
<1> USE DEF TypeOK, Locals
<1>1. CASE Skip(r)
    BY <1>1 DEF Skip, Return
<1>2. CASE Reject(r)
    BY <1>2 DEF Reject, Return
<1>3. CASE Inspect(r)
    BY <1>3 DEF Inspect, Judge
<1>4. CASE CallHost(r)
    BY <1>4 DEF CallHost, Log
<1>5. CASE Answer(r)
    BY <1>5 DEF Answer, Log, Return
<1>6. CASE HostFails(r)
    BY <1>6 DEF HostFails, Return
<1>7. ASSUME NEW b \in Bodies, Reinspect(r, b) PROVE Locals(q)' = Locals(q)
    BY <1>7 DEF Reinspect, Judge
<1>8. ASSUME NEW b \in Bodies, PassUnreadable(r, b) PROVE Locals(q)' = Locals(q)
    BY <1>8 DEF PassUnreadable, Return
<1> QED
    BY <1>1, <1>2, <1>3, <1>4, <1>5, <1>6, <1>7, <1>8 DEF Handle

\* Every step keeps every request in order: the one whose handler runs by the
\* lemmas above, the others because nothing of theirs changes.
LEMMA NextSafe == IInv /\ [Next]_vars => IInv'
<1> SUFFICES ASSUME IInv, [Next]_vars, NEW q \in Requests
             PROVE  RequestInv(q)' /\ LineInv(q)' /\ LineDone(q)'
    BY NextType DEF IInv
<1>1. ASSUME NEW r \in Requests, Handle(r) PROVE RequestInv(q)' /\ LineInv(q)' /\ LineDone(q)'
    <2>1. CASE q # r
        BY <1>1, <2>1, OthersUntouched, Frame DEF IInv, TypeInv
    <2>2. CASE q = r
        <3>1. CASE Skip(r) \/ Reject(r) \/ Inspect(r)
            BY <2>2, <3>1, ArrivalSafe, QuietLine DEF IInv, TypeInv, TypeOK
        <3>2. CASE CallHost(r) \/ Answer(r)
            BY <2>2, <3>2, VerdictSafe, CallLine, AnswerLine
        <3>3. CASE HostFails(r)
            BY <2>2, <3>3, RetrySafe, QuietLine DEF IInv, TypeInv, TypeOK
        <3>4. CASE \E b \in Bodies : Reinspect(r, b) \/ PassUnreadable(r, b)
            BY <2>2, <3>4, RetrySafe, QuietLine
        <3> QED
            BY <1>1, <3>1, <3>2, <3>3, <3>4 DEF Handle
    <2> QED
        BY <2>1, <2>2
<1>2. ASSUME NEW c \in Configs, Reconfigure(c) PROVE RequestInv(q)' /\ LineInv(q)' /\ LineDone(q)'
    BY <1>2, Frame DEF Reconfigure, Locals, IInv
<1>3. CASE UNCHANGED vars
    BY <1>3, Frame DEF vars, Locals, IInv
<1> QED
    BY <1>1, <1>2, <1>3 DEF Next

\* The inductive invariant of the guard, from which the properties follow.
THEOREM Invariance == Spec => []IInv
BY InitSafe, NextSafe, PTL DEF Spec

\* No request costs more retries than its configuration grants, and the two
\* counts of the retry loop stay complementary.
THEOREM RetryBudgetHolds == Spec => []RetryBudget
<1>1. IInv => RetryBudget
    <2> SUFFICES ASSUME IInv, NEW r \in Requests
                 PROVE  /\ calls[r] <= Granted(r)
                        /\ pc[r] = "judged" /\ verdict[r].Matched /\ cfg[r].InterceptNonStreaming
                              => calls[r] + left[r] = Granted(r)
        BY DEF RetryBudget
    <2>1. RequestInv(r) /\ calls[r] \in Nat
        BY DEF IInv, TypeInv, TypeOK
    <2> QED
        BY <2>1 DEF RequestInv, BudgetInv, JudgedInv, Granted
<1> QED
    BY <1>1, Invariance, PTL

\* No handler ever passes on a body it judged suspicious.
THEOREM NoSuspiciousPassHolds == Spec => []NoSuspiciousPass
<1>1. IInv => NoSuspiciousPass
    <2> SUFFICES ASSUME IInv, NEW r \in Requests, reply[r] \in {"original", "retried"}
                 PROVE  ~Suspicious(cfg[r], body[r])
        BY DEF NoSuspiciousPass
    <2>1. DoneInv(r) /\ BudgetInv(r)
        BY DEF IInv, RequestInv
    <2>2. pc[r] = "done"
        BY <2>1 DEF BudgetInv
    <2> QED
        BY <2>1, <2>2 DEF DoneInv
<1> QED
    BY <1>1, Invariance, PTL

\* With interception on a block comes after every granted retry, each of them
\* and the original suspicious.
THEOREM BlockedOnlyAfterExhaustionHolds == Spec => []BlockedOnlyAfterExhaustion
<1>1. IInv => BlockedOnlyAfterExhaustion
    <2> SUFFICES ASSUME IInv, NEW r \in Requests, reply[r] = "blocked", cfg[r].InterceptNonStreaming
                 PROVE  /\ calls[r] = cfg[r].GuardRetryAttempts
                        /\ Len(seen[r]) = calls[r] + 1
                        /\ \A i \in DOMAIN seen[r] : Suspicious(cfg[r], seen[r][i])
        BY DEF BlockedOnlyAfterExhaustion
    <2>1. DoneInv(r) /\ BudgetInv(r) /\ seen[r] \in Seq(Bodies)
        BY DEF IInv, RequestInv, TypeInv, TypeOK
    <2>2. pc[r] = "done"
        BY <2>1 DEF BudgetInv
    <2> QED
        BY <2>1, <2>2 DEF DoneInv, AllSuspicious
<1> QED
    BY <1>1, Invariance, PTL

\* A finished request's last log line, and the absence of one, tell what
\* became of it, unless log_match was switched off since.
THEOREM LogTellsTheTruthHolds == Spec => []LogTellsTheTruth
<1>1. IInv => LogTellsTheTruth
    <2> SUFFICES ASSUME IInv, NEW r \in Requests, pc[r] = "done"
                 PROVE  CASE action[r].text = "pass" ->
                                reply[r] \in {"original", "retried"} /\ ~Suspicious(cfg[r], body[r])
                          [] action[r].text = "return_status" -> reply[r] = "blocked"
                          [] action[r].text = "observe_only" ->
                                ~cfg[r].InterceptNonStreaming /\ calls[r] = 0
                          [] action[r].text = "internal_retry" ->
                                /\ calls[r] + action[r].remaining > Granted(r)
                                /\ ~muted[r] =>
                                      /\ calls[r] + action[r].remaining = Granted(r) + 1
                                      /\ \/ reply[r] \in {"host_retry_failed", "host_retry_decode_failed"}
                                         \/ reply[r] = "retried" /\ Countless(body[r])
                          [] action[r].text = "none" ->
                                ~muted[r] => /\ calls[r] = 0
                                             /\ reply[r] # "blocked"
                                             /\ reply[r] = "original" => Countless(body[r])
        BY DEF LogTellsTheTruth
    <2>1. DoneInv(r) /\ BudgetInv(r) /\ LineInv(r) /\ LineDone(r)
        BY DEF IInv, RequestInv
    <2>2. calls[r] \in Nat
        BY DEF IInv, TypeInv, TypeOK
    <2>3. action[r].text \in {"none", "pass", "observe_only", "internal_retry", "return_status"}
        BY DEF IInv, TypeInv, TypeOK, LogLine
    <2>4. action[r].text = "internal_retry" => Granted(r) = cfg[r].GuardRetryAttempts
        BY <2>1 DEF LineInv, BudgetInv, Granted
    <2>5. CASE action[r].text = "internal_retry"
        BY <2>1, <2>4, <2>5 DEF LineInv, LineDone
    <2>6. CASE action[r].text = "pass"
        BY <2>1, <2>6 DEF DoneInv, LineDone
    <2>7. CASE action[r].text = "observe_only"
        <3>1. ~cfg[r].InterceptNonStreaming /\ ~(calls[r] > 0)
            BY <2>1, <2>7 DEF BudgetInv, LineDone
        <3> QED
            BY <2>2, <2>7, <3>1
    <2>8. CASE action[r].text \in {"none", "return_status"}
        BY <2>1, <2>8 DEF LineInv, LineDone
    <2> QED
        BY <2>3, <2>5, <2>6, <2>7, <2>8
<1> QED
    BY <1>1, Invariance, PTL
-----------------------------------------------------------------------------
(* Accounting.  The bodies taken up are a set that grows by one element at  *)
(* a time, always with the counters: no induction over it is needed.        *)

InspectedOnes == {t \in TakenUp : Readable(seen[t[1]][t[2]])}
MatchedOnes   == {t \in TakenUp : Suspicious(cfg[t[1]], seen[t[1]][t[2]])}
BlockedOnes   == {t \in TakenUp : /\ Suspicious(cfg[t[1]], seen[t[1]][t[2]])
                                  /\ cfg[t[1]].InterceptNonStreaming}

AccountInv ==
    /\ IsFiniteSet(TakenUp)
    /\ metrics["total"]     = Cardinality(TakenUp)
    /\ metrics["inspected"] = Cardinality(InspectedOnes)
    /\ metrics["matched"]   = Cardinality(MatchedOnes)
    /\ metrics["blocked"]   = Cardinality(BlockedOnes)

\* A set of which one element more counts grows by one, or not at all.
LEMMA OneMore ==
    ASSUME NEW S, IsFiniteSet(S), NEW T \in SUBSET S, NEW x, x \notin S, NEW T2, NEW yes \in BOOLEAN,
           T2 = IF yes THEN T \cup {x} ELSE T
    PROVE  Cardinality(T2) = Cardinality(T) + (IF yes THEN 1 ELSE 0)
<1>1. IsFiniteSet(T) /\ Cardinality(T) \in Nat
    BY FS_Subset, FS_CardinalityType
<1>2. x \notin T
    OBVIOUS
<1>3. CASE yes
    BY <1>1, <1>2, <1>3, FS_AddElement
<1>4. CASE ~yes
    BY <1>1, <1>4
<1> QED
    BY <1>3, <1>4

\* A handler that takes up body b under configuration c, and counts what it
\* should, keeps the account.
LEMMA TakesUp ==
    ASSUME TypeOK, AccountInv, NEW r \in Requests, NEW b \in Bodies, NEW c \in Configs,
           seen' = [seen EXCEPT ![r] = Append(@, b)],
           cfg'  = [cfg EXCEPT ![r] = c],
           seen[r] = <<>> \/ c = cfg[r],
           metrics' = [m \in Counter |-> metrics[m] +
                          (IF \/ m = "total"
                              \/ m = "inspected" /\ Readable(b)
                              \/ m = "matched" /\ Suspicious(c, b)
                              \/ m = "blocked" /\ Suspicious(c, b) /\ c.InterceptNonStreaming
                           THEN 1 ELSE 0)]
    PROVE  AccountInv'
<1> DEFINE x == <<r, Len(seen[r]) + 1>>
<1>0. Suspicious(c, b) \in BOOLEAN /\ c.InterceptNonStreaming \in BOOLEAN
    BY StoredConfigFacts DEF Suspicious, Readable, Reports, ReasoningMatched
<1>1. /\ seen[r] \in Seq(Bodies) /\ Len(seen[r]) \in Nat
      /\ DOMAIN seen[r] = 1..Len(seen[r])
    BY DEF TypeOK
<1>2. /\ seen'[r] = Append(seen[r], b) /\ DOMAIN seen'[r] = 1..(Len(seen[r]) + 1)
      /\ seen'[r][Len(seen[r]) + 1] = b /\ cfg'[r] = c
      /\ \A i \in DOMAIN seen[r] : seen'[r][i] = seen[r][i]
      /\ \A q \in Requests \ {r} : seen'[q] = seen[q] /\ cfg'[q] = cfg[q]
    BY <1>1 DEF TypeOK
<1>3. TakenUp' = TakenUp \cup {x} /\ x \notin TakenUp
    <2>1. \A q \in Requests : DOMAIN seen'[q] = DOMAIN seen[q] \cup (IF q = r THEN {Len(seen[r]) + 1} ELSE {})
        BY <1>1, <1>2
    <2>2. Len(seen[r]) + 1 \notin DOMAIN seen[r]
        BY <1>1
    <2>3. \A t : t \in TakenUp <=> \E q \in Requests : \E i \in DOMAIN seen[q] : t = <<q, i>>
        BY DEF TakenUp
    <2>4. \A t : t \in TakenUp' <=> \E q \in Requests : \E i \in DOMAIN seen'[q] : t = <<q, i>>
        BY DEF TakenUp
    <2>5. x \notin TakenUp
        BY <2>2, <2>3
    <2>6. \A t : t \in TakenUp' <=> t \in TakenUp \/ t = x
        BY <2>1, <2>3, <2>4
    <2> QED
        BY <2>5, <2>6
<1>4. \A t \in TakenUp : /\ seen'[t[1]][t[2]] = seen[t[1]][t[2]]
                         /\ cfg'[t[1]] = cfg[t[1]]
                         /\ t[1] \in Requests
    <2> SUFFICES ASSUME NEW q \in Requests, NEW i \in DOMAIN seen[q]
                 PROVE  seen'[q][i] = seen[q][i] /\ cfg'[q] = cfg[q]
        BY DEF TakenUp
    <2>1. CASE q = r
        <3>1. cfg[r] \in Configs /\ seen[r] # <<>>
            BY <1>1, <2>1 DEF TypeOK
        <3> QED
            BY <1>2, <2>1, <3>1
    <2> QED
        BY <1>2, <2>1
<1>5. x[1] = r /\ seen'[x[1]][x[2]] = b
    BY <1>2
<1>6. InspectedOnes' = IF Readable(b) THEN InspectedOnes \cup {x} ELSE InspectedOnes
    BY <1>3, <1>4, <1>5 DEF InspectedOnes
<1>7. MatchedOnes' = IF Suspicious(c, b) THEN MatchedOnes \cup {x} ELSE MatchedOnes
    <2> HIDE DEF x
    <2>1. \A t \in TakenUp : Suspicious(cfg'[t[1]], seen'[t[1]][t[2]]) <=> Suspicious(cfg[t[1]], seen[t[1]][t[2]])
        BY <1>4
    <2>2. Suspicious(cfg'[x[1]], seen'[x[1]][x[2]]) <=> Suspicious(c, b)
        BY <1>2, <1>5
    <2> QED
        BY <1>3, <2>1, <2>2 DEF MatchedOnes
<1>8. BlockedOnes' = IF Suspicious(c, b) /\ c.InterceptNonStreaming THEN BlockedOnes \cup {x} ELSE BlockedOnes
    <2> HIDE DEF x
    <2>1. \A t \in TakenUp : Suspicious(cfg'[t[1]], seen'[t[1]][t[2]]) <=> Suspicious(cfg[t[1]], seen[t[1]][t[2]])
        BY <1>4
    <2>2. Suspicious(cfg'[x[1]], seen'[x[1]][x[2]]) <=> Suspicious(c, b)
        BY <1>2, <1>5
    <2>3. cfg'[x[1]] = c /\ \A t \in TakenUp : cfg'[t[1]] = cfg[t[1]]
        BY <1>2, <1>4, <1>5
    <2> QED
        BY <1>3, <2>1, <2>2, <2>3 DEF BlockedOnes
<1>9. IsFiniteSet(TakenUp') /\ Cardinality(TakenUp') = Cardinality(TakenUp) + 1
    BY <1>3, FS_AddElement DEF AccountInv
<1>10. Cardinality(InspectedOnes') = Cardinality(InspectedOnes) + (IF Readable(b) THEN 1 ELSE 0)
    <2>1. InspectedOnes \in SUBSET TakenUp /\ IsFiniteSet(TakenUp) /\ Readable(b) \in BOOLEAN
        BY DEF AccountInv, InspectedOnes, Readable
    <2> QED
        BY <1>3, <1>6, <2>1, OneMore
<1>11. Cardinality(MatchedOnes') = Cardinality(MatchedOnes) + (IF Suspicious(c, b) THEN 1 ELSE 0)
    <2>1. MatchedOnes \in SUBSET TakenUp /\ IsFiniteSet(TakenUp)
        BY DEF AccountInv, MatchedOnes
    <2> QED
        BY <1>0, <1>3, <1>7, <2>1, OneMore
<1>12. Cardinality(BlockedOnes') = Cardinality(BlockedOnes)
                                     + (IF Suspicious(c, b) /\ c.InterceptNonStreaming THEN 1 ELSE 0)
    <2>1. BlockedOnes \in SUBSET TakenUp /\ IsFiniteSet(TakenUp)
        BY DEF AccountInv, BlockedOnes
    <2> DEFINE yes == Suspicious(c, b) /\ c.InterceptNonStreaming
    <2>2. yes \in BOOLEAN
        BY <1>0
    <2>3. BlockedOnes' = IF yes THEN BlockedOnes \cup {x} ELSE BlockedOnes
        BY <1>8
    <2> HIDE DEF yes
    <2>4. Cardinality(BlockedOnes') = Cardinality(BlockedOnes) + (IF yes THEN 1 ELSE 0)
        BY <1>3, <2>1, <2>2, <2>3, OneMore
    <2> QED
        BY <2>4 DEF yes
<1>13. /\ metrics'["total"]     = metrics["total"] + 1
       /\ metrics'["inspected"] = metrics["inspected"] + (IF Readable(b) THEN 1 ELSE 0)
       /\ metrics'["matched"]   = metrics["matched"] + (IF Suspicious(c, b) THEN 1 ELSE 0)
       /\ metrics'["blocked"]   = metrics["blocked"] + (IF Suspicious(c, b) /\ c.InterceptNonStreaming THEN 1 ELSE 0)
    BY DEF Counter
<1> QED
    BY <1>9, <1>10, <1>11, <1>12, <1>13 DEF AccountInv
\* What judging a readable body counts is what the account expects of it.
LEMMA JudgedIsCounted ==
    ASSUME NEW r \in Requests, NEW c \in Configs, NEW b \in Bodies, NEW n \in Nat,
           Readable(b), Judge(r, c, b, n)
    PROVE  metrics' = [m \in Counter |-> metrics[m] +
                          (IF \/ m = "total"
                              \/ m = "inspected" /\ Readable(b)
                              \/ m = "matched" /\ Suspicious(c, b)
                              \/ m = "blocked" /\ Suspicious(c, b) /\ c.InterceptNonStreaming
                           THEN 1 ELSE 0)]
<1> DEFINE v == InspectNonStream(c, b, n)
<1>1. v.Matched <=> Suspicious(c, b)
    BY InspectFacts
<1>2. Count(JudgedCounts(c, v))
    BY DEF Judge
<1> HIDE DEF v
<1>3. \A m \in Counter : m \in JudgedCounts(c, v) <=>
          \/ m = "total"
          \/ m = "inspected" /\ Readable(b)
          \/ m = "matched" /\ Suspicious(c, b)
          \/ m = "blocked" /\ Suspicious(c, b) /\ c.InterceptNonStreaming
    BY <1>1 DEF JudgedCounts, Counter
<1> QED
    BY <1>2, <1>3 DEF Count

\* So is what is counted of a body that is not readable.
LEMMA UnreadableIsCounted ==
    ASSUME NEW c, NEW b, ~Readable(b), Count({"total"})
    PROVE  metrics' = [m \in Counter |-> metrics[m] +
                          (IF \/ m = "total"
                              \/ m = "inspected" /\ Readable(b)
                              \/ m = "matched" /\ Suspicious(c, b)
                              \/ m = "blocked" /\ Suspicious(c, b) /\ c.InterceptNonStreaming
                           THEN 1 ELSE 0)]
BY DEF Count, Suspicious

\* A step that takes up nothing keeps the account.
LEMMA TakesUpNothing ==
    ASSUME AccountInv, UNCHANGED <<seen, cfg, metrics>>
    PROVE  AccountInv'
BY DEF AccountInv, TakenUp, InspectedOnes, MatchedOnes, BlockedOnes

\* Nothing has been taken up before any handler runs.
LEMMA InitAccount == Init => AccountInv
<1> SUFFICES ASSUME Init PROVE AccountInv
    OBVIOUS
<1>1. TakenUp = {}
    BY DEF Init, TakenUp
<1>2. InspectedOnes = {} /\ MatchedOnes = {} /\ BlockedOnes = {}
    BY <1>1 DEF InspectedOnes, MatchedOnes, BlockedOnes
<1> QED
    BY <1>1, <1>2, FS_EmptySet DEF Init, AccountInv, Counter

\* Every step keeps the account.
LEMMA NextAccount == IInv /\ AccountInv /\ [Next]_vars => AccountInv'
<1> SUFFICES ASSUME IInv, AccountInv, [Next]_vars PROVE AccountInv'
    OBVIOUS
<1>0. TypeOK /\ CallingOwesRetry /\ config \in Configs /\ config.GuardRetryAttempts \in Nat
    BY StoredConfigFacts DEF IInv, TypeInv, TypeOK
<1>1. ASSUME NEW r \in Requests, Skip(r) \/ CallHost(r) \/ Answer(r) \/ HostFails(r)
      PROVE  AccountInv'
    BY <1>1, TakesUpNothing DEF Skip, CallHost, Answer, HostFails
<1>2. ASSUME NEW r \in Requests, Reject(r) \/ Inspect(r) PROVE AccountInv'
    <2>1. /\ seen' = [seen EXCEPT ![r] = Append(@, body[r])]
          /\ cfg'  = [cfg EXCEPT ![r] = config]
          /\ body[r] \in Bodies
          /\ pc[r] = "arrived"
        BY <1>0, <1>2 DEF Reject, Inspect, TypeOK
    <2>2. seen[r] = <<>>
        BY <2>1 DEF IInv, RequestInv, ArrivedInv
    <2>3. metrics' = [m \in Counter |-> metrics[m] +
                        (IF \/ m = "total"
                            \/ m = "inspected" /\ Readable(body[r])
                            \/ m = "matched" /\ Suspicious(config, body[r])
                            \/ m = "blocked" /\ Suspicious(config, body[r]) /\ config.InterceptNonStreaming
                         THEN 1 ELSE 0)]
        <3>1. CASE Reject(r)
            BY <3>1, UnreadableIsCounted DEF Reject
        <3>2. CASE Inspect(r)
            BY <1>0, <2>1, <3>2, JudgedIsCounted DEF Inspect
        <3> QED
            BY <1>2, <3>1, <3>2
    <2> QED
        BY <1>0, <2>1, <2>2, <2>3, TakesUp
<1>3. ASSUME NEW r \in Requests, NEW b \in Bodies, Reinspect(r, b) \/ PassUnreadable(r, b)
      PROVE  AccountInv'
    <2>1. /\ seen' = [seen EXCEPT ![r] = Append(@, b)]
          /\ cfg'  = [cfg EXCEPT ![r] = cfg[r]]
          /\ cfg[r] \in Configs
          /\ left[r] - 1 \in Nat
        BY <1>0, <1>3 DEF Reinspect, PassUnreadable, TypeOK, CallingOwesRetry
    <2>3. metrics' = [m \in Counter |-> metrics[m] +
                        (IF \/ m = "total"
                            \/ m = "inspected" /\ Readable(b)
                            \/ m = "matched" /\ Suspicious(cfg[r], b)
                            \/ m = "blocked" /\ Suspicious(cfg[r], b) /\ cfg[r].InterceptNonStreaming
                         THEN 1 ELSE 0)]
        <3>1. CASE Reinspect(r, b)
            <4>1. Readable(b) /\ Judge(r, cfg[r], b, left[r] - 1)
                BY <3>1 DEF Reinspect
            <4> QED
                BY <1>0, <2>1, <4>1, JudgedIsCounted
        <3>2. CASE PassUnreadable(r, b)
            BY <3>2, UnreadableIsCounted DEF PassUnreadable
        <3> QED
            BY <1>3, <3>1, <3>2
    <2> QED
        BY <1>0, <2>1, <2>3, TakesUp
<1>4. ASSUME NEW c \in Configs, Reconfigure(c) PROVE AccountInv'
    BY <1>4, TakesUpNothing DEF Reconfigure
<1>5. CASE UNCHANGED vars
    BY <1>5, TakesUpNothing DEF vars
<1> QED
    BY <1>1, <1>2, <1>3, <1>4, <1>5 DEF Next, Handle

\* The four counters of the status page are the sums over every body taken up,
\* in every state, however the handlers interleave.
THEOREM AccountingHolds == Spec => []Accounting
<1>1. AccountInv => Accounting
    BY DEF AccountInv, Accounting, TakenUp, InspectedOnes, MatchedOnes, BlockedOnes
<1> QED
    BY <1>1, Invariance, InitAccount, NextAccount, PTL DEF Spec
-----------------------------------------------------------------------------
(* The guard implements the contract.  What the invariant has still to say  *)
(* is that a handler that judges began with a readable body: its budget in  *)
(* the contract exists from there on.                                       *)

JudgesReadable == \A r \in Requests :
    pc[r] \in {"judged", "calling"} => seen[r] # <<>> /\ Readable(seen[r][1])

\* It does: the first body is taken up in Inspect, and stays the first.
LEMMA NextReadable == IInv /\ JudgesReadable /\ [Next]_vars => JudgesReadable'
<1> SUFFICES ASSUME IInv, JudgesReadable, [Next]_vars, NEW q \in Requests,
                    pc'[q] \in {"judged", "calling"}
             PROVE  seen'[q] # <<>> /\ Readable(seen'[q][1])
    BY DEF JudgesReadable
<1>0. TypeOK /\ seen[q] \in Seq(Bodies)
    BY DEF IInv, TypeInv, TypeOK
<1>1. CASE UNCHANGED <<pc, seen>>
    BY <1>1 DEF JudgesReadable
<1>2. ASSUME NEW r \in Requests, Handle(r), q # r PROVE seen'[q] # <<>> /\ Readable(seen'[q][1])
    <2>1. Locals(q)' = Locals(q)
        BY <1>0, <1>2, OthersUntouched
    <2> QED
        BY <2>1 DEF JudgesReadable, Locals
<1>3. ASSUME Inspect(q) PROVE seen'[q] # <<>> /\ Readable(seen'[q][1])
    <2>1. seen[q] = <<>>
        BY <1>3 DEF IInv, RequestInv, ArrivedInv, Inspect
    <2>2. seen'[q] = Append(seen[q], body[q]) /\ Readable(body[q])
        BY <1>0, <1>3 DEF Inspect, TypeOK
    <2> QED
        BY <2>1, <2>2
<1>4. ASSUME CallHost(q) PROVE seen'[q] # <<>> /\ Readable(seen'[q][1])
    BY <1>4 DEF CallHost, JudgesReadable
<1>5. ASSUME NEW b \in Bodies, Reinspect(q, b) PROVE seen'[q] # <<>> /\ Readable(seen'[q][1])
    <2>1. seen[q] # <<>> /\ Readable(seen[q][1])
        BY <1>5 DEF Reinspect, JudgesReadable
    <2>2. seen'[q] = Append(seen[q], b)
        BY <1>0, <1>5 DEF Reinspect, TypeOK
    <2> QED
        BY <1>0, <2>1, <2>2, AppendProperties
<1>6. ASSUME Skip(q) \/ Reject(q) \/ Answer(q) \/ HostFails(q) \/ \E b \in Bodies : PassUnreadable(q, b)
      PROVE  FALSE
    BY <1>0, <1>6 DEF Skip, Reject, Answer, HostFails, PassUnreadable, Return, TypeOK
<1>7. ASSUME Handle(q) PROVE seen'[q] # <<>> /\ Readable(seen'[q][1])
    BY <1>3, <1>4, <1>5, <1>6, <1>7 DEF Handle
<1>8. ASSUME NEW c \in Configs, Reconfigure(c) PROVE UNCHANGED <<pc, seen>>
    BY <1>8 DEF Reconfigure
<1> QED
    BY <1>1, <1>2, <1>7, <1>8 DEF Next, vars

\* The largest budget of the configurations bounds each of them.
LEMMA GrantedBounded ==
    ASSUME NEW c \in Configs
    PROVE  MaxGranted \in Nat /\ c.GuardRetryAttempts \in 0..MaxGranted
<1> DEFINE Grants == {d.GuardRetryAttempts : d \in Configs}
<1>1. \E n \in Grants : \A d \in Configs : d.GuardRetryAttempts <= n
    BY GrantsAssumption
<1>2. MaxGranted \in Grants /\ \A d \in Configs : d.GuardRetryAttempts <= MaxGranted
    BY <1>1 DEF MaxGranted
<1> QED
    BY <1>2, StoredConfigFacts

\* Where only one request changes, only its place in the contract's state does.
LEMMA OneSlot ==
    ASSUME TypeOK, TypeOK', NEW r \in Requests,
           \A q \in Requests \ {r} : Locals(q)' = Locals(q)
    PROVE  /\ [q \in Requests |-> PhaseOf(q)]' = [[q \in Requests |-> PhaseOf(q)] EXCEPT ![r] = PhaseOf(r)']
           /\ [q \in Requests |-> BudgetOf(q)]' = [[q \in Requests |-> BudgetOf(q)] EXCEPT ![r] = BudgetOf(r)']
           /\ [q \in Requests |-> OutcomeOf(q)]' = [[q \in Requests |-> OutcomeOf(q)] EXCEPT ![r] = OutcomeOf(r)']
           /\ calls' = [calls EXCEPT ![r] = calls'[r]]
<1>1. \A q \in Requests \ {r} : PhaseOf(q)' = PhaseOf(q)
    BY DEF Locals, PhaseOf
<1>2. \A q \in Requests \ {r} : BudgetOf(q)' = BudgetOf(q)
    BY DEF Locals, BudgetOf, Granted
<1>3. \A q \in Requests \ {r} : OutcomeOf(q)' = OutcomeOf(q)
    BY DEF Locals, OutcomeOf, Delivered
<1>4. \A q \in Requests \ {r} : calls'[q] = calls[q]
    BY DEF Locals
<1>5. calls \in [Requests -> Nat] /\ calls' \in [Requests -> Nat]
    BY DEF TypeOK
<1>6. calls' = [calls EXCEPT ![r] = calls'[r]]
    BY <1>4, <1>5
<1> QED
    BY <1>1, <1>2, <1>3, <1>6

\* A step that ends request r and spends nothing settles it in the contract.
LEMMA SettlesAs ==
    ASSUME TypeOK, TypeOK', NEW r \in Requests, NEW o,
           \A q \in Requests \ {r} : Locals(q)' = Locals(q),
           PhaseOf(r)' = "settled", OutcomeOf(r)' = o, BudgetOf(r)' = BudgetOf(r), calls'[r] = calls[r]
    PROVE  Contract!Settle(r, o)
<1> DEFINE phase   == [q \in Requests |-> PhaseOf(q)]
           budget  == [q \in Requests |-> BudgetOf(q)]
           outcome == [q \in Requests |-> OutcomeOf(q)]
<1>1. phase' = [phase EXCEPT ![r] = PhaseOf(r)'] /\ outcome' = [outcome EXCEPT ![r] = OutcomeOf(r)']
    BY OneSlot
<1>2. phase' = [phase EXCEPT ![r] = "settled"] /\ outcome' = [outcome EXCEPT ![r] = o]
    BY <1>1, Zenon
<1>3. \A q \in Requests : BudgetOf(q)' = BudgetOf(q)
    BY DEF Locals, BudgetOf, Granted
<1>4. budget' = budget
    BY <1>3
<1>5. calls' = calls
    BY DEF Locals, TypeOK
<1> QED
    BY <1>2, <1>4, <1>5 DEF Contract!Settle

\* The first states of the guard are first states of the contract.
LEMMA InitMapped == Init => Contract!Init
<1> SUFFICES ASSUME Init PROVE Contract!Init
    OBVIOUS
<1>1. \A r \in Requests : PhaseOf(r) = "arriving" /\ BudgetOf(r) = 0 /\ OutcomeOf(r) = "none"
    BY DEF Init, PhaseOf, BudgetOf, OutcomeOf
<1> QED
    BY <1>1 DEF Init, Contract!Init
\* Every step of a handler is a step of the contract for its response, or none.
LEMMA HandlerMapped ==
    ASSUME Empty \notin Bodies, IInv, TypeOK', JudgesReadable, NEW r \in Requests, Handle(r)
    PROVE  Contract!Step(r) \/ UNCHANGED Contract!vars
<1>0. /\ TypeOK /\ RequestInv(r) /\ seen[r] \in Seq(Bodies) /\ calls[r] \in Nat /\ left[r] \in Nat
      /\ cfg[r] \in Configs /\ config \in Configs /\ body[r] \in Bodies
    BY DEF IInv, TypeInv, TypeOK
<1>1. \A q \in Requests \ {r} : Locals(q)' = Locals(q)
    BY <1>0, OthersUntouched
<1> DEFINE phase   == [q \in Requests |-> PhaseOf(q)]
           budget  == [q \in Requests |-> BudgetOf(q)]
           outcome == [q \in Requests |-> OutcomeOf(q)]
<1>2. /\ phase'   = [phase EXCEPT ![r] = PhaseOf(r)'] /\ phase[r] = PhaseOf(r)
      /\ budget'  = [budget EXCEPT ![r] = BudgetOf(r)'] /\ budget[r] = BudgetOf(r)
      /\ outcome' = [outcome EXCEPT ![r] = OutcomeOf(r)'] /\ outcome[r] = OutcomeOf(r)
      /\ calls'   = [calls EXCEPT ![r] = calls'[r]]
    BY <1>0, <1>1, OneSlot
<1>3. MaxGranted \in Nat /\ config.GuardRetryAttempts \in 0..MaxGranted
    BY <1>0, GrantedBounded
<1>4. pc[r] # "done" => reply[r] = "none"
    BY <1>0 DEF RequestInv, BudgetInv
<1>5. CASE Skip(r)
    <2>1. pc[r] = "arrived" /\ pc'[r] = "done" /\ reply'[r] = "untouched"
        BY <1>0, <1>5 DEF Skip, Return, TypeOK
    <2>2. calls'[r] = calls[r] /\ seen'[r] = seen[r] /\ cfg'[r] = cfg[r]
        BY <1>5 DEF Skip
    <2>3. PhaseOf(r) = "arriving" /\ PhaseOf(r)' = "settled" /\ OutcomeOf(r)' = "unguarded"
        BY <2>1 DEF PhaseOf, OutcomeOf
    <2>4. BudgetOf(r)' = BudgetOf(r)
        BY <2>2 DEF BudgetOf, Granted
    <2>5. Contract!TurnAway(r)
        <3>1. Contract!Settle(r, "unguarded")
            BY <1>0, <1>1, <2>2, <2>3, <2>4, SettlesAs
        <3> QED
            BY <1>2, <2>3, <3>1, Zenon DEF Contract!TurnAway
    <2> QED
        BY <2>5 DEF Contract!Step
<1>6. CASE Reject(r)
    <2>1. pc[r] = "arrived" /\ pc'[r] = "done" /\ reply'[r] = "inspect_failed"
        BY <1>0, <1>6 DEF Reject, Return, TypeOK
    <2>2. calls'[r] = calls[r] /\ seen[r] = <<>> /\ seen'[r] = Append(seen[r], body[r]) /\ ~Readable(body[r])
        BY <1>0, <1>6, <2>1 DEF Reject, RequestInv, ArrivedInv, TypeOK
    <2>3. PhaseOf(r) = "arriving" /\ PhaseOf(r)' = "settled" /\ OutcomeOf(r)' = "failed"
        BY <2>1 DEF PhaseOf, OutcomeOf
    <2>4. BudgetOf(r)' = BudgetOf(r)
        <3>1. seen'[r][1] = body[r] /\ seen'[r] # <<>>
            BY <2>2
        <3> QED
            BY <2>2, <3>1 DEF BudgetOf
    <2>5. Contract!TurnAway(r)
        <3>1. Contract!Settle(r, "failed")
            BY <1>0, <1>1, <2>2, <2>3, <2>4, SettlesAs
        <3> QED
            BY <1>2, <2>3, <3>1, Zenon DEF Contract!TurnAway
    <2> QED
        BY <2>5 DEF Contract!Step
<1>7. CASE Inspect(r)
    <2>1. pc[r] = "arrived" /\ pc'[r] = "judged" /\ reply'[r] = reply[r] /\ cfg'[r] = config
        BY <1>0, <1>7 DEF Inspect, Judge, TypeOK
    <2>2. calls'[r] = calls[r] /\ seen[r] = <<>> /\ seen'[r] = Append(seen[r], body[r]) /\ Readable(body[r])
        BY <1>0, <1>7, <2>1 DEF Inspect, RequestInv, ArrivedInv, TypeOK
    <2>3. PhaseOf(r) = "arriving" /\ PhaseOf(r)' = "judging" /\ OutcomeOf(r)' = OutcomeOf(r)
        BY <1>4, <2>1 DEF PhaseOf, OutcomeOf
    <2>4. BudgetOf(r)' \in 0..MaxGranted
        <3>1. seen'[r][1] = body[r] /\ seen'[r] # <<>>
            BY <2>2
        <3>2. Granted(r)' \in 0..MaxGranted
            BY <1>3, <2>1 DEF Granted
        <3> QED
            BY <2>2, <3>1, <3>2 DEF BudgetOf
    <2>5. Contract!Accept(r)
        <3>1. phase' = [phase EXCEPT ![r] = "judging"] /\ phase[r] = "arriving"
            BY <1>2, <2>3, Zenon
        <3>2. \A q \in Requests : OutcomeOf(q)' = OutcomeOf(q)
            BY <1>1, <2>3 DEF Locals, OutcomeOf, Delivered
        <3>3. outcome' = outcome /\ calls' = calls
            BY <1>0, <1>1, <2>2, <3>2 DEF Locals, TypeOK
        <3>4. \E b \in 0..MaxGranted : budget' = [budget EXCEPT ![r] = b]
            BY <1>2, <2>4, Zenon
        <3> QED
            BY <3>1, <3>3, <3>4, Zenon DEF Contract!Accept
    <2> QED
        BY <2>5 DEF Contract!Step
<1>8. CASE CallHost(r)
    <2>1. /\ pc[r] = "judged" /\ pc'[r] = "calling" /\ calls'[r] = calls[r] + 1
          /\ verdict[r].Retry /\ left[r] > 0
          /\ reply'[r] = reply[r] /\ cfg'[r] = cfg[r] /\ seen'[r] = seen[r]
        BY <1>0, <1>8 DEF CallHost, RetriesAgain, TypeOK
    <2>2. calls[r] + left[r] = cfg[r].GuardRetryAttempts /\ cfg[r].InterceptNonStreaming
        BY <1>0, <2>1, InspectFacts DEF RequestInv, JudgedInv
    <2>3. PhaseOf(r) = "judging" /\ PhaseOf(r)' = "judging" /\ OutcomeOf(r)' = OutcomeOf(r)
        BY <1>4, <2>1 DEF PhaseOf, OutcomeOf
    <2>4. BudgetOf(r)' = BudgetOf(r) /\ BudgetOf(r) = cfg[r].GuardRetryAttempts
        BY <2>1, <2>2 DEF BudgetOf, Granted, JudgesReadable
    <2>5. calls[r] < cfg[r].GuardRetryAttempts
        BY <1>0, <2>1, <2>2, StoredConfigFacts
    <2>6. Contract!Retry(r)
        <3>1. \A q \in Requests : OutcomeOf(q)' = OutcomeOf(q)
            BY <1>1, <2>3 DEF Locals, OutcomeOf, Delivered
        <3>2. \A q \in Requests : BudgetOf(q)' = BudgetOf(q)
            BY <1>1, <2>4 DEF Locals, BudgetOf, Granted
        <3>3. \A q \in Requests : PhaseOf(q)' = PhaseOf(q)
            BY <1>1, <2>3 DEF Locals, PhaseOf
        <3>4. phase' = phase /\ budget' = budget /\ outcome' = outcome
            BY <3>1, <3>2, <3>3
        <3>5. calls' = [calls EXCEPT ![r] = calls[r] + 1]
            BY <1>2, <2>1
        <3>6. phase[r] = "judging" /\ calls[r] < budget[r]
            BY <1>2, <2>3, <2>4, <2>5
        <3> QED
            BY <3>4, <3>5, <3>6, Zenon DEF Contract!Retry
    <2> QED
        BY <2>6 DEF Contract!Step
<1>9. CASE Answer(r)
    <2> DEFINE v == verdict[r]
    <2>1. /\ pc[r] = "judged" /\ pc'[r] = "done" /\ calls'[r] = calls[r]
          /\ ~(v.Retry /\ left[r] > 0)
          /\ cfg'[r] = cfg[r] /\ seen'[r] = seen[r] /\ body'[r] = body[r]
          /\ reply'[r] = IF v.StatusCode # 0 THEN "blocked" ELSE IF calls[r] = 0 THEN "original" ELSE "retried"
        BY <1>0, <1>9 DEF Answer, RetriesAgain, Return, TypeOK
    <2>2. /\ v = InspectNonStream(cfg[r], body[r], left[r])
          /\ calls[r] + left[r] = cfg[r].GuardRetryAttempts
          /\ Readable(body[r]) /\ seen[r][calls[r] + 1] = body[r]
          /\ calls[r] > 0 => cfg[r].InterceptNonStreaming
        BY <1>0, <2>1 DEF RequestInv, JudgedInv, BudgetInv
    <2>3. PhaseOf(r) = "judging" /\ PhaseOf(r)' = "settled"
        BY <2>1 DEF PhaseOf
    <2>4. BudgetOf(r)' = BudgetOf(r) /\ BudgetOf(r) = Granted(r)
        BY <2>1 DEF BudgetOf, Granted, JudgesReadable
    <2>5. CASE v.StatusCode # 0
        <3>1. OutcomeOf(r)' = "blocked"
            BY <2>1, <2>5 DEF OutcomeOf
        <3>2. ~cfg[r].InterceptNonStreaming \/ left[r] = 0
            BY <1>0, <2>2, <2>5, InspectFacts
        <3>3. calls[r] = Granted(r)
            BY <1>0, <2>2, <3>2 DEF Granted
        <3>4. Contract!Block(r)
            <4>1. Contract!Settle(r, "blocked")
                BY <1>0, <1>1, <2>1, <2>3, <2>4, <3>1, SettlesAs
            <4>2. phase[r] = "judging" /\ calls[r] = budget[r]
                BY <1>2, <2>3, <2>4, <3>3
            <4> QED
                BY <4>1, <4>2, Zenon DEF Contract!Block
        <3> QED
            BY <3>4 DEF Contract!Step
    <2>6. CASE v.StatusCode = 0
        <3>1. ~v.Retry
            <4>1. v.Retry => left[r] > 0
                BY <1>0, <2>2, InspectFacts
            <4> QED
                BY <2>1, <4>1
        <3>2. ~Suspicious(cfg[r], body[r])
            BY <1>0, <2>2, <2>6, <3>1, InspectFacts
        <3>3. Delivered(r)' = body[r]
            BY <1>0, <2>1, <2>2, <2>6 DEF Delivered
        <3>4. OutcomeOf(r)' = "clean"
            <4>1. ~Suspicious(cfg[r], Delivered(r))'
                BY <2>1, <3>2, <3>3
            <4>2. reply'[r] \in {"original", "retried"} /\ Readable(body'[r])
                BY <2>1, <2>2, <2>6
            <4> QED
                BY <4>1, <4>2 DEF OutcomeOf
        <3>5. Contract!Pass(r)
            <4>1. Contract!Settle(r, "clean")
                BY <1>0, <1>1, <2>1, <2>3, <2>4, <3>4, SettlesAs
            <4>2. phase[r] = "judging"
                BY <1>2, <2>3
            <4> QED
                BY <4>1, <4>2, Zenon DEF Contract!Pass
        <3> QED
            BY <3>5 DEF Contract!Step
    <2> QED
        BY <2>5, <2>6
<1>10. CASE HostFails(r)
    <2>1. /\ pc[r] = "calling" /\ pc'[r] = "done" /\ calls'[r] = calls[r]
          /\ cfg'[r] = cfg[r] /\ seen'[r] = seen[r]
          /\ reply'[r] \in {"host_retry_failed", "host_retry_decode_failed"}
        BY <1>0, <1>10 DEF HostFails, Return, TypeOK
    <2>2. calls[r] > 0
        BY <1>0, <2>1 DEF RequestInv, CallingInv
    <2>3. PhaseOf(r) = "judging" /\ PhaseOf(r)' = "settled" /\ OutcomeOf(r)' = "failed"
        BY <2>1 DEF PhaseOf, OutcomeOf
    <2>4. BudgetOf(r)' = BudgetOf(r)
        BY <2>1 DEF BudgetOf, Granted
    <2>5. Contract!Fail(r)
        <3>1. Contract!Settle(r, "failed")
            BY <1>0, <1>1, <2>1, <2>3, <2>4, SettlesAs
        <3>2. phase[r] = "judging"
            BY <1>2, <2>3
        <3> QED
            BY <2>2, <3>1, <3>2, Zenon DEF Contract!Fail
    <2> QED
        BY <2>5 DEF Contract!Step
<1>11. ASSUME NEW b \in Bodies, Reinspect(r, b) PROVE UNCHANGED Contract!vars
    <2>1. /\ pc[r] = "calling" /\ pc'[r] = "judged" /\ calls' = calls
          /\ cfg'[r] = cfg[r] /\ seen'[r] = Append(seen[r], b) /\ reply'[r] = reply[r]
        BY <1>0, <1>11 DEF Reinspect, Judge, TypeOK
    <2>2. seen[r] # <<>> /\ seen'[r] # <<>> /\ seen'[r][1] = seen[r][1]
        <3>1. seen[r] # <<>>
            BY <2>1 DEF JudgesReadable
        <3> QED
            BY <1>0, <2>1, <3>1, AppendProperties
    <2>3. PhaseOf(r)' = PhaseOf(r) /\ OutcomeOf(r)' = OutcomeOf(r)
        BY <1>4, <2>1 DEF PhaseOf, OutcomeOf
    <2>4. BudgetOf(r)' = BudgetOf(r)
        BY <2>1, <2>2 DEF BudgetOf, Granted
    <2>5. phase' = phase /\ budget' = budget /\ outcome' = outcome
        BY <1>2, <2>3, <2>4
    <2> QED
        BY <2>1, <2>5 DEF Contract!vars
<1>12. ASSUME NEW b \in Bodies, PassUnreadable(r, b) PROVE Contract!PassUnchecked(r)
    <2>1. /\ pc[r] = "calling" /\ pc'[r] = "done" /\ calls'[r] = calls[r]
          /\ cfg'[r] = cfg[r] /\ seen'[r] = Append(seen[r], b) /\ reply'[r] = "retried"
          /\ body'[r] = b /\ ~Readable(b) /\ b # Empty
        BY <1>0, <1>12 DEF PassUnreadable, Return, TypeOK
    <2>2. calls[r] > 0
        BY <1>0, <2>1 DEF RequestInv, CallingInv
    <2>3. seen[r] # <<>> /\ seen'[r] # <<>> /\ seen'[r][1] = seen[r][1]
        <3>1. seen[r] # <<>>
            BY <2>1 DEF JudgesReadable
        <3> QED
            BY <1>0, <2>1, <3>1, AppendProperties
    <2>4. PhaseOf(r) = "judging" /\ PhaseOf(r)' = "settled"
        BY <2>1 DEF PhaseOf
    <2>5. OutcomeOf(r)' = "unchecked"
        <3>1. Delivered(r)' = b
            BY <2>1 DEF Delivered
        <3>2. ~Suspicious(cfg[r], b)
            BY <2>1 DEF Suspicious
        <3>3. ~Suspicious(cfg[r], Delivered(r))'
            BY <2>1, <3>1, <3>2
        <3> QED
            BY <2>1, <3>3 DEF OutcomeOf
    <2>6. BudgetOf(r)' = BudgetOf(r)
        BY <2>1, <2>3 DEF BudgetOf, Granted
    <2> QED
        <3>1. Contract!Settle(r, "unchecked")
            BY <1>0, <1>1, <2>1, <2>4, <2>5, <2>6, SettlesAs
        <3>2. phase[r] = "judging"
            BY <1>2, <2>4
        <3> QED
            BY <2>2, <3>1, <3>2, Zenon DEF Contract!PassUnchecked
<1> QED
    BY <1>5, <1>6, <1>7, <1>8, <1>9, <1>10, <1>11, <1>12 DEF Handle, Contract!Step

\* So every step of the guard is a step of the contract, or none.
LEMMA StepMapped ==
    ASSUME Empty \notin Bodies, IInv, IInv', JudgesReadable, [Next]_vars
    PROVE  [Contract!Next]_(Contract!vars)
<1>1. ASSUME NEW r \in Requests, Handle(r) PROVE [Contract!Next]_(Contract!vars)
    <2>1. TypeOK'
        BY DEF IInv, TypeInv
    <2> QED
        BY <1>1, <2>1, HandlerMapped DEF Contract!Next
<1>2. ASSUME UNCHANGED <<pc, cfg, body, calls, reply, seen>> PROVE [Contract!Next]_(Contract!vars)
    BY <1>2 DEF Contract!vars, PhaseOf, BudgetOf, Granted, OutcomeOf, Delivered
<1>3. ASSUME NEW c \in Configs, Reconfigure(c) PROVE [Contract!Next]_(Contract!vars)
    BY <1>2, <1>3 DEF Reconfigure
<1>4. CASE UNCHANGED vars
    BY <1>2, <1>4 DEF vars
<1> QED
    BY <1>1, <1>3, <1>4 DEF Next

\* The guard implements the safety part of the contract: a response is judged
\* within a budget fixed when it arrives, and given one outcome, which is never
\* to pass on what is suspicious.  A retried body may be anything but empty
\* (an empty one restores the original, see SuspiciousNeverDelivered).
THEOREM Implementation ==
    ASSUME Empty \notin Bodies
    PROVE  Spec => Contract!Safety
<1>1. JudgesReadable /\ IInv /\ [Next]_vars => JudgesReadable'
    BY NextReadable
<1>2. Init => JudgesReadable
    BY DEF Init, JudgesReadable
<1>3. IInv /\ IInv' /\ JudgesReadable /\ [Next]_vars => [Contract!Next]_(Contract!vars)
    BY StepMapped
<1> QED
    BY <1>1, <1>2, <1>3, Invariance, InitMapped, PTL DEF Spec, Contract!Safety
=============================================================================
