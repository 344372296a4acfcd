--------------------------- MODULE StatusPageProofs ----------------------------
(****************************************************************************)
(* Proofs about the status page, for every number of requests under way,    *)
(* every length of the log and any number of responses, resets and failures.*)
(*                                                                          *)
(* What the routes answered is ordered in time by Precedes and LogsPrecede. *)
(* The inductive invariant IInv places every answer that is on its way to   *)
(* the page between what the page shows and what the server has, and has    *)
(* one exchange at most of the page's own: with two of them out the older   *)
(* answer could be the last to be shown.                                    *)
(****************************************************************************)
EXTENDS StatusPage, TLAPS

\* How many responses the resets have forgotten.
Forgotten(s) == s.ever - s.inspected

\* One status was taken no later than another.
Precedes(s, t) ==
    /\ s.ever <= t.ever /\ s.zeroed <= t.zeroed
    /\ Forgotten(s) <= Forgotten(t)
    /\ s.zeroed = t.zeroed => Forgotten(s) = Forgotten(t)

\* One log was.
LogsPrecede(k, l) == k.written <= l.written /\ k.cleared <= l.cleared

Own      == {"page", "refresh", "reset"}
Answered == {"refresh", "reset"}

\* The page comes first and alone, then it has one exchange at a time, out of
\* which come status and log.
PageInv ==
    /\ Rendered => latestLogs # None
    /\ \A e, f \in Exchanges : exchange[e].kind \in Own /\ exchange[f].kind \in Own => e = f
    /\ \A e \in Exchanges :
          /\ exchange[e].kind = "page" => ~Rendered
          /\ exchange[e].kind = "page" /\ exchange[e].status # None => exchange[e].logs # None
          /\ exchange[e].kind \in Answered => Rendered /\ refreshing

\* No status is newer than the server's, nor an answer older than what is shown.
StatusInv ==
    /\ Rendered => Precedes(latestStatus, status)
    /\ \A e \in Exchanges : exchange[e].status # None =>
          /\ Precedes(exchange[e].status, status)
          /\ exchange[e].kind \in Answered => Precedes(latestStatus, exchange[e].status)

LogsInv ==
    /\ Rendered => LogsPrecede(latestLogs, logs)
    /\ \A e \in Exchanges : exchange[e].logs # None =>
          /\ LogsPrecede(exchange[e].logs, logs)
          /\ exchange[e].kind \in Answered => LogsPrecede(latestLogs, exchange[e].logs)

IInv == TypeOK /\ PageInv /\ StatusInv /\ LogsInv

-----------------------------------------------------------------------------
(* Types.                                                                   *)

\* The bounds are numbers.
LEMMA ConstantTypes ==
    MaxLogEntries \in Nat \ {0} /\ MaxResponses \in Nat /\ MaxResets \in Nat /\ MaxFailures \in Nat
BY PageAssumption

\* What a fresh exchange is.
LEMMA FreshType ==
    ASSUME NEW kind \in {"none", "page", "refresh", "reset", "elsewhere"}
    PROVE  [NoExchange EXCEPT !.kind = kind] \in Exchange
BY DEF NoExchange, Exchange

\* No exchange is one.
LEMMA NoneType == NoExchange \in Exchange
BY DEF NoExchange, Exchange

\* The gain shown is a number (InspectedDelta, http.go:505-511).
LEMMA DeltaType ==
    ASSUME NEW s \in Status, latestStatus \in Status
    PROVE  InspectedDelta(s) \in Nat
BY DEF InspectedDelta, Status

\* What render leaves is of the right type.
LEMMA RenderType ==
    ASSUME TypeOK, NEW s \in Status, NEW l \in Logs, NEW rate \in Nat \cup {None},
           Render(s, l, rate)
    PROVE  /\ latestStatus' \in Status \cup {None} /\ latestLogs' \in Logs \cup {None}
           /\ latestActivityRate' \in Nat \cup {None}
BY DeltaType DEF TypeOK, Render

\* Init establishes TypeOK.
LEMMA InitType == Init => TypeOK
<1> SUFFICES ASSUME Init PROVE TypeOK
    OBVIOUS
<1>1. status \in Status
    BY DEF Init, Status
<1>2. logs \in Logs /\ Len(logs.entries) <= MaxLogEntries
    BY PageAssumption DEF Init, Logs
<1>3. exchange \in [Exchanges -> Exchange]
    BY DEF Init, NoExchange, Exchange
<1>4. /\ latestStatus = None /\ latestLogs = None /\ latestActivityRate = None
      /\ refreshing = FALSE /\ resets = 0 /\ failures = 0
    BY DEF Init
<1>5. resets \in 0..MaxResets /\ failures \in 0..MaxFailures
    BY <1>4, ConstantTypes
<1>6. QED
    BY <1>1, <1>2, <1>3, <1>4, <1>5 DEF TypeOK

\* Every step of the server and of the page keeps it.
LEMMA NextType == TypeOK /\ [Next]_vars => TypeOK'
<1> SUFFICES ASSUME TypeOK, [Next]_vars PROVE TypeOK'
    OBVIOUS
<1> USE ConstantTypes
<1>1. CASE UNCHANGED vars
    BY <1>1 DEF TypeOK, vars, server, page
<1>2. CASE Inspected
  <2>1. status' = [inspected |-> status.inspected + 1, ever |-> status.ever + 1,
                   zeroed |-> status.zeroed]
      BY <1>2 DEF TypeOK, Inspected, Status
  <2>2. status' \in Status
      BY <2>1 DEF TypeOK, Status
  <2>3. QED
      BY <1>2, <2>2 DEF TypeOK, Inspected, page
<1>3. CASE Logged
  <2> DEFINE entries == Append(logs.entries, logs.written + 1)
             kept    == IF Len(entries) > MaxLogEntries THEN Tail(entries) ELSE entries
  <2>1. logs.entries \in Seq(Nat) /\ logs.written + 1 \in Nat /\ logs.cleared \in Nat
      BY DEF TypeOK, Logs
  <2>2. entries \in Seq(Nat) /\ Len(entries) = Len(logs.entries) + 1
      BY <2>1
  <2>3. kept \in Seq(Nat) /\ Len(kept) <= MaxLogEntries
    <3>1. CASE Len(entries) > MaxLogEntries
      <4>1. entries # <<>>
          BY <2>2, <3>1
      <4>2. Tail(entries) \in Seq(Nat) /\ Len(Tail(entries)) = Len(entries) - 1
          BY <2>2, <4>1
      <4>3. QED
          BY <2>2, <3>1, <4>2 DEF TypeOK
    <3>2. CASE ~(Len(entries) > MaxLogEntries)
        BY <2>2, <3>2
    <3>3. QED
        BY <3>1, <3>2
  <2>4. logs' = [logs EXCEPT !.written = @ + 1, !.entries = kept]
      BY <1>3 DEF Logged
  <2>5. logs' = [entries |-> kept, written |-> logs.written + 1, cleared |-> logs.cleared]
      BY <2>4 DEF TypeOK, Logs
  <2> HIDE DEF kept
  <2>6. logs' \in Logs /\ Len(logs'.entries) <= MaxLogEntries
      BY <2>1, <2>3, <2>5 DEF Logs
  <2>7. QED
      BY <1>3, <2>6 DEF TypeOK, Logged, page
<1>4. CASE LimitChanged
  <2>1. UNCHANGED <<server, exchange, refreshing, resets, failures>>
      BY <1>4 DEF LimitChanged
  <2>2. latestStatus \in Status
      BY <1>4 DEF LimitChanged, Rendered, TypeOK
  <2>3. InspectedDelta(latestStatus) \in Nat
      BY <2>2, DeltaType
  <2>4. QED
      BY <1>4, <2>1, <2>3 DEF LimitChanged, Rendered, Render, TypeOK, server
<1>5. ASSUME NEW e \in Exchanges, ServeLogs(e) PROVE TypeOK'
    BY <1>5 DEF TypeOK, ServeLogs, server, page, Exchange
<1>6. ASSUME NEW e \in Exchanges, ServeStatus(e) PROVE TypeOK'
    BY <1>6 DEF TypeOK, ServeStatus, server, page, Exchange
<1>7. ASSUME NEW e \in Exchanges, ServeReset(e) PROVE TypeOK'
  <2>1. UNCHANGED <<page, resets, failures>>
      BY <1>7 DEF ServeReset
  <2>2. CASE exchange[e].stage = "sent"
    <3>1. /\ status' = [status EXCEPT !.inspected = 0, !.zeroed = @ + 1]
          /\ exchange' = [exchange EXCEPT ![e].stage = "zeroed"] /\ UNCHANGED logs
        BY <1>7, <2>2 DEF ServeReset
    <3>2. status' = [inspected |-> 0, ever |-> status.ever, zeroed |-> status.zeroed + 1]
        BY <3>1 DEF TypeOK, Status
    <3>3. status' \in Status
        BY <3>2 DEF TypeOK, Status
    <3>4. exchange' \in [Exchanges -> Exchange]
        BY <3>1 DEF TypeOK, Exchange
    <3>5. QED
        BY <2>1, <3>1, <3>3, <3>4 DEF TypeOK, page
  <2>3. CASE exchange[e].stage = "zeroed"
    <3>1. /\ logs' = [logs EXCEPT !.entries = <<>>, !.cleared = @ + 1]
          /\ exchange' = [exchange EXCEPT ![e].stage = "cleared",
                            ![e].logs = IF exchange[e].kind = "reset" THEN logs' ELSE None]
          /\ UNCHANGED status
        BY <1>7, <2>3 DEF ServeReset
    <3>5. logs' = [entries |-> <<>>, written |-> logs.written, cleared |-> logs.cleared + 1]
        BY <3>1 DEF TypeOK, Logs
    <3>2. logs' \in Logs /\ Len(logs'.entries) <= MaxLogEntries
      <4>1. <<>> \in Seq(Nat) /\ Len(<<>>) = 0
          OBVIOUS
      <4>2. QED
          BY <3>5, <4>1 DEF TypeOK, Logs
    <3>6. PICK answer \in Logs \cup {None} :
             exchange' = [exchange EXCEPT ![e].stage = "cleared", ![e].logs = answer]
        BY <3>1, <3>2
    <3>7. [exchange[e] EXCEPT !.stage = "cleared", !.logs = answer] \in Exchange
      <4>1. exchange[e] \in Exchange
          BY DEF TypeOK
      <4>2. QED
          BY <4>1 DEF Exchange
    <3>8. exchange' = [exchange EXCEPT ![e] = [exchange[e] EXCEPT !.stage = "cleared", !.logs = answer]]
        BY <3>6 DEF TypeOK
    <3>3. exchange' \in [Exchanges -> Exchange]
        BY <3>7, <3>8 DEF TypeOK
    <3>4. QED
        BY <2>1, <3>1, <3>2, <3>3 DEF TypeOK, page
  <2>4. CASE exchange[e].stage = "cleared"
    <3>1. /\ exchange' = [exchange EXCEPT ![e] =
                 IF @.kind = "elsewhere" THEN NoExchange ELSE [@ EXCEPT !.status = status]]
          /\ UNCHANGED server
        BY <1>7, <2>4 DEF ServeReset
    <3>2. QED
        BY <2>1, <3>1, NoneType DEF TypeOK, page, server, Exchange
  <2>5. QED
      BY <2>2, <2>3, <2>4 DEF TypeOK, Exchange
<1>8. ASSUME NEW e \in Exchanges, initial(e) PROVE TypeOK'
  <2>1. exchange[e].status \in Status
      BY <1>8 DEF initial, TypeOK, Exchange
  <2>2. InspectedDelta(exchange[e].status) \in Nat \/ latestStatus = None
      BY <2>1, DeltaType DEF TypeOK
  <2>3. QED
      BY <1>8, <2>1, <2>2, NoneType DEF initial, Render, Settle, TypeOK, Exchange, server
<1>9. ASSUME NEW e \in Exchanges, refresh(e) PROVE TypeOK'
    BY <1>9, FreshType DEF refresh, Start, TypeOK, server
<1>10. ASSUME NEW e \in Exchanges, resetData(e) PROVE TypeOK'
    BY <1>10, FreshType DEF resetData, Start, TypeOK, server
<1>11. ASSUME NEW e \in Exchanges, Then(e) PROVE TypeOK'
  <2>1. exchange[e].status \in Status /\ exchange[e].logs \in Logs
      BY <1>11 DEF Then, TypeOK, Exchange
  <2>2. InspectedDelta(exchange[e].status) \in Nat \/ latestStatus = None
      BY <2>1, DeltaType DEF TypeOK
  <2>3. QED
      BY <1>11, <2>1, <2>2, NoneType DEF Then, Render, Settle, TypeOK, server
<1>12. ASSUME NEW e \in Exchanges, Catch(e) PROVE TypeOK'
  <2>1. exchange' \in [Exchanges -> Exchange]
      BY <1>12, NoneType DEF Catch, Settle, TypeOK, Exchange
  <2>2. failures' \in 0..MaxFailures
      BY <1>12 DEF Catch, TypeOK
  <2>3. QED
      BY <1>12, <2>1, <2>2 DEF Catch, TypeOK, server
<1>13. ASSUME NEW e \in Exchanges, ElsewhereReset(e) PROVE TypeOK'
    BY <1>13, FreshType DEF ElsewhereReset, Start, TypeOK, server, page
<1>14. QED
    BY <1>1, <1>2, <1>3, <1>4, <1>5, <1>6, <1>7, <1>8, <1>9, <1>10, <1>11, <1>12, <1>13
    DEF Next, Server

\* The status page's variables keep their types, and the log its length, for
\* every length of the log and any number of requests under way.
THEOREM TypeCorrect == Spec => []TypeOK
BY InitType, NextType, PTL DEF Spec

-----------------------------------------------------------------------------
(* One request of the page's own at a time.                                 *)

\* Init establishes PageInv.
LEMMA InitPage == Init => PageInv
<1> SUFFICES ASSUME Init PROVE PageInv
    OBVIOUS
<1> DEFINE first == CHOOSE e \in Exchanges : TRUE
<1>1. \A e \in Exchanges : /\ exchange[e].kind = (IF e = first THEN "page" ELSE "none")
                           /\ exchange[e].status = None
    BY DEF Init, NoExchange
<1>2. latestStatus = None
    BY DEF Init
<1> HIDE DEF first
<1>3. QED
    BY <1>1, <1>2 DEF PageInv, Own, Answered, Rendered

\* Exchanges other than one are untouched, and that one is no longer the page's.
LEMMA Retired ==
    ASSUME TypeOK, PageInv, NEW e \in Exchanges, NEW x \in Exchange, x.kind \notin Own,
           exchange' = [exchange EXCEPT ![e] = x],
           Rendered' => latestLogs' # None,
           \/ UNCHANGED page
           \/ exchange[e].kind \in Own
    PROVE  PageInv'
<1>1. \A f \in Exchanges : exchange'[f] = (IF f = e THEN x ELSE exchange[f])
    BY DEF TypeOK
<1>2. CASE UNCHANGED page
    BY <1>1, <1>2 DEF PageInv, page, Rendered, Own, Answered
<1>3. CASE exchange[e].kind \in Own
  <2>1. \A f \in Exchanges : exchange'[f].kind \notin Own
      BY <1>1, <1>3 DEF PageInv
  <2>2. QED
      BY <2>1 DEF PageInv, Own, Answered
<1>4. QED
    BY <1>2, <1>3

\* An exchange goes on: its kind and what the page shows stay.
LEMMA GoesOn ==
    ASSUME TypeOK, PageInv, NEW e \in Exchanges, NEW x \in Exchange, UNCHANGED page,
           x.kind = exchange[e].kind,
           x.kind = "page" /\ x.status # None => x.logs # None,
           exchange' = [exchange EXCEPT ![e] = x]
    PROVE  PageInv'
<1>1. \A f \in Exchanges : exchange'[f] = (IF f = e THEN x ELSE exchange[f])
    BY DEF TypeOK
<1>2. \A f \in Exchanges : exchange'[f].kind = exchange[f].kind
    BY <1>1
<1>3. QED
    BY <1>1, <1>2 DEF PageInv, page, Rendered

\* The page starts an exchange: none of its own is out.
LEMMA Started ==
    ASSUME TypeOK, PageInv, NEW e \in Exchanges, NEW kind \in Answered, Start(e, kind),
           Rendered, ~refreshing, refreshing', UNCHANGED <<latestStatus, latestLogs>>
    PROVE  PageInv'
<1>1. \A f \in Exchanges : exchange[f].kind \notin Own
    BY DEF PageInv, Own, Answered
<1>2. \A f \in Exchanges : f # e => exchange'[f] = exchange[f]
    BY DEF Start, TypeOK
<1>3. exchange'[e].kind = kind /\ exchange'[e].status = None
    BY DEF Start, TypeOK, NoExchange
<1>4. QED
    BY <1>1, <1>2, <1>3 DEF PageInv, Own, Answered, Rendered

\* Every step keeps it.
LEMMA NextPage == TypeOK /\ PageInv /\ [Next]_vars => PageInv'
<1> SUFFICES ASSUME TypeOK, PageInv, [Next]_vars PROVE PageInv'
    OBVIOUS
<1>0. TypeOK'
    BY NextType
<1>1. CASE UNCHANGED vars
    BY <1>1 DEF PageInv, Rendered, vars, server, page
<1>2. CASE Inspected \/ Logged \/ LimitChanged
  <2>1. exchange' = exchange /\ (latestStatus' = latestStatus) /\ latestLogs' = latestLogs
        /\ refreshing' = refreshing
      BY <1>2 DEF Inspected, Logged, LimitChanged, Render, page
  <2>2. QED
      BY <2>1 DEF PageInv, Rendered
<1>5. ASSUME NEW e \in Exchanges, ServeLogs(e) PROVE PageInv'
  <2>1. exchange' = [exchange EXCEPT ![e] = [@ EXCEPT !.logs = logs]] /\ UNCHANGED page
      BY <1>5 DEF ServeLogs, TypeOK
  <2>2. [exchange[e] EXCEPT !.logs = logs] \in Exchange
      BY DEF TypeOK, Exchange
  <2>3. exchange[e].kind = "page" /\ exchange[e].status # None => exchange[e].logs # None
      BY DEF PageInv
  <2>4. QED
      BY <1>5, <2>1, <2>2, <2>3, GoesOn DEF ServeLogs, Exchange, TypeOK
<1>6. ASSUME NEW e \in Exchanges, ServeStatus(e) PROVE PageInv'
  <2>1. exchange' = [exchange EXCEPT ![e] = [@ EXCEPT !.status = status]] /\ UNCHANGED page
      BY <1>6 DEF ServeStatus, TypeOK
  <2>2. [exchange[e] EXCEPT !.status = status] \in Exchange
      BY DEF TypeOK, Exchange
  <2>3. exchange[e].kind = "page" => exchange[e].logs # None
      BY <1>6 DEF ServeStatus
  <2>4. QED
      BY <2>1, <2>2, <2>3, GoesOn DEF Exchange, TypeOK
<1>7. ASSUME NEW e \in Exchanges, ServeReset(e) PROVE PageInv'
  <2>0. exchange[e].kind \in {"reset", "elsewhere"} /\ UNCHANGED page
      BY <1>7 DEF ServeReset
  <2>1. CASE exchange'[e].kind = exchange[e].kind
    <3>1. exchange' = [exchange EXCEPT ![e] = exchange'[e]]
        BY <1>7, <1>0 DEF ServeReset, TypeOK, Exchange
    <3>2. exchange'[e] \in Exchange
        BY <1>0 DEF TypeOK
    <3>3. QED
        BY <2>0, <2>1, <3>1, <3>2, GoesOn
  <2>2. CASE exchange'[e].kind # exchange[e].kind
    <3>1. exchange' = [exchange EXCEPT ![e] = NoExchange]
      <4>1. CASE exchange[e].stage = "cleared" /\ exchange[e].kind = "elsewhere"
          BY <1>7, <4>1 DEF ServeReset
      <4>2. CASE exchange[e].stage = "cleared" /\ exchange[e].kind = "reset"
          BY <1>7, <2>2, <4>2 DEF ServeReset, TypeOK, Exchange
      <4>3. CASE exchange[e].stage = "sent"
          BY <1>7, <2>2, <4>3 DEF ServeReset, TypeOK, Exchange
      <4>4. CASE exchange[e].stage = "zeroed"
          BY <1>7, <2>2, <4>4 DEF ServeReset, TypeOK, Exchange
      <4>5. QED
          BY <2>0, <4>1, <4>2, <4>3, <4>4 DEF TypeOK, Exchange
    <3>2. NoExchange.kind \notin Own
        BY DEF NoExchange, Own
    <3>3. QED
        BY <2>0, <3>1, <3>2, NoneType, Retired DEF PageInv, page, Rendered
  <2>3. QED
      BY <2>1, <2>2
<1>8. ASSUME NEW e \in Exchanges, initial(e) \/ Then(e) PROVE PageInv'
  <2>1. exchange[e].kind \in Own
      BY <1>8 DEF initial, Then, Own
  <2>2. exchange' = [exchange EXCEPT ![e] = NoExchange]
      BY <1>8 DEF initial, Then, Settle
  <2>3. latestLogs' = exchange[e].logs /\ exchange[e].logs # None
      BY <1>8 DEF initial, Then, Render, PageInv
  <2>4. NoExchange.kind \notin Own
      BY DEF NoExchange, Own
  <2>5. QED
      BY <2>1, <2>2, <2>3, <2>4, NoneType, Retired
<1>9. ASSUME NEW e \in Exchanges, refresh(e) PROVE PageInv'
    BY <1>9, Started DEF refresh, Answered
<1>10. ASSUME NEW e \in Exchanges, resetData(e) PROVE PageInv'
    BY <1>10, Started DEF resetData, Answered
<1>12. ASSUME NEW e \in Exchanges, Catch(e) PROVE PageInv'
  <2>1. exchange[e].kind \in Own /\ UNCHANGED <<latestStatus, latestLogs>>
      BY <1>12 DEF Catch, Own
  <2>2. PICK x \in Exchange : x.kind \notin Own /\ exchange' = [exchange EXCEPT ![e] = x]
    <3>1. CASE exchange' = [exchange EXCEPT ![e] = NoExchange]
        BY <3>1, NoneType DEF NoExchange, Own
    <3>2. CASE exchange' = [exchange EXCEPT ![e].kind = "elsewhere", ![e].logs = None]
      <4> DEFINE x == [exchange[e] EXCEPT !.kind = "elsewhere", !.logs = None]
      <4>1. x \in Exchange /\ x.kind = "elsewhere"
          BY DEF TypeOK, Exchange
      <4>2. exchange' = [exchange EXCEPT ![e] = x]
          BY <3>2 DEF TypeOK
      <4>3. QED
          BY <4>1, <4>2 DEF Own
    <3>3. QED
        BY <1>12, <3>1, <3>2 DEF Catch, Settle
  <2>3. QED
      BY <2>1, <2>2, Retired DEF PageInv, Rendered
<1>13. ASSUME NEW e \in Exchanges, ElsewhereReset(e) PROVE PageInv'
  <2>1. exchange' = [exchange EXCEPT ![e] = [NoExchange EXCEPT !.kind = "elsewhere"]] /\ UNCHANGED page
      BY <1>13 DEF ElsewhereReset, Start
  <2>2. [NoExchange EXCEPT !.kind = "elsewhere"].kind \notin Own
      BY DEF NoExchange, Own
  <2>3. QED
      BY <2>1, <2>2, FreshType, Retired DEF PageInv, page, Rendered
<1>14. QED
    BY <1>1, <1>2, <1>5, <1>6, <1>7, <1>8, <1>9, <1>10, <1>12, <1>13 DEF Next, Server

-----------------------------------------------------------------------------
(* Answers in the order of time.                                            *)

\* Precedes is an order.
LEMMA StatusOrder ==
    /\ \A s \in Status : Precedes(s, s)
    /\ \A s, t, u \in Status : Precedes(s, t) /\ Precedes(t, u) => Precedes(s, u)
BY DEF Status, Precedes, Forgotten

\* So is LogsPrecede.
LEMMA LogsOrder ==
    /\ \A k \in Logs : LogsPrecede(k, k)
    /\ \A k, l, m \in Logs : LogsPrecede(k, l) /\ LogsPrecede(l, m) => LogsPrecede(k, m)
<1>1. \A l \in Logs : l.written \in Nat /\ l.cleared \in Nat
    BY DEF Logs
<1>2. QED
    BY <1>1 DEF LogsPrecede

\* What a step does to the answers: the server's status goes on in time, an
\* answer is the server's or was there, and a newly shown one was there, with
\* no exchange of the page's left.
StatusStep ==
    /\ Precedes(status, status')
    /\ \A e \in Exchanges : exchange'[e].status # None =>
          \/ exchange'[e].status = status'
          \/ /\ exchange'[e].status = exchange[e].status
             /\ exchange'[e].kind \in Answered => exchange[e].kind \in Answered
    /\ \/ latestStatus' = latestStatus
       \/ /\ \A e \in Exchanges : exchange'[e].kind \notin Answered
          /\ \E e \in Exchanges : exchange[e].status # None /\ latestStatus' = exchange[e].status

LogsStep ==
    /\ LogsPrecede(logs, logs')
    /\ \A e \in Exchanges : exchange'[e].logs # None =>
          \/ exchange'[e].logs = logs'
          \/ /\ exchange'[e].logs = exchange[e].logs
             /\ exchange'[e].kind \in Answered => exchange[e].kind \in Answered
    /\ \/ latestLogs' = latestLogs /\ latestStatus' = latestStatus
       \/ /\ \A e \in Exchanges : exchange'[e].kind \notin Answered
          /\ \E e \in Exchanges : exchange[e].logs # None /\ latestLogs' = exchange[e].logs

\* A step that does that keeps the order of the statuses.
LEMMA StatusKept ==
    ASSUME TypeOK, TypeOK', PageInv', StatusInv, StatusStep
    PROVE  StatusInv'
<1>1. /\ status \in Status /\ status' \in Status
      /\ latestStatus # None => latestStatus \in Status
      /\ \A e \in Exchanges : exchange[e].status # None => exchange[e].status \in Status
    BY DEF TypeOK, Exchange
<1>2. Precedes(status, status')
    BY DEF StatusStep
<1>3. \A e \in Exchanges : exchange[e].status # None => Precedes(exchange[e].status, status')
    BY <1>1, <1>2, StatusOrder DEF StatusInv
<1>4. Rendered => Precedes(latestStatus, status')
    BY <1>1, <1>2, StatusOrder DEF StatusInv, Rendered
<1>5. Rendered' => Precedes(latestStatus', status')
    BY <1>3, <1>4 DEF StatusStep, Rendered
<1>6. ASSUME NEW e \in Exchanges, exchange'[e].status # None
      PROVE  /\ Precedes(exchange'[e].status, status')
             /\ exchange'[e].kind \in Answered => Precedes(latestStatus', exchange'[e].status)
  <2>1. CASE exchange'[e].status = status'
    <3>1. Precedes(exchange'[e].status, status')
        BY <1>1, <2>1, StatusOrder
    <3>2. QED
        BY <1>5, <2>1, <3>1 DEF PageInv
  <2>2. CASE /\ exchange'[e].status = exchange[e].status
             /\ exchange'[e].kind \in Answered => exchange[e].kind \in Answered
    <3>1. CASE exchange'[e].kind \in Answered
      <4>1. latestStatus' = latestStatus
          BY <3>1 DEF StatusStep
      <4>2. QED
          BY <1>3, <1>6, <2>2, <3>1, <4>1 DEF StatusInv
    <3>2. CASE exchange'[e].kind \notin Answered
        BY <1>3, <1>6, <2>2, <3>2
    <3>3. QED
        BY <3>1, <3>2
  <2>3. QED
      BY <1>6, <2>1, <2>2 DEF StatusStep
<1>7. QED
    BY <1>5, <1>6 DEF StatusInv

\* And that of the logs.
LEMMA LogsKept ==
    ASSUME TypeOK, TypeOK', PageInv, PageInv', LogsInv, LogsStep
    PROVE  LogsInv'
<1>1. /\ logs \in Logs /\ logs' \in Logs
      /\ latestLogs # None => latestLogs \in Logs
      /\ \A e \in Exchanges : exchange[e].logs # None => exchange[e].logs \in Logs
    BY DEF TypeOK, Exchange
<1>2. LogsPrecede(logs, logs')
    BY DEF LogsStep
<1>3. \A e \in Exchanges : exchange[e].logs # None => LogsPrecede(exchange[e].logs, logs')
    BY <1>1, <1>2, LogsOrder DEF LogsInv
<1>4. Rendered => LogsPrecede(latestLogs, logs')
    BY <1>1, <1>2, LogsOrder DEF LogsInv, PageInv
<1>5. Rendered' => LogsPrecede(latestLogs', logs')
    BY <1>3, <1>4 DEF LogsStep, Rendered
<1>6. ASSUME NEW e \in Exchanges, exchange'[e].logs # None
      PROVE  /\ LogsPrecede(exchange'[e].logs, logs')
             /\ exchange'[e].kind \in Answered => LogsPrecede(latestLogs', exchange'[e].logs)
  <2>1. CASE exchange'[e].logs = logs'
    <3>1. LogsPrecede(exchange'[e].logs, logs')
        BY <1>1, <2>1, LogsOrder
    <3>2. QED
        BY <1>5, <2>1, <3>1 DEF PageInv
  <2>2. CASE /\ exchange'[e].logs = exchange[e].logs
             /\ exchange'[e].kind \in Answered => exchange[e].kind \in Answered
    <3>1. CASE exchange'[e].kind \in Answered
      <4>1. latestLogs' = latestLogs
          BY <3>1 DEF LogsStep
      <4>2. QED
          BY <1>3, <1>6, <2>2, <3>1, <4>1 DEF LogsInv
    <3>2. CASE exchange'[e].kind \notin Answered
        BY <1>3, <1>6, <2>2, <3>2
    <3>3. QED
        BY <3>1, <3>2
  <2>3. QED
      BY <1>6, <2>1, <2>2 DEF LogsStep
<1>7. QED
    BY <1>5, <1>6 DEF LogsInv

\* Every step does that.
LEMMA StepsInOrder ==
    ASSUME TypeOK, TypeOK', PageInv, StatusInv, [Next]_vars
    PROVE  StatusStep /\ LogsStep
<1>1. \A e \in Exchanges : exchange[e] \in Exchange
    BY DEF TypeOK
<1>2. status \in Status /\ Precedes(status, status)
    BY StatusOrder DEF TypeOK
<1>3. logs \in Logs /\ LogsPrecede(logs, logs)
    BY LogsOrder DEF TypeOK
<1>4. CASE UNCHANGED vars
    BY <1>2, <1>3, <1>4 DEF StatusStep, LogsStep, vars, server, page
<1>5. CASE Inspected
  <2>1. Precedes(status, status')
      BY <1>2, <1>5 DEF Inspected, Precedes, Forgotten, Status
  <2>2. QED
      BY <1>3, <1>5, <2>1 DEF Inspected, page, StatusStep, LogsStep
<1>6. CASE Logged
  <2>1. logs'.written = logs.written + 1 /\ logs'.cleared = logs.cleared
      BY <1>3, <1>6 DEF Logged, Logs
  <2>2. logs.written \in Nat /\ logs.cleared \in Nat
      BY <1>3 DEF Logs
  <2>3. LogsPrecede(logs, logs')
      BY <2>1, <2>2 DEF LogsPrecede
  <2>4. UNCHANGED <<status, exchange, page>>
      BY <1>6 DEF Logged
  <2>5. QED
      BY <1>2, <2>3, <2>4 DEF page, StatusStep, LogsStep
<1>7. CASE LimitChanged
    BY <1>2, <1>3, <1>7 DEF LimitChanged, Render, server, StatusStep, LogsStep
<1>8. ASSUME NEW e \in Exchanges, ServeLogs(e) PROVE StatusStep /\ LogsStep
    BY <1>1, <1>2, <1>3, <1>8 DEF ServeLogs, server, page, StatusStep, LogsStep, TypeOK, Exchange
<1>9. ASSUME NEW e \in Exchanges, ServeStatus(e) PROVE StatusStep /\ LogsStep
    BY <1>1, <1>2, <1>3, <1>9 DEF ServeStatus, server, page, StatusStep, LogsStep, TypeOK, Exchange
<1>10. ASSUME NEW e \in Exchanges, ServeReset(e) PROVE StatusStep /\ LogsStep
  <2>1. UNCHANGED page /\ \A f \in Exchanges : f # e => exchange'[f] = exchange[f]
    <3>1. CASE exchange[e].stage = "sent"
        BY <1>10, <3>1 DEF ServeReset, TypeOK
    <3>2. CASE exchange[e].stage = "zeroed"
        BY <1>10, <3>2 DEF ServeReset, TypeOK
    <3>3. CASE exchange[e].stage = "cleared"
        BY <1>10, <3>3 DEF ServeReset, TypeOK
    <3>4. QED
        BY <1>1, <3>1, <3>2, <3>3 DEF Exchange
  <2>2. CASE exchange[e].stage = "sent"
    <3>1. /\ status' = [status EXCEPT !.inspected = 0, !.zeroed = @ + 1]
          /\ exchange' = [exchange EXCEPT ![e].stage = "zeroed"] /\ UNCHANGED logs
        BY <1>10, <2>2 DEF ServeReset
    <3>2. Precedes(status, status')
        BY <1>2, <3>1 DEF Precedes, Forgotten, Status
    <3>3. /\ exchange'[e].status = exchange[e].status /\ exchange'[e].logs = exchange[e].logs
          /\ exchange'[e].kind = exchange[e].kind
        BY <1>1, <3>1 DEF TypeOK, Exchange
    <3>4. QED
        BY <1>3, <2>1, <3>1, <3>2, <3>3 DEF page, StatusStep, LogsStep
  <2>3. CASE exchange[e].stage = "zeroed"
    <3>1. /\ logs' = [logs EXCEPT !.entries = <<>>, !.cleared = @ + 1]
          /\ exchange' = [exchange EXCEPT ![e].stage = "cleared",
                            ![e].logs = IF exchange[e].kind = "reset" THEN logs' ELSE None]
          /\ UNCHANGED status
        BY <1>10, <2>3 DEF ServeReset
    <3>2. logs'.written = logs.written /\ logs'.cleared = logs.cleared + 1
        BY <1>3, <3>1 DEF Logs
    <3>3. LogsPrecede(logs, logs')
        BY <1>3, <3>2 DEF LogsPrecede, Logs
    <3>4. /\ exchange'[e].status = exchange[e].status /\ exchange'[e].kind = exchange[e].kind
          /\ exchange'[e].logs \in {logs', None}
        BY <1>1, <3>1 DEF TypeOK, Exchange
    <3>5. QED
        BY <1>2, <2>1, <3>1, <3>3, <3>4 DEF page, StatusStep, LogsStep
  <2>4. CASE exchange[e].stage = "cleared"
    <3>1. /\ exchange' = [exchange EXCEPT ![e] =
                 IF @.kind = "elsewhere" THEN NoExchange ELSE [@ EXCEPT !.status = status]]
          /\ UNCHANGED server
        BY <1>10, <2>4 DEF ServeReset
    <3>2. CASE exchange[e].kind = "elsewhere"
      <4>1. exchange'[e] = NoExchange
          BY <3>1, <3>2 DEF TypeOK
      <4>2. QED
          BY <1>2, <1>3, <2>1, <3>1, <4>1 DEF NoExchange, page, server, StatusStep, LogsStep
    <3>3. CASE exchange[e].kind # "elsewhere"
      <4>1. /\ exchange'[e].status = status /\ exchange'[e].kind = exchange[e].kind
            /\ exchange'[e].logs = exchange[e].logs
          BY <1>1, <3>1, <3>3 DEF TypeOK, Exchange
      <4>2. QED
          BY <1>2, <1>3, <2>1, <3>1, <4>1 DEF page, server, StatusStep, LogsStep
    <3>4. QED
        BY <3>2, <3>3
  <2>5. QED
      BY <1>1, <2>2, <2>3, <2>4 DEF Exchange
<1>11. ASSUME NEW e \in Exchanges, initial(e) \/ Then(e) PROVE StatusStep /\ LogsStep
  <2>1. /\ latestStatus' = exchange[e].status /\ exchange[e].status # None
        /\ latestLogs' = exchange[e].logs /\ exchange[e].logs # None /\ UNCHANGED server
        /\ exchange[e].kind \in Own
      BY <1>11 DEF initial, Then, Render, PageInv, Own
  <2>2. exchange' = [exchange EXCEPT ![e] = NoExchange]
      BY <1>11 DEF initial, Then, Settle
  <2>3. exchange'[e] = NoExchange /\ \A f \in Exchanges : f # e => exchange'[f] = exchange[f]
      BY <2>2 DEF TypeOK
  <2>4. \A f \in Exchanges : exchange'[f].kind \notin Answered
      BY <2>1, <2>3 DEF PageInv, NoExchange, Own, Answered
  <2>5. QED
      BY <1>2, <1>3, <2>1, <2>3, <2>4 DEF NoExchange, server, StatusStep, LogsStep
<1>12. ASSUME NEW e \in Exchanges, refresh(e) \/ resetData(e) \/ ElsewhereReset(e)
       PROVE  StatusStep /\ LogsStep
  <2>1. UNCHANGED <<server, latestStatus, latestLogs>>
      BY <1>12 DEF refresh, resetData, ElsewhereReset, page
  <2>2. PICK kind \in {"refresh", "reset", "elsewhere"} :
            exchange' = [exchange EXCEPT ![e] = [NoExchange EXCEPT !.kind = kind]]
      BY <1>12 DEF refresh, resetData, ElsewhereReset, Start
  <2>3. /\ exchange'[e].status = None /\ exchange'[e].logs = None
        /\ \A f \in Exchanges : f # e => exchange'[f] = exchange[f]
      BY <2>2 DEF TypeOK, NoExchange
  <2>4. QED
      BY <1>2, <1>3, <2>1, <2>3 DEF server, StatusStep, LogsStep
<1>13. ASSUME NEW e \in Exchanges, Catch(e) PROVE StatusStep /\ LogsStep
  <2>1. UNCHANGED <<server, latestStatus, latestLogs>>
      BY <1>13 DEF Catch
  <2>2. /\ exchange'[e].kind \notin Answered
        /\ exchange'[e].status = None /\ exchange'[e].logs = None
        /\ \A f \in Exchanges : f # e => exchange'[f] = exchange[f]
      BY <1>1, <1>13 DEF Catch, Settle, NoExchange, TypeOK, Exchange, Answered
  <2>3. QED
      BY <1>2, <1>3, <2>1, <2>2 DEF server, StatusStep, LogsStep
<1>14. QED
    BY <1>4, <1>5, <1>6, <1>7, <1>8, <1>9, <1>10, <1>11, <1>12, <1>13 DEF Next, Server

\* Init establishes the order: nothing has been answered.
LEMMA InitOrder == Init => StatusInv /\ LogsInv
<1> SUFFICES ASSUME Init PROVE StatusInv /\ LogsInv
    OBVIOUS
<1>1. \A e \in Exchanges : exchange[e].status = None /\ exchange[e].logs = None
    BY DEF Init, NoExchange
<1>2. latestStatus = None
    BY DEF Init
<1>3. QED
    BY <1>1, <1>2 DEF StatusInv, LogsInv, Rendered

\* IInv is inductive.
LEMMA NextInv == IInv /\ [Next]_vars => IInv'
<1> SUFFICES ASSUME TypeOK, PageInv, StatusInv, LogsInv, [Next]_vars PROVE IInv'
    BY DEF IInv
<1>1. TypeOK' /\ PageInv'
    BY NextType, NextPage
<1>2. StatusStep /\ LogsStep
    BY <1>1, StepsInOrder
<1>3. QED
    BY <1>1, <1>2, StatusKept, LogsKept DEF IInv

\* In every reachable state the page has one exchange of its own at most, and
\* every answer on its way lies between what is shown and what the server has
\* (refreshing, http.go:541-578).
THEOREM Invariance == Spec => []IInv
<1>1. Init => IInv
    BY InitType, InitPage, InitOrder DEF IInv
<1>2. QED
    BY <1>1, NextInv, PTL DEF Spec

-----------------------------------------------------------------------------
(* The properties.                                                          *)

\* What a step shows is what it showed, or an answer the page was waiting for.
LEMMA Shows ==
    ASSUME IInv, [Next]_vars, Rendered
    PROVE  \/ /\ latestStatus' = latestStatus /\ latestLogs' = latestLogs
              /\ latestActivityRate' \in {latestActivityRate, InspectedDelta(latestStatus)}
           \/ \E e \in Exchanges :
                 /\ exchange[e].kind \in Answered
                 /\ exchange[e].status # None /\ latestStatus' = exchange[e].status
                 /\ exchange[e].logs # None /\ latestLogs' = exchange[e].logs
                 /\ latestActivityRate' = InspectedDelta(exchange[e].status)
<1>1. CASE UNCHANGED page
    BY <1>1 DEF page
<1>2. CASE LimitChanged
    BY <1>2 DEF LimitChanged, Render, Rendered
<1>3. ASSUME NEW e \in Exchanges, refresh(e) \/ resetData(e) \/ Catch(e)
      PROVE  latestStatus' = latestStatus /\ latestLogs' = latestLogs
             /\ latestActivityRate' = latestActivityRate
    BY <1>3 DEF refresh, resetData, Catch
<1>4. ASSUME NEW e \in Exchanges, initial(e) PROVE FALSE
    BY <1>4 DEF initial, IInv, PageInv
<1>5. ASSUME NEW e \in Exchanges, Then(e)
      PROVE  /\ exchange[e].kind \in Answered
             /\ exchange[e].status # None /\ latestStatus' = exchange[e].status
             /\ exchange[e].logs # None /\ latestLogs' = exchange[e].logs
             /\ latestActivityRate' = InspectedDelta(exchange[e].status)
    BY <1>5 DEF Then, Render, Rendered, Answered
<1>6. Inspected \/ Logged => UNCHANGED page
    BY DEF Inspected, Logged
<1>7. ASSUME NEW e \in Exchanges, Server(e) \/ ElsewhereReset(e) PROVE UNCHANGED page
    BY <1>7 DEF Server, ServeLogs, ServeStatus, ServeReset, ElsewhereReset
<1>8. QED
    BY <1>1, <1>2, <1>3, <1>4, <1>5, <1>6, <1>7 DEF Next, vars

\* Between two statuses in order, the gain shown is at most what was inspected,
\* and that if nobody reset the counter.
LEMMA DeltaIsTrue ==
    ASSUME latestStatus \in Status, NEW s \in Status, Precedes(latestStatus, s)
    PROVE  /\ InspectedDelta(s) <= s.ever - latestStatus.ever
           /\ s.zeroed = latestStatus.zeroed => InspectedDelta(s) = s.ever - latestStatus.ever
BY DEF Precedes, Forgotten, InspectedDelta, Status

\* NeverBackwards: no answer of before a reset, or of before a later answer, is
\* shown after it, in either half of the page (http.go:541-578).
THEOREM NeverBackwardsHolds == Spec => NeverBackwards
<1> DEFINE Moves == Rendered =>
              /\ latestStatus'.ever >= latestStatus.ever
              /\ latestStatus'.zeroed >= latestStatus.zeroed
              /\ latestLogs'.written >= latestLogs.written
              /\ latestLogs'.cleared >= latestLogs.cleared
<1>1. IInv /\ [Next]_vars => [Moves]_vars
  <2> SUFFICES ASSUME IInv, [Next]_vars, Rendered
               PROVE  /\ latestStatus'.ever >= latestStatus.ever
                      /\ latestStatus'.zeroed >= latestStatus.zeroed
                      /\ latestLogs'.written >= latestLogs.written
                      /\ latestLogs'.cleared >= latestLogs.cleared
      OBVIOUS
  <2>1. latestStatus \in Status /\ latestLogs \in Logs
      BY DEF IInv, TypeOK, PageInv, Rendered
  <2>2. CASE latestStatus' = latestStatus /\ latestLogs' = latestLogs
    <3>1. /\ latestStatus.ever \in Nat /\ latestStatus.zeroed \in Nat
          /\ latestLogs.written \in Nat /\ latestLogs.cleared \in Nat
        BY <2>1 DEF Status, Logs
    <3>2. QED
        BY <2>2, <3>1
  <2>3. ASSUME NEW e \in Exchanges, exchange[e].kind \in Answered,
               exchange[e].status # None, latestStatus' = exchange[e].status,
               exchange[e].logs # None, latestLogs' = exchange[e].logs
        PROVE  /\ latestStatus'.ever >= latestStatus.ever
               /\ latestStatus'.zeroed >= latestStatus.zeroed
               /\ latestLogs'.written >= latestLogs.written
               /\ latestLogs'.cleared >= latestLogs.cleared
    <3>1. Precedes(latestStatus, exchange[e].status)
        BY <2>3 DEF IInv, StatusInv
    <3>2. LogsPrecede(latestLogs, exchange[e].logs)
        BY <2>3 DEF IInv, LogsInv
    <3>3. QED
        BY <2>3, <3>1, <3>2 DEF Precedes, LogsPrecede
  <2>4. QED
      BY <2>2, <2>3, Shows
<1>2. QED
    BY <1>1, Invariance, PTL DEF Spec, NeverBackwards

\* RateIsTrue: the activity shown is never more than was inspected between the
\* two statuses, and that if nobody reset the counter (http.go:505-511).
THEOREM RateIsTrueHolds == Spec => RateIsTrue
<1> DEFINE Gains ==
        Rendered /\ <<latestStatus, latestActivityRate>>' # <<latestStatus, latestActivityRate>> =>
          LET gained == latestStatus'.ever - latestStatus.ever
          IN  /\ latestActivityRate' <= gained
              /\ latestStatus'.zeroed = latestStatus.zeroed => latestActivityRate' = gained
<1>1. IInv /\ [Next]_vars => [Gains]_vars
  <2> SUFFICES ASSUME IInv, [Next]_vars, Rendered,
                      \/ latestStatus' # latestStatus
                      \/ latestActivityRate' # latestActivityRate
               PROVE  /\ latestActivityRate' <= latestStatus'.ever - latestStatus.ever
                      /\ latestStatus'.zeroed = latestStatus.zeroed =>
                            latestActivityRate' = latestStatus'.ever - latestStatus.ever
      OBVIOUS
  <2>1. latestStatus \in Status
      BY DEF IInv, TypeOK, Rendered
  <2>2. PICK s \in Status : /\ Precedes(latestStatus, s)
                            /\ latestStatus' = s /\ latestActivityRate' = InspectedDelta(s)
    <3>1. CASE latestStatus' = latestStatus /\ latestActivityRate' = InspectedDelta(latestStatus)
        BY <2>1, <3>1, StatusOrder
    <3>2. ASSUME NEW e \in Exchanges, exchange[e].kind \in Answered, exchange[e].status # None,
                 latestStatus' = exchange[e].status,
                 latestActivityRate' = InspectedDelta(exchange[e].status)
          PROVE  \E s \in Status : /\ Precedes(latestStatus, s)
                            /\ latestStatus' = s /\ latestActivityRate' = InspectedDelta(s)
      <4>1. exchange[e].status \in Status /\ Precedes(latestStatus, exchange[e].status)
          BY <3>2 DEF IInv, TypeOK, StatusInv, Exchange
      <4>2. QED
          BY <3>2, <4>1
    <3>3. QED
        BY <3>1, <3>2, Shows
  <2>3. QED
      BY <2>1, <2>2, DeltaIsTrue
<1>2. QED
    BY <1>1, Invariance, PTL DEF Spec, RateIsTrue

\* The buttons are disabled only while a request is out that can enable them
\* again: what of ButtonsComeBack is safety (http.go:554-558, 573-577).
Busy == refreshing <=> \E e \in Exchanges : exchange[e].kind \in Answered

THEOREM BusyHolds == Spec => []Busy
<1>1. Init => Busy
  <2> SUFFICES ASSUME Init PROVE Busy
      OBVIOUS
  <2>1. \A e \in Exchanges : exchange[e].kind \in {"page", "none"}
      BY DEF Init, NoExchange
  <2>2. QED
      BY <2>1 DEF Init, Busy, Answered
<1>2. IInv /\ Busy /\ [Next]_vars => Busy'
  <2> SUFFICES ASSUME IInv, Busy, [Next]_vars PROVE Busy'
      OBVIOUS
  <2>0. TypeOK /\ PageInv
      BY DEF IInv
  <2>1. CASE UNCHANGED <<refreshing, exchange>>
      BY <2>1 DEF Busy
  <2>2. ASSUME NEW e \in Exchanges, NEW x, exchange' = [exchange EXCEPT ![e] = x],
               x.kind \in Answered <=> exchange[e].kind \in Answered, refreshing' = refreshing
        PROVE  Busy'
    <3>1. \A f \in Exchanges : exchange'[f] = (IF f = e THEN x ELSE exchange[f])
        BY <2>0, <2>2 DEF TypeOK
    <3>2. \A f \in Exchanges : exchange'[f].kind \in Answered <=> exchange[f].kind \in Answered
        BY <2>2, <3>1
    <3>3. QED
        BY <2>2, <3>2 DEF Busy
  <2>3. ASSUME NEW e \in Exchanges, ServeLogs(e) \/ ServeStatus(e) \/ ServeReset(e) PROVE Busy'
    <3>1. refreshing' = refreshing
        BY <2>3 DEF ServeLogs, ServeStatus, ServeReset, page
    <3>2. /\ exchange'[e].kind \in Answered <=> exchange[e].kind \in Answered
          /\ exchange' = [exchange EXCEPT ![e] = exchange'[e]]
      <4>1. CASE ServeLogs(e) \/ ServeStatus(e)
          BY <2>0, <4>1 DEF ServeLogs, ServeStatus, TypeOK, Exchange
      <4>2. CASE ServeReset(e) /\ exchange[e].stage = "sent"
          BY <2>0, <4>2 DEF ServeReset, TypeOK, Exchange
      <4>3. CASE ServeReset(e) /\ exchange[e].stage = "zeroed"
          BY <2>0, <4>3 DEF ServeReset, TypeOK, Exchange
      <4>4. CASE ServeReset(e) /\ exchange[e].stage = "cleared" /\ exchange[e].kind = "elsewhere"
        <5>1. exchange' = [exchange EXCEPT ![e] = NoExchange]
            BY <4>4 DEF ServeReset
        <5>2. exchange'[e] = NoExchange
            BY <2>0, <5>1 DEF TypeOK
        <5>3. exchange' = [exchange EXCEPT ![e] = exchange'[e]]
            BY <5>1, <5>2
        <5>4. exchange'[e].kind = "none"
            BY <5>2 DEF NoExchange
        <5>5. QED
            BY <4>4, <5>3, <5>4 DEF Answered
      <4>5. CASE ServeReset(e) /\ exchange[e].stage = "cleared" /\ exchange[e].kind # "elsewhere"
          BY <2>0, <4>5 DEF ServeReset, TypeOK, Exchange
      <4>6. QED
          BY <2>0, <2>3, <4>1, <4>2, <4>3, <4>4, <4>5 DEF TypeOK, Exchange
    <3>3. QED
        BY <2>2, <3>1, <3>2
  <2>4. ASSUME NEW e \in Exchanges, NEW kind \in {"refresh", "reset", "elsewhere"}, Start(e, kind),
               refreshing' = (refreshing \/ kind \in Answered)
        PROVE  Busy'
    <3>1. /\ exchange'[e].kind = kind /\ exchange[e].kind = "none"
          /\ \A f \in Exchanges : f # e => exchange'[f] = exchange[f]
        BY <2>0, <2>4 DEF Start, NoExchange, TypeOK
    <3>2. QED
        BY <2>4, <3>1 DEF Busy, Answered
  <2>5. ASSUME NEW e \in Exchanges, initial(e) \/ Then(e) \/ Catch(e) PROVE Busy'
    <3>1. exchange[e].kind \in Own /\ exchange'[e].kind \notin Own
      <4>1. CASE initial(e) \/ Then(e)
          BY <2>0, <4>1 DEF initial, Then, Settle, NoExchange, Own, TypeOK
      <4>2. CASE Catch(e)
          BY <2>0, <4>2 DEF Catch, Settle, NoExchange, Own, TypeOK, Exchange
      <4>3. QED
          BY <2>5, <4>1, <4>2
    <3>2. \A f \in Exchanges : f # e => exchange'[f] = exchange[f]
        BY <2>0, <2>5 DEF initial, Then, Catch, Settle, TypeOK
    <3>3. \A f \in Exchanges : exchange'[f].kind \notin Answered
        BY <2>0, <3>1, <3>2 DEF PageInv, Own, Answered
    <3>4. ~refreshing'
      <4>1. CASE initial(e)
        <5>1. \A f \in Exchanges : exchange[f].kind \notin Answered
            BY <2>0, <4>1 DEF initial, PageInv, Own, Answered
        <5>2. QED
            BY <4>1, <5>1 DEF Busy, initial
      <4>2. CASE Then(e) \/ Catch(e)
          BY <4>2 DEF Then, Catch
      <4>3. QED
          BY <2>5, <4>1, <4>2
    <3>5. QED
        BY <3>3, <3>4 DEF Busy
  <2>6. ASSUME NEW e \in Exchanges, refresh(e) PROVE Busy'
      BY <2>4, <2>6 DEF refresh, Answered
  <2>7. ASSUME NEW e \in Exchanges, resetData(e) PROVE Busy'
      BY <2>4, <2>7 DEF resetData, Answered
  <2>8. ASSUME NEW e \in Exchanges, ElsewhereReset(e) PROVE Busy'
      BY <2>0, <2>4, <2>8 DEF ElsewhereReset, Answered, page, TypeOK
  <2>9. Inspected \/ Logged \/ LimitChanged \/ UNCHANGED vars => UNCHANGED <<refreshing, exchange>>
      BY DEF Inspected, Logged, LimitChanged, vars, page
  <2>10. QED
      BY <2>1, <2>3, <2>5, <2>6, <2>7, <2>8, <2>9 DEF Next, Server
<1>3. QED
    BY <1>1, <1>2, Invariance, PTL DEF Spec
=============================================================================
