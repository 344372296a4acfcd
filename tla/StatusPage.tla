------------------------------ MODULE StatusPage -------------------------------
(****************************************************************************)
(* The script of the status page (the end of internal/management/http.go)   *)
(* and the routes it polls.                                                 *)
(*                                                                          *)
(* The page comes with a first status and log.  From then on a timer, two   *)
(* buttons and the row limit drive it: a refresh fetches status and logs as *)
(* two requests and renders when both have answered, a reset posts and      *)
(* renders the reply; while either is out no other is started.  A status    *)
(* shows the inspected responses and how many there were since the one      *)
(* rendered before.                                                         *)
(*                                                                          *)
(* The server is what the routes read and clear: one counter and the log,   *)
(* which a reset clears one after the other (Metrics has all of them, step  *)
(* by step).  The guards' handlers and another client that resets are       *)
(* external, as is the browser, whose requests can fail or lose the reply   *)
(* but are settled in the end.  Layout, the seconds a rate is divided by    *)
(* and the other figures are left out.                                      *)
(****************************************************************************)
EXTENDS Integers, SequencesExt

CONSTANTS Exchanges,      \* requests under way: the page's, other clients'
          MaxLogEntries,
          MaxResponses,   \* bound: responses inspected
          MaxResets,      \* bound: resets asked for, by anybody
          MaxFailures,    \* bound: requests refused or replies lost
          None            \* null

ASSUME PageAssumption ==
    /\ MaxLogEntries \in Nat \ {0}
    /\ {MaxResponses, MaxResets, MaxFailures} \subseteq Nat
    /\ None \notin Nat

\* What the routes answer.  History: all responses inspected and all lines
\* written until then, and how often the counter and the log were cleared.
Status == [inspected : Nat, ever : Nat, zeroed : Nat]
Logs   == [entries : Seq(Nat), written : Nat, cleared : Nat]

\* Another client's reset, or one whose reply is lost, is "elsewhere".
Exchange == [kind   : {"none", "page", "refresh", "reset", "elsewhere"},
             stage  : {"sent", "zeroed", "cleared"},
             status : Status \cup {None},
             logs   : Logs \cup {None}]

VARIABLES status, logs,           \* the server
          exchange,               \* requests under way, and what they were answered
          latestStatus, latestLogs, latestActivityRate,
          refreshing,
          resets, failures        \* bounded

server == <<status, logs>>
page   == <<latestStatus, latestLogs, latestActivityRate, refreshing>>
vars   == <<server, exchange, page, resets, failures>>

NoExchange == [kind |-> "none", stage |-> "sent", status |-> None, logs |-> None]

TypeOK ==
    /\ status \in Status
    /\ logs \in Logs /\ Len(logs.entries) <= MaxLogEntries
    /\ exchange \in [Exchanges -> Exchange]
    /\ latestStatus \in Status \cup {None} /\ latestLogs \in Logs \cup {None}
    /\ latestActivityRate \in Nat \cup {None}
    /\ refreshing \in BOOLEAN /\ resets \in 0..MaxResets /\ failures \in 0..MaxFailures

Init ==
    /\ status = [inspected |-> 0, ever |-> 0, zeroed |-> 0]
    /\ logs   = [entries |-> <<>>, written |-> 0, cleared |-> 0]
    /\ exchange = [[e \in Exchanges |-> NoExchange] EXCEPT ![CHOOSE e \in Exchanges : TRUE].kind = "page"]
    /\ latestStatus = None /\ latestLogs = None /\ latestActivityRate = None
    /\ refreshing = FALSE
    /\ resets = 0 /\ failures = 0

-----------------------------------------------------------------------------
(* The server.                                                              *)

\* A handler counts a response, and writes its line later.
Inspected ==
    /\ status.ever < MaxResponses
    /\ status' = [status EXCEPT !.inspected = @ + 1, !.ever = @ + 1]
    /\ UNCHANGED <<logs, exchange, page, resets, failures>>

Logged ==
    /\ logs.written < status.ever
    /\ LET entries == Append(logs.entries, logs.written + 1)
       IN  logs' = [logs EXCEPT !.written = @ + 1,
                                !.entries = IF Len(entries) > MaxLogEntries THEN Tail(entries) ELSE entries]
    /\ UNCHANGED <<status, exchange, page, resets, failures>>

\* The status and log routes, each its own request of a refresh, in any order.
\* The page comes with both: its snapshot takes the log first.
ServeLogs(e) ==
    /\ exchange[e].kind \in {"page", "refresh"} /\ exchange[e].logs = None
    /\ exchange' = [exchange EXCEPT ![e].logs = logs]
    /\ UNCHANGED <<server, page, resets, failures>>

ServeStatus(e) ==
    /\ exchange[e].kind \in {"page", "refresh"} /\ exchange[e].status = None
    /\ exchange[e].kind = "page" => exchange[e].logs # None
    /\ exchange' = [exchange EXCEPT ![e].status = status]
    /\ UNCHANGED <<server, page, resets, failures>>

\* The reset route: clear the counter, then the log, then take a snapshot of
\* the counter; of the log the reply says that it is empty.
ServeReset(e) ==
    /\ exchange[e].kind \in {"reset", "elsewhere"} /\ exchange[e].status = None
    /\ CASE exchange[e].stage = "sent" ->
              /\ status' = [status EXCEPT !.inspected = 0, !.zeroed = @ + 1]
              /\ exchange' = [exchange EXCEPT ![e].stage = "zeroed"]
              /\ UNCHANGED logs
         [] exchange[e].stage = "zeroed" ->
              /\ logs' = [logs EXCEPT !.entries = <<>>, !.cleared = @ + 1]
              /\ exchange' = [exchange EXCEPT ![e].stage = "cleared",
                                ![e].logs = IF exchange[e].kind = "reset" THEN logs' ELSE None]
              /\ UNCHANGED status
         [] exchange[e].stage = "cleared" ->
              /\ exchange' = [exchange EXCEPT ![e] =
                     IF @.kind = "elsewhere" THEN NoExchange ELSE [@ EXCEPT !.status = status]]
              /\ UNCHANGED server
    /\ UNCHANGED <<page, resets, failures>>

-----------------------------------------------------------------------------
(* The page.                                                                *)

\* A bug it must not have: a reset elsewhere makes the gain negative.
Bug_Negative(s) == s.inspected - latestStatus.inspected

\* A bug it must not have: after a reset elsewhere the count is taken as a gain.
Bug_TakesAnyDifference(s) ==
    IF s.inspected > latestStatus.inspected THEN s.inspected - latestStatus.inspected
    ELSE latestStatus.inspected - s.inspected

InspectedDelta(s) ==
    IF s.inspected > latestStatus.inspected THEN s.inspected - latestStatus.inspected ELSE 0

\* A bug it must not have: nothing is rendered while the counter is the same.
Bug_SkipsUnchanged(s, l, rate) ==
    IF s = latestStatus
    THEN UNCHANGED <<latestStatus, latestLogs, latestActivityRate>>
    ELSE /\ latestStatus' = s
         /\ latestLogs' = l
         /\ latestActivityRate' = IF latestStatus = None THEN rate ELSE InspectedDelta(s)

\* render: the rate is left as it is when nothing was rendered before.
Render(s, l, rate) ==
    /\ latestStatus' = s
    /\ latestLogs' = l
    /\ latestActivityRate' = IF latestStatus = None THEN rate ELSE InspectedDelta(s)

\* Which of the free ones is used makes no difference.
Start(e, kind) ==
    /\ exchange[e].kind = "none"
    /\ e = CHOOSE f \in Exchanges : exchange[f].kind = "none"
    /\ exchange' = [exchange EXCEPT ![e] = [NoExchange EXCEPT !.kind = kind]]

Settle(e) == exchange' = [exchange EXCEPT ![e] = NoExchange]

Rendered == latestStatus # None

\* The page has come, and its script runs.
initial(e) ==
    /\ exchange[e].kind = "page" /\ exchange[e].status # None
    /\ Settle(e)
    /\ Render(exchange[e].status, exchange[e].logs, latestActivityRate)
    /\ UNCHANGED <<server, refreshing, resets, failures>>

\* A bug it must not have: the timer does not look whether a request is out.
Bug_TimerIgnoresRefreshing(e) ==
    /\ Rendered
    /\ refreshing' = TRUE
    /\ Start(e, "refresh")
    /\ UNCHANGED <<server, latestStatus, latestLogs, latestActivityRate, resets, failures>>

refresh(e) ==
    /\ Rendered /\ ~refreshing
    /\ refreshing' = TRUE
    /\ Start(e, "refresh")
    /\ UNCHANGED <<server, latestStatus, latestLogs, latestActivityRate, resets, failures>>

\* The user confirms; who declines has done nothing.
resetData(e) ==
    /\ Rendered /\ ~refreshing
    /\ resets < MaxResets
    /\ refreshing' = TRUE
    /\ Start(e, "reset")
    /\ resets' = resets + 1
    /\ UNCHANGED <<server, latestStatus, latestLogs, latestActivityRate, failures>>

\* Both answers of a refresh, or the reply to a reset, have come.  A reset sets
\* the rate to null first.
Then(e) ==
    /\ exchange[e].kind \in {"refresh", "reset"}
    /\ exchange[e].status # None /\ exchange[e].logs # None
    /\ Settle(e)
    /\ Render(exchange[e].status, exchange[e].logs,
              IF exchange[e].kind = "reset" THEN None ELSE latestActivityRate)
    /\ refreshing' = FALSE
    /\ UNCHANGED <<server, resets, failures>>

\* A bug it must not have: only a success enables the buttons again.
Bug_NotFinally(e) ==
    /\ exchange[e].kind \in {"refresh", "reset"}
    /\ failures < MaxFailures
    /\ failures' = failures + 1
    /\ Settle(e)
    /\ UNCHANGED <<server, page, resets>>

\* A request fails, or its answer is an error or lost: a refresh forgets the
\* other answer too, a reset the server has may go on there.
Catch(e) ==
    /\ exchange[e].kind \in {"refresh", "reset"}
    /\ failures < MaxFailures
    /\ failures' = failures + 1
    /\ \/ exchange[e].kind = "refresh" /\ Settle(e)
       \/ exchange[e].kind = "reset" /\ exchange[e].stage = "sent" /\ Settle(e)
       \/ exchange[e].kind = "reset" /\ exchange[e].status # None /\ Settle(e)
       \/ /\ exchange[e].kind = "reset" /\ exchange[e].status = None
          /\ exchange' = [exchange EXCEPT ![e].kind = "elsewhere", ![e].logs = None]
    /\ refreshing' = FALSE
    /\ UNCHANGED <<server, latestStatus, latestLogs, latestActivityRate, resets>>

\* A changed row limit renders what there is once more.
LimitChanged ==
    /\ Rendered
    /\ Render(latestStatus, latestLogs, latestActivityRate)
    /\ UNCHANGED <<server, exchange, refreshing, resets, failures>>

ElsewhereReset(e) ==
    /\ resets < MaxResets
    /\ resets' = resets + 1
    /\ Start(e, "elsewhere")
    /\ UNCHANGED <<server, page, failures>>

Server(e) == ServeLogs(e) \/ ServeStatus(e) \/ ServeReset(e)

Next ==
    \/ Inspected \/ Logged
    \/ LimitChanged
    \/ \E e \in Exchanges :
          \/ Server(e)
          \/ initial(e) \/ refresh(e) \/ resetData(e) \/ Then(e) \/ Catch(e)
          \/ ElsewhereReset(e)

\* The timer ticks (its box is left checked), whatever is sent is settled, and
\* a handler writes the lines it owes.  Nobody has to press a button.
Fairness ==
    /\ WF_vars(Logged)
    /\ WF_vars(\E e \in Exchanges : refresh(e))
    /\ \A e \in Exchanges : WF_vars(Server(e)) /\ WF_vars(initial(e) \/ Then(e))

Spec == Init /\ [][Next]_vars /\ Fairness

-----------------------------------------------------------------------------
(* Properties.                                                              *)

\* The page never goes back in time, in neither of its halves: no answer of
\* before a reset, or of before a later answer, is rendered after it
\* (http.go:541-578, refreshing guards both).
NeverBackwards ==
    [][Rendered =>
          /\ latestStatus'.ever >= latestStatus.ever
          /\ latestStatus'.zeroed >= latestStatus.zeroed
          /\ latestLogs'.written >= latestLogs.written
          /\ latestLogs'.cleared >= latestLogs.cleared]_vars

\* The activity shown is never more than was inspected between the two
\* statuses it compares, whoever reset the counter in between, and exactly
\* that if nobody did (http.go:505-511).
RateIsTrue ==
    [][Rendered /\ <<latestStatus, latestActivityRate>>' # <<latestStatus, latestActivityRate>> =>
          LET gained == latestStatus'.ever - latestStatus.ever
          IN  /\ latestActivityRate' <= gained
              /\ latestStatus'.zeroed = latestStatus.zeroed => latestActivityRate' = gained]_vars

\* Once traffic has stopped, a page that refreshes by itself comes to show what
\* the server has, whatever failed before, and though status and logs are
\* fetched apart (http.go:541-559, 598-600).
EventuallyCurrent ==
    <>[](Rendered /\ latestStatus = status /\ latestLogs = logs)

\* The buttons are not left disabled: every refresh and every reset is over some
\* time, failed ones too (http.go:554-558, 573-577).
ButtonsComeBack == refreshing ~> ~refreshing
=============================================================================
