------------------------------ MODULE MetricsMC ------------------------------
(****************************************************************************)
(* Two instances: two handlers and a log of two lines that two tasks, a     *)
(* replay among them, overflow, with one client polling; and a client that  *)
(* resets while another polls, with one handler.  Either would be too large *)
(* with the other's clients: a reset and its snapshot alone are twenty      *)
(* steps.                                                                   *)
(****************************************************************************)
EXTENDS Metrics, TLC

CONSTANTS h1, h2

MCTwoHandlers == {h1, h2}
MCOneHandler  == {h1}
MCSymmetry    == Permutations(MCTwoHandlers)

MCPollers     == {"page"}
MCPolling     == [g \in MCPollers |-> {"snapshot"}]
MCClients     == {"page", "api"}
MCResetting   == [page |-> {"reset"}, api |-> {"snapshot"}]

Response(matched, stream, blocked) ==
    [kind |-> "response", matched |-> matched, stream |-> stream, blocked |-> blocked,
     lost |-> FALSE, passes |-> 0]
Request    == [Response(FALSE, FALSE, FALSE) EXCEPT !.kind = "request"]
Unreadable == [Response(FALSE, FALSE, FALSE) EXCEPT !.lost = TRUE]

\* A replay of which one payload passes, then another matches or the host fails.
Replay(lost) ==
    [Response(~lost, TRUE, ~lost) EXCEPT !.kind = "replay", !.lost = lost, !.passes = 1]

MCTwoTasks    == {Response(TRUE, FALSE, TRUE), Response(FALSE, FALSE, FALSE), Replay(FALSE), Replay(TRUE),
                  Request, Unreadable}
MCResetTasks  == {Response(TRUE, FALSE, FALSE), Request, Replay(TRUE)}
=============================================================================
