---------------------------- MODULE GuardContract ----------------------------
(****************************************************************************)
(* What the guard promises about each response it is shown, whatever the    *)
(* transport: a response is judged within a budget of internal retries      *)
(* fixed when it arrives, and is given exactly one outcome.                 *)
(*                                                                          *)
(*   unguarded  the model is not in scope, the response passes as it is     *)
(*   clean      a response was judged and is not suspicious; it is passed   *)
(*   unchecked  a retried response that reports nothing readable is passed  *)
(*   blocked    everything seen was suspicious and the budget is spent      *)
(*   failed     an error is returned to the host                            *)
(*                                                                          *)
(* "leaked", a suspicious response passed on, is an outcome no step gives.  *)
(****************************************************************************)
EXTENDS Integers

CONSTANTS Slots,      \* the responses (or streams) the guard is shown
          MaxBudget   \* the largest retry budget a configuration grants, a number

VARIABLES phase,      \* arriving, judging or settled
          budget,     \* retries granted when the response arrived
          retries,    \* retries made so far
          outcome

vars == <<phase, budget, retries, outcome>>

Outcome == {"none", "unguarded", "clean", "unchecked", "blocked", "failed"}

TypeOK ==
    /\ phase   \in [Slots -> {"arriving", "judging", "settled"}]
    /\ budget  \in [Slots -> 0..MaxBudget]
    /\ retries \in [Slots -> 0..MaxBudget]
    /\ outcome \in [Slots -> Outcome]

Init ==
    /\ phase   = [s \in Slots |-> "arriving"]
    /\ budget  = [s \in Slots |-> 0]
    /\ retries = [s \in Slots |-> 0]
    /\ outcome = [s \in Slots |-> "none"]

-----------------------------------------------------------------------------
Settle(s, o) ==
    /\ phase'   = [phase EXCEPT ![s] = "settled"]
    /\ outcome' = [outcome EXCEPT ![s] = o]
    /\ UNCHANGED <<budget, retries>>

\* Out of scope, or not readable at all: settled without being judged.
TurnAway(s) ==
    /\ phase[s] = "arriving"
    /\ \E o \in {"unguarded", "failed"} : Settle(s, o)

\* The first judgement fixes the budget.
Accept(s) ==
    /\ phase[s] = "arriving"
    /\ phase' = [phase EXCEPT ![s] = "judging"]
    /\ \E b \in 0..MaxBudget : budget' = [budget EXCEPT ![s] = b]
    /\ UNCHANGED <<retries, outcome>>

Retry(s) ==
    /\ phase[s] = "judging"
    /\ retries[s] < budget[s]
    /\ retries' = [retries EXCEPT ![s] = @ + 1]
    /\ UNCHANGED <<phase, budget, outcome>>

Pass(s) ==
    /\ phase[s] = "judging"
    /\ Settle(s, "clean")

PassUnchecked(s) ==
    /\ phase[s] = "judging"
    /\ retries[s] > 0
    /\ Settle(s, "unchecked")

Block(s) ==
    /\ phase[s] = "judging"
    /\ retries[s] = budget[s]
    /\ Settle(s, "blocked")

\* Only a retry can fail once the response has been judged.
Fail(s) ==
    /\ phase[s] = "judging"
    /\ retries[s] > 0
    /\ Settle(s, "failed")

Step(s) ==
    TurnAway(s) \/ Accept(s) \/ Retry(s) \/ Pass(s) \/ PassUnchecked(s) \/ Block(s) \/ Fail(s)

Next == \E s \in Slots : Step(s)

Safety == Init /\ [][Next]_vars

Spec == Safety /\ \A s \in Slots : WF_vars(Step(s))

=============================================================================
