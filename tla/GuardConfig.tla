----------------------------- MODULE GuardConfig -----------------------------
(****************************************************************************)
(* The plugin's configuration record (internal/config/config.go) and the    *)
(* decisions that are functions of the configuration alone: which values    *)
(* are accepted and how they are normalised, which reasoning-token counts   *)
(* are suspicious, which models and request paths are in scope.             *)
(*                                                                          *)
(* Strings are members of the constant set Names; what the code does to     *)
(* them, strings.TrimSpace and strings.ToLower, are the functions Trim and  *)
(* Lower (strings.EqualFold compares lower-case forms).  The code's         *)
(* duplicate-free lists are only ever tested for membership and emptiness,  *)
(* so they are sets here.                                                   *)
(****************************************************************************)
EXTENDS Integers

CONSTANTS Names,            \* the strings that occur
          Trim,             \* strings.TrimSpace
          Lower,            \* strings.ToLower
          DefaultEndpoints  \* the four request paths of DefaultConfig

Manual  == "manual"
Formula == "formula_518n_minus_2"

ASSUME NamesAssumption ==
    {"", Manual, Formula, "strict_502", "disconnect"} \subseteq Names

ASSUME TrimAssumption ==
    /\ Trim \in [Names -> Names]
    /\ \A s \in Names : Trim[Trim[s]] = Trim[s]
    /\ \A s \in {"", Manual, Formula, "strict_502", "disconnect"} : Trim[s] = s

ASSUME LowerAssumption ==
    /\ Lower \in [Names -> Names]
    /\ \A s \in {"", Manual, Formula} : Lower[s] = s

ASSUME EndpointsAssumption ==
    /\ DefaultEndpoints \subseteq Names \ {""}
    /\ DefaultEndpoints # {}
    /\ \A e \in DefaultEndpoints : Trim[e] = e

\* type Config: anything a YAML document or a management request can decode to
Config ==
    [Enabled                : BOOLEAN,
     Models                 : SUBSET Names,
     Endpoints              : SUBSET Names,
     AutoIncludeStreamUsage : BOOLEAN,
     ReasoningEquals        : SUBSET Int,
     ReasoningMatchMode     : Names,
     InterceptStreaming     : BOOLEAN,
     InterceptNonStreaming  : BOOLEAN,
     GuardRetryAttempts     : Int,
     NonStreamStatusCode    : Int,
     StreamAction           : Names,
     LogMatch               : BOOLEAN]

DefaultConfig ==
    [Enabled                |-> TRUE,
     Models                 |-> {},
     Endpoints              |-> DefaultEndpoints,
     AutoIncludeStreamUsage |-> TRUE,
     ReasoningEquals        |-> {516, 1034, 1552},
     ReasoningMatchMode     |-> Manual,
     InterceptStreaming     |-> TRUE,
     InterceptNonStreaming  |-> TRUE,
     GuardRetryAttempts     |-> 3,
     NonStreamStatusCode    |-> 502,
     StreamAction           |-> "strict_502",
     LogMatch               |-> TRUE]

-----------------------------------------------------------------------------
(* ParseYAML: a document is the fields it sets, none if it is blank.        *)

\* What it leaves out has its default value, whatever was in force before.
Decoded(document) ==
    LET default == DefaultConfig
    IN  [f \in DOMAIN default |-> IF f \in DOMAIN document THEN document[f] ELSE default[f]]

(* NormalizeAndValidate: Accepted is the condition under which it returns   *)
(* no error, Normalized the configuration it then returns.                  *)

normalizeStringList(list) == {Trim[s] : s \in list} \ {""}

normalizeReasoningMatchMode(mode) ==
    IF Trim[Lower[mode]] = Formula THEN Formula ELSE Manual

normalizeStreamAction(action) ==
    IF Trim[action] = "" THEN "strict_502" ELSE Trim[action]

Accepted(c) ==
    /\ c.ReasoningEquals # {}
    /\ c.GuardRetryAttempts >= 0
    /\ c.InterceptStreaming \/ c.InterceptNonStreaming

Normalized(c) ==
    LET endpoints == normalizeStringList(c.Endpoints)
    IN  [c EXCEPT
           !.Models = normalizeStringList(c.Models),
           !.Endpoints = IF endpoints = {} THEN DefaultEndpoints ELSE endpoints,
           !.ReasoningMatchMode = normalizeReasoningMatchMode(c.ReasoningMatchMode),
           !.StreamAction = normalizeStreamAction(c.StreamAction),
           !.NonStreamStatusCode = IF c.NonStreamStatusCode <= 0
                                   THEN DefaultConfig.NonStreamStatusCode
                                   ELSE c.NonStreamStatusCode]

\* What NewState and Reconfigure can publish: the runtime never holds any
\* other configuration.
StoredConfig == {c \in Config : Accepted(c) /\ Normalized(c) = c}

-----------------------------------------------------------------------------
(* The decisions.                                                           *)

ReasoningMatched(c, reasoning) ==
    \/ c.ReasoningMatchMode = Formula /\ reasoning >= 516 /\ (reasoning + 2) % 518 = 0
    \/ c.ReasoningMatchMode # Formula /\ reasoning \in c.ReasoningEquals

EqualFold(s, t) == Lower[s] = Lower[t]

modelMatches(c, model) ==
    \/ c.Models = {}
    \/ /\ Trim[model] # ""
       /\ \E candidate \in c.Models : EqualFold(candidate, Trim[model])

endpointMatches(c, path) ==
    \/ c.Endpoints = {}
    \/ /\ Trim[path] # ""
       /\ \E endpoint \in c.Endpoints : EqualFold(Trim[endpoint], Trim[path])
=============================================================================
