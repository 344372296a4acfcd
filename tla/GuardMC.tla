------------------------------- MODULE GuardMC -------------------------------
(****************************************************************************)
(* Values of the constants the guard modules share, for TLC.                *)
(****************************************************************************)
EXTENDS Inspection

MCNames == {"", " ", "manual", "formula_518n_minus_2", "strict_502", "disconnect",
            "gpt-5.5", " GPT-5.5", "GPT-5.5", " gpt-5.5", "o3",
            "/responses", "/embeddings", "openai"}

MCTrim  == [s \in MCNames |-> CASE s = " " -> ""
                                [] s = " GPT-5.5" -> "GPT-5.5"
                                [] s = " gpt-5.5" -> "gpt-5.5"
                                [] OTHER -> s]
MCLower == [s \in MCNames |-> CASE s = "GPT-5.5" -> "gpt-5.5"
                                [] s = " GPT-5.5" -> " gpt-5.5"
                                [] OTHER -> s]
MCEndpoints == {"/responses"}

\* A document with the count n at place f and nothing elsewhere.
Doc(f, n) == [g \in 1..4 |-> IF g = f THEN n ELSE Absent]
Silent    == [g \in 1..4 |-> Absent]

\* The default configuration with another retry budget.
Base(n) ==
    [Enabled                |-> TRUE,
     Models                 |-> {},
     Endpoints              |-> MCEndpoints,
     AutoIncludeStreamUsage |-> TRUE,
     ReasoningEquals        |-> {516},
     ReasoningMatchMode     |-> "manual",
     InterceptStreaming     |-> TRUE,
     InterceptNonStreaming  |-> TRUE,
     GuardRetryAttempts     |-> n,
     NonStreamStatusCode    |-> 502,
     StreamAction           |-> "strict_502",
     LogMatch               |-> TRUE]
=============================================================================
