--------------------------- MODULE NonStreamGuardMC --------------------------
(****************************************************************************)
(* Two responses, one from a listed model spelled differently and one from  *)
(* another model on an unlisted path, under configurations that differ in   *)
(* the budget, the allow list, the match mode, the interception switch and  *)
(* logging, replaced at any time.                                           *)
(****************************************************************************)
EXTENDS NonStreamGuard, GuardMC

MCRequests == {"listed", "other"}
MCReqModel == [r \in MCRequests |-> IF r = "listed" THEN " GPT-5.5" ELSE "o3"]
MCReqPath  == [r \in MCRequests |-> IF r = "listed" THEN "/responses" ELSE "/embeddings"]

\* Nothing reported, a harmless count, a suspicious one, and a document with
\* both where the harmless one stands first.
MCBodies == {Malformed, Silent, Doc(1, 516), [Doc(1, 777) EXCEPT ![3] = 516]}

\* The same with an upstream that may answer a retry with no body at all.
MCBodiesOrNone == {Doc(1, 516), Silent, Empty}

MCConfigs ==
    {Base(2),
     [Base(1) EXCEPT !.Models = {"gpt-5.5"}, !.LogMatch = FALSE],
     [Base(1) EXCEPT !.InterceptNonStreaming = FALSE],
     [Base(0) EXCEPT !.ReasoningMatchMode = "formula_518n_minus_2", !.ReasoningEquals = {1}]}
=============================================================================
