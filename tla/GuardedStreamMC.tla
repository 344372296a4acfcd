--------------------------- MODULE GuardedStreamMC ---------------------------
(****************************************************************************)
(* One request and its stream of up to two chunks.  The guard's own cases   *)
(* are those of StreamGuardMC; here its replays have one payload, and the   *)
(* configurations differ in what the rewrite and its scope depend on.       *)
(****************************************************************************)
EXTENDS GuardedStream, GuardMC

MCStreams     == {"s"}
MCStreamModel == [s \in MCStreams |-> "GPT-5.5"]

Text          == <<Malformed, Silent>>
BadUsage      == <<Doc(4, 516)>>
MCSources     == {<<Text>>, <<Text, BadUsage>>}
MCRetryChunks == {Text, BadUsage}

MCConfigs ==
    {Base(1),
     [Base(1) EXCEPT !.StreamAction = "disconnect", !.Models = {"o3", "gpt-5.5"}],
     [Base(0) EXCEPT !.Models = {"o3"}],
     [Base(0) EXCEPT !.LogMatch = FALSE, !.AutoIncludeStreamUsage = FALSE]}

Asking(model, requested, stream, path) ==
    [Model |-> model, RequestedModel |-> requested, Stream |-> stream,
     path |-> path, SourceFormat |-> "openai"]

\* The model known at once, known late, another one requested; a path that is
\* not listed, and none (the source format takes its place).
MCRequests ==
    {Asking("GPT-5.5", "GPT-5.5", TRUE, "/responses"), Asking("", "", TRUE, "/responses"),
     Asking("", "o3", TRUE, "/responses"), Asking("GPT-5.5", "", FALSE, "/responses"),
     Asking("GPT-5.5", "", TRUE, "/embeddings"), Asking("GPT-5.5", "", TRUE, "")}

MCBodies == {Malformed, [model |-> "o3", options |-> "missing"]} \cup
            {[model |-> " GPT-5.5", options |-> o] : o \in {"no object", "not asked", "asked"}}
=============================================================================
