-------------------------- MODULE RequestIntercept ---------------------------
(****************************************************************************)
(* What handleRequestIntercept (internal/bridge/interceptors.go) decides of *)
(* one request: whether it is in scope, and whether its body is rewritten   *)
(* so that upstream reports usage at the end of the stream.                 *)
(*                                                                          *)
(* A body is what the code reads of it: the model, "" if that is missing or *)
(* no string, and what stream_options is; Malformed or Empty if there is    *)
(* none to read, NilMap if it is the JSON null.                             *)
(****************************************************************************)
EXTENDS Inspection

\* stream_options: missing or null, something else than an object, an object
\* that does not ask for usage, one that does.
Options == {"missing", "no object", "not asked", "asked"}

Request == [Model : Names, RequestedModel : Names, Stream : BOOLEAN,
            path : Names, SourceFormat : Names]     \* path: metadata, "" if missing
Body    == [model : Names, options : Options]

\* What null decodes to: no model, no stream_options, and nowhere to put any.
NilMap == [model |-> "", options |-> "nil"]

requestModelMatches(c, models) == \E m \in models : modelMatches(c, m)

requestBodyModel(body) == IF Readable(body) THEN Trim[body.model] ELSE ""

\* The fallback is the source format, "" in the line the request is logged with.
requestPath(path, fallback) ==
    CASE Trim[path] # "" -> Trim[path]
      [] Trim[path] = "" /\ Trim[fallback] # "" -> Trim[fallback]
      [] OTHER -> "/responses"

\* Any of three names may bring a request into scope.
InScope(c, req, body) ==
    requestModelMatches(c, {req.Model, req.RequestedModel, requestBodyModel(body)})

\* Bugs it must not have: a body that says it wants no usage is left alone, and
\* one that asks for usage already is rewritten all the same.
Bug_TrustsTheClient(c, req, body) ==
    /\ c.AutoIncludeStreamUsage
    /\ req.Stream
    /\ Readable(body)
    /\ endpointMatches(c, requestPath(req.path, req.SourceFormat))
    /\ body.options = "missing"

Bug_AsksTwice(c, req, body) ==
    /\ c.AutoIncludeStreamUsage
    /\ req.Stream
    /\ Readable(body)
    /\ endpointMatches(c, requestPath(req.path, req.SourceFormat))
    /\ body.options # "no object"

\* rewriteStreamUsageRequest, for a request in scope (it tests that again, with
\* the same names).
Rewrites(c, req, body) ==
    /\ c.AutoIncludeStreamUsage
    /\ req.Stream
    /\ Readable(body)
    /\ endpointMatches(c, requestPath(req.path, req.SourceFormat))
    /\ body.options \in {"missing", "not asked"}

\* It would write to a nil map, as to one without stream_options: that panics.
Panics(c, req, body) ==
    /\ body = NilMap
    /\ InScope(c, req, body)
    /\ Rewrites(c, req, [body EXCEPT !.options = "missing"])

\* Everything else in the body stays.
Rewritten(body) == [body EXCEPT !.options = "asked"]
=============================================================================
