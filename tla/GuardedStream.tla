---------------------------- MODULE GuardedStream ----------------------------
(****************************************************************************)
(* A streaming request from its arrival to the end of its stream: the       *)
(* request interceptor, upstream, and the guard of the stream (StreamGuard, *)
(* taken as it is).                                                         *)
(*                                                                          *)
(* The host calls the request interceptor twice, before it has chosen what  *)
(* serves the request (the model may still be unknown) and after; it sends  *)
(* upstream what came of the body.  Upstream reports the reasoning tokens   *)
(* if the body asks for usage, and otherwise may or may not.  The guard can *)
(* only judge what is reported, so what it promises to the client rests on  *)
(* the rewrite, and every call loads the configuration again.               *)
(****************************************************************************)
EXTENDS RequestIntercept, SequencesExt

CONSTANTS Streams, StreamModel, Sources, RetryChunks, MaxReads, EmptyStreams, Configs,
          Requests,   \* what the host says of a request in its first call
          Bodies      \* the bodies clients send

ASSUME RequestsAssumption ==
    /\ Requests \subseteq Request
    /\ Bodies \subseteq Body \cup {Malformed, Empty}
    /\ Malformed \notin Body /\ Empty \notin Body

\* Of the streams as of the guard alone: Sources and RetryChunks are sequences
\* of chunks and chunks, Configs what the plugin can hold.
ASSUME GuardedAssumption ==
    /\ StreamModel \in [Streams -> Names]
    /\ \A src \in Sources : src \in Seq(Seq(StreamLine)) /\ src # <<>>
    /\ \E src \in Sources : \A other \in Sources : Len(other) <= Len(src)
    /\ \A c \in RetryChunks : c \in Seq(StreamLine) /\ c # <<>>
    /\ MaxReads \in Nat \ {0}
    /\ EmptyStreams \in BOOLEAN
    /\ Configs \subseteq StoredConfig
    /\ \E c \in Configs : \A d \in Configs : d.GuardRetryAttempts <= c.GuardRetryAttempts

VARIABLES \* of the request
          phase,      \* where it is
          request, body,
          reqcfg,     \* the handler's copy of the configuration
          profiled,   \* its profile was captured
          rewrites,   \* history: times its body was rewritten
          lines,      \* the log lines it was given
          constant,   \* history: not reconfigured since it arrived
          truth,      \* history: what upstream would stream if asked for usage
          \* of the stream, see StreamGuard
          config, pc, source, buffered, cfg, verdict, left, calls, kept, result, open,
          metrics, out, steady

requestVars == <<phase, request, body, reqcfg, profiled, rewrites, lines, constant, truth>>
streamVars  == <<pc, source, buffered, cfg, verdict, left, calls, kept, result, open,
                 metrics, out, steady>>
vars == <<requestVars, config, streamVars>>

\* A stream without its reports.
Muted(src) ==
    LET silent == [f \in Field |-> Absent]
    IN  [i \in DOMAIN src |-> [j \in DOMAIN src[i] |->
            CASE src[i][j] \in Document -> silent
              [] src[i][j] \in Half     -> <<silent, src[i][j][2]>>
              [] OTHER                  -> src[i][j]]]

Guard == INSTANCE StreamGuard WITH Sources <- Sources \cup {Muted(src) : src \in Sources}

Phase == {"arrived", "profiling", "rewriting", "between", "rewriting again", "upstream", "streaming"}

TypeOK ==
    /\ Guard!TypeOK
    /\ phase    \in [Streams -> Phase]
    /\ request  \in [Streams -> Request]
    /\ \A s \in Streams : body[s] \in Body \cup {Malformed, Empty}
    /\ reqcfg   \in [Streams -> Configs]
    /\ profiled \in [Streams -> BOOLEAN]
    /\ rewrites \in [Streams -> 0..2]
    /\ lines    \in [Streams -> Seq({"inspect", "add_stream_usage"})]
    /\ constant \in [Streams -> BOOLEAN]
    /\ truth    \in [Streams -> Sources]

Init ==
    /\ Guard!Init
    /\ phase    = [s \in Streams |-> "arrived"]
    /\ request  \in [Streams -> Requests]
    /\ body     \in [Streams -> Bodies]
    /\ reqcfg   = [s \in Streams |-> config]
    /\ profiled = [s \in Streams |-> FALSE]
    /\ rewrites = [s \in Streams |-> 0]
    /\ lines    = [s \in Streams |-> <<>>]
    /\ constant = [s \in Streams |-> TRUE]
    /\ truth    = source
    /\ truth    \in [Streams -> Sources]

-----------------------------------------------------------------------------
(* The request interceptor.                                                 *)

Goto(s, where) == phase' = [phase EXCEPT ![s] = where]

\* A bug it must not have: only requests on listed paths are profiled.
Bug_ProfilesListed(c, req, b) ==
    InScope(c, req, b) /\ endpointMatches(c, requestPath(req.path, req.SourceFormat))

Profiles(c, req, b) == InScope(c, req, b)

\* The handler of either call loads the configuration and captures the profile
\* of a request in scope.
Capture(s, req) ==
    /\ reqcfg' = [reqcfg EXCEPT ![s] = config]
    /\ request' = [request EXCEPT ![s] = req]
    /\ profiled' = [profiled EXCEPT ![s] = @ \/ Profiles(config, req, body[s])]

\* request.intercept_before
Before(s) ==
    /\ phase[s] = "arrived"
    /\ Capture(s, request[s])
    /\ Goto(s, "profiling")
    /\ constant' = [constant EXCEPT ![s] = TRUE]
    /\ UNCHANGED <<body, rewrites, lines, truth, config, streamVars>>

\* request.intercept_after, once the host knows the model that will answer.
After(s) ==
    /\ phase[s] = "between"
    /\ Capture(s, [request[s] EXCEPT !.Model = StreamModel[s]])
    /\ Goto(s, "rewriting again")
    /\ UNCHANGED <<body, rewrites, lines, constant, truth, config, streamVars>>

\* Logging loads the configuration once more.
Log(s, line) ==
    lines' = [lines EXCEPT ![s] = IF config.LogMatch THEN Append(@, line) ELSE @]

\* logRequestProfile, in the first of the two calls.
LogProfile(s) ==
    /\ phase[s] = "profiling"
    /\ IF InScope(reqcfg[s], request[s], body[s]) THEN Log(s, "inspect") ELSE UNCHANGED lines
    /\ Goto(s, "rewriting")
    /\ UNCHANGED <<request, body, reqcfg, profiled, rewrites, constant, truth, config, streamVars>>

ToRewrite(s) ==
    InScope(reqcfg[s], request[s], body[s]) /\ Rewrites(reqcfg[s], request[s], body[s])

\* The reply of either call; the first logs the rewrite.
Rewrite(s) ==
    /\ phase[s] \in {"rewriting", "rewriting again"}
    /\ IF ToRewrite(s)
       THEN /\ body' = [body EXCEPT ![s] = Rewritten(@)]
            /\ rewrites' = [rewrites EXCEPT ![s] = @ + 1]
            /\ IF phase[s] = "rewriting" THEN Log(s, "add_stream_usage") ELSE UNCHANGED lines
       ELSE UNCHANGED <<body, rewrites, lines>>
    /\ Goto(s, IF phase[s] = "rewriting" THEN "between" ELSE "upstream")
    /\ UNCHANGED <<request, reqcfg, profiled, constant, truth, config, streamVars>>

-----------------------------------------------------------------------------
(* The host and upstream.                                                   *)

\* Upstream answers; unasked, it may keep the usage to itself.
Upstream(s) ==
    /\ phase[s] = "upstream"
    /\ \/ UNCHANGED source
       \/ /\ Readable(body[s]) => body[s].options # "asked"
          /\ source' = [source EXCEPT ![s] = Muted(@)]
    /\ Goto(s, "streaming")
    /\ UNCHANGED <<request, body, reqcfg, profiled, rewrites, lines, constant, truth, config,
                   pc, buffered, cfg, verdict, left, calls, kept, result, open, metrics, out, steady>>

\* The guard handles the stream.
Stream(s) ==
    /\ phase[s] = "streaming"
    /\ Guard!Handle(s)
    /\ UNCHANGED requestVars

Serve(s) == Before(s) \/ LogProfile(s) \/ Rewrite(s) \/ After(s) \/ Upstream(s) \/ Stream(s)

Reconfigure(c) ==
    /\ Guard!Reconfigure(c)
    /\ constant' = [s \in Streams |-> FALSE]
    /\ UNCHANGED <<phase, request, body, reqcfg, profiled, rewrites, lines, truth>>

Next == \E s \in Streams : Serve(s) \/ \E c \in Configs : Reconfigure(c)

\* The host serves each request, and its calls return.
Spec == Init /\ [][Next]_vars /\ \A s \in Streams : WF_vars(Serve(s))

-----------------------------------------------------------------------------
(* Properties.                                                              *)

\* What upstream had to say in the chunk of the original that the client was
\* sent as the i-th.
Truth(s, i) == IF buffered[s] THEN FlattenSeq(truth[s]) ELSE truth[s][i]

\* The configuration stays, the guard judges the model's streams, and usage can
\* be asked for: a streaming request on a listed path, with options in its body
\* that are an object or missing.
Watched(s) ==
    /\ constant[s]
    /\ modelMatches(config, StreamModel[s])
    /\ config.AutoIncludeStreamUsage
    /\ request[s].Stream
    /\ Trim[request[s].path] # "" /\ endpointMatches(config, request[s].path)
    /\ Readable(body[s]) /\ body[s].options # "no object"

\* End to end: no suspicious chunk of such a stream reaches the client, however
\* reticent upstream is about usage it was not asked for.
NothingSuspiciousDelivered ==
    \A s \in Streams : Watched(s) =>
        \A i \in DOMAIN out[s] :
            out[s][i].kind = "original" => ~Guard!Suspicious(config, Truth(s, i))

\* The two calls rewrite a body once at most, whatever is reconfigured between
\* them, and the rewrite is logged if the first call could make it: the second
\* makes it without a word (interceptors.go:229).
RewrittenOnceAndLogged ==
    \A s \in Streams :
        LET logged == Cardinality({i \in DOMAIN lines[s] : lines[s][i] = "add_stream_usage"})
        IN  /\ logged <= rewrites[s] /\ rewrites[s] <= 1
            /\ (/\ constant[s] /\ config.LogMatch
                /\ phase[s] \in {"upstream", "streaming"}
                /\ \E i \in DOMAIN lines[s] : lines[s][i] = "inspect") => logged = rewrites[s]

\* Requests are in scope by any of three names, streams by one of them
\* (interceptors.go:218 and 395): a stream the guard judges is one whose
\* request was profiled, unless reconfigured in between.  Not the converse.
JudgedWasProfiled ==
    \A s \in Streams : constant[s] =>
        \A i \in DOMAIN out[s] : out[s][i].kind # "unguarded" => profiled[s]
=============================================================================
