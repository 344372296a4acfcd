------------------------------- MODULE Plugin --------------------------------
(****************************************************************************)
(* The plugin as the host sees it: init, call and shutdown around the       *)
(* global pluginState (cmd/plugin/main.go), the dispatch of a call to its   *)
(* handler (HandleMethod and the management routes), and the configuration  *)
(* of an instance, which documents replace and management POSTs edit.       *)
(*                                                                          *)
(* Nothing is locked.  A call reads pluginState twice, first to see whether *)
(* there is one; a POST loads the configuration, edits its copy and         *)
(* publishes the whole.  The interceptors load the configuration here and   *)
(* change nothing that is shared, but that of requests panics on a body     *)
(* that is null: the guard modules have the rest.                           *)
(*                                                                          *)
(* The host is external: it calls on threads of its own, shuts down at any  *)
(* time, and initialises a plugin that is not running.  Each thread of the  *)
(* model makes one call.  Payload and reply buffers are not modelled.       *)
(****************************************************************************)
EXTENDS RequestIntercept, FiniteSets

CONSTANTS Threads,       \* calls the host makes, each on a thread
          Calls,         \* what each of them may be
          MaxInstances   \* bound: times the plugin is initialised

NoInstance == 0
Instances  == 1..MaxInstances

\* The paths of management requests: what is left of one after a prefix the
\* host may put before it, and the prefix (white space around it left out).
managementPluginPrefix == "/v0/management"
resourcePluginPrefix   == "/v0/resource/plugins/codex-retry-guard"

Path == [prefix : {"", managementPluginPrefix, resourcePluginPrefix},
         rest   : {"/plugins/codex-retry-guard/config", "/plugins/codex-retry-guard/api/status",
                   "/plugins/codex-retry-guard/api/logs", "/plugins/codex-retry-guard/api/reset",
                   "/status", "/elsewhere"}]

\* The fields of a POST; what its body leaves out is empty.
Edit == [ReasoningEquals : SUBSET Int, ReasoningMatchMode : Names]

\* A call: its method and the parts of its payload the model uses.  Payloads of
\* any method that do not decode are "undecodable".  What does not decode in a
\* document or a body is Malformed.
Methods == {"plugin.register", "unknown", "undecodable", "management.register",
            "response.intercept", "header_init"}

IsCall(c) ==
    \/ c.method \in Methods
    \/ /\ c.method = "request.intercept"
       /\ c.request \in Request /\ c.body \in Body \cup {Malformed, Empty, NilMap}
    \/ /\ c.method = "plugin.reconfigure"
       /\ c.document # Malformed => /\ DOMAIN c.document \subseteq DOMAIN DefaultConfig
                                    /\ Decoded(c.document) \in Config
    \/ /\ c.method = "management.handle"
       /\ c.verb \in {"GET", "POST"} /\ c.path \in Path /\ (c.body # Malformed => c.body \in Edit)

ASSUME PluginAssumption ==
    /\ \A t \in Threads : \A c \in Calls[t] : IsCall(c)
    /\ MaxInstances \in Nat \ {0}

\* ParseYAML on the documents that occur: those it accepts, and what it returns
\* for them.
Documents  == {c.document : c \in {d \in UNION {Calls[t] : t \in Threads} :
                                       d.method = "plugin.reconfigure"}} \ {Malformed}
Parsable   == {d \in Documents : Accepted(Decoded(d))}
ParseYAML  == [d \in Parsable \cup {<<>>} |-> Normalized(Decoded(d))]

VARIABLES pluginState,  \* the global: an instance, or NoInstance for nil
          instances,    \* bounded: instances made so far
          config,       \* State.config of each instance
          pc, call,     \* where each thread is, and in which call
          inst,         \* the instance its handler was given
          next,         \* a POST's copy of the configuration
          answer, shown, \* what the host was answered, the configuration a POST's answer has
          crashed,      \* a handler panicked: the process is gone
          latest,       \* history: the document last published to each instance
          edited,       \* history: instances edited since
          reverted,     \* history: instances edited since by a stale POST
          stale,        \* history: POSTs with a copy from before the latest document
          disturbed,    \* history: POSTs that were not alone since they loaded
          shutdownAt    \* history: calls between whose two looks it shut down

handling == <<pc, call, inst, next, answer, shown>>
history  == <<latest, edited, reverted, stale, disturbed, shutdownAt>>
vars == <<pluginState, instances, config, handling, crashed, history>>

Pc      == {"idle", "entered", "given", "editing", "published", "done"}
Outcome == {"none", "refused", "ok", "rejected"}
NoCall  == [method |-> "unknown"]

TypeOK ==
    /\ pluginState \in Instances \cup {NoInstance}
    /\ instances \in 0..MaxInstances
    /\ config  \in [Instances -> StoredConfig]
    /\ pc      \in [Threads -> Pc]
    /\ \A t \in Threads : call[t] \in Calls[t] \cup {NoCall}
    /\ inst    \in [Threads -> Instances \cup {NoInstance}]
    /\ next    \in [Threads -> Config]
    /\ answer  \in [Threads -> Outcome]
    /\ shown   \in [Threads -> Config]
    /\ crashed \in BOOLEAN
    /\ edited \cup reverted \subseteq Instances
    /\ stale \cup disturbed \cup shutdownAt \subseteq Threads

Init ==
    /\ pluginState = NoInstance
    /\ instances = 0
    /\ config  = [i \in Instances |-> Normalized(DefaultConfig)]
    /\ pc      = [t \in Threads |-> "idle"]
    /\ call    = [t \in Threads |-> NoCall]
    /\ inst    = [t \in Threads |-> NoInstance]
    /\ next    = [t \in Threads |-> DefaultConfig]
    /\ answer  = [t \in Threads |-> "none"]
    /\ shown   = [t \in Threads |-> DefaultConfig]
    /\ crashed = FALSE
    /\ latest  = [i \in Instances |-> <<>>]
    /\ edited = {} /\ reverted = {} /\ stale = {} /\ disturbed = {} /\ shutdownAt = {}

-----------------------------------------------------------------------------
(* Lifecycle.                                                               *)

\* cliproxy_plugin_init: another instance, under the default configuration
\* (which Init gave it: nothing reaches an instance before it is made).
Initialise ==
    /\ ~crashed
    /\ pluginState = NoInstance
    /\ instances < MaxInstances
    /\ instances' = instances + 1
    /\ pluginState' = instances'
    /\ UNCHANGED <<config, handling, crashed, history>>

\* cliproxyPluginShutdown, with calls under way or not.
Shutdown ==
    /\ ~crashed
    /\ pluginState # NoInstance
    /\ pluginState' = NoInstance
    /\ shutdownAt' = shutdownAt \cup {t \in Threads : pc[t] = "entered"}
    /\ UNCHANGED <<instances, config, handling, crashed, latest, edited, reverted, stale, disturbed>>

-----------------------------------------------------------------------------
(* Which handler a call reaches, and what that does at once.                *)

normalizePluginManagementPath(path) ==
    IF path.prefix = managementPluginPrefix THEN [path EXCEPT !.prefix = ""] ELSE path

normalizePluginResourcePath(path) ==
    IF path.prefix = resourcePluginPrefix THEN [path EXCEPT !.prefix = ""] ELSE path

Routes == {<<"GET", "/plugins/codex-retry-guard/api/status">>,
           <<"GET", "/plugins/codex-retry-guard/api/logs">>,
           <<"GET", "/plugins/codex-retry-guard/config">>,
           <<"POST", "/plugins/codex-retry-guard/config">>,
           <<"POST", "/plugins/codex-retry-guard/api/reset">>}

HasRoute(c, verb, rest) ==
    /\ <<verb, rest>> \in Routes
    /\ c.verb = verb
    /\ normalizePluginManagementPath(c.path) = [prefix |-> "", rest |-> rest]

\* The page is at any path that ends in its own, whatever the verb.
HasPage(c) ==
    normalizePluginResourcePath(c.path).rest \in {"/status", "/plugins/codex-retry-guard/api/status"}

IsDocument(c) == c.method = "plugin.reconfigure"
IsPost(c)     == c.method = "management.handle" /\ HasRoute(c, "POST", "/plugins/codex-retry-guard/config")

\* Handlers that return an error before they touch the instance.
RejectedOutright(c) ==
    \/ c.method \in {"unknown", "undecodable"}
    \/ IsDocument(c) /\ c.document \notin Parsable

\* Those that return without one: plugin.register has no use for it, and the
\* stream handler looks at header init whether there is one.
NeedsNone(c) == c.method \in {"plugin.register", "header_init"} \/ RejectedOutright(c)

\* What a handler that changes nothing answers once it has one.
Served(c) ==
    IF c.method = "management.handle" /\ ~HasPage(c) /\ ~\E r \in Routes : HasRoute(c, r[1], r[2])
    THEN "rejected" ELSE "ok"

-----------------------------------------------------------------------------
(* A call.                                                                  *)

\* The locals of its handler are gone with it.
Respond(t, how) ==
    /\ answer' = [answer EXCEPT ![t] = how]
    /\ pc'   = [pc EXCEPT ![t] = "done"]
    /\ inst' = [inst EXCEPT ![t] = NoInstance]
    /\ next' = [next EXCEPT ![t] = DefaultConfig]

Goto(t, where) == pc' = [pc EXCEPT ![t] = where]

\* A bug it must not have: a call is not refused without an instance.
Bug_EnterUnchecked(t) ==
    /\ ~crashed
    /\ pc[t] = "idle"
    /\ call' \in {[call EXCEPT ![t] = c] : c \in Calls[t]}
    /\ Goto(t, "entered")
    /\ UNCHANGED <<pluginState, instances, config, inst, next, answer, shown, crashed, history>>

\* cliproxyPluginCall's first look at pluginState.
Enter(t) ==
    /\ ~crashed
    /\ pc[t] = "idle"
    /\ call' \in {[call EXCEPT ![t] = c] : c \in Calls[t]}
    /\ IF pluginState = NoInstance
       THEN Respond(t, "refused")
       ELSE Goto(t, "entered") /\ UNCHANGED <<answer, inst, next>>
    /\ UNCHANGED <<pluginState, instances, config, shown, crashed, history>>

\* A bug it must not have: header init does not look whether there is one.
Bug_ReturnOnlyRejected(t) ==
    /\ ~crashed
    /\ pc[t] = "entered"
    /\ RejectedOutright(call[t]) \/ call[t].method = "plugin.register"
    /\ Respond(t, IF RejectedOutright(call[t]) THEN "rejected" ELSE "ok")
    /\ UNCHANGED <<pluginState, instances, config, call, shown, crashed, history>>

\* The second look, as HandleMethod is called.  Handlers that need no instance
\* return (header init without one only).
ReturnWithout(t) ==
    /\ ~crashed
    /\ pc[t] = "entered"
    /\ NeedsNone(call[t])
    /\ call[t].method = "header_init" => pluginState = NoInstance
    /\ Respond(t, IF RejectedOutright(call[t]) THEN "rejected" ELSE "ok")
    /\ UNCHANGED <<pluginState, instances, config, call, shown, crashed, history>>

\* A handler that dereferences nil panics and takes the process with it.
Crash(t) ==
    /\ ~crashed
    /\ pc[t] = "entered"
    /\ ~NeedsNone(call[t])
    /\ pluginState = NoInstance
    /\ crashed' = TRUE
    /\ UNCHANGED <<pluginState, instances, config, handling, history>>

Dispatch(t) ==
    /\ ~crashed
    /\ pc[t] = "entered"
    /\ call[t].method = "header_init" \/ ~NeedsNone(call[t])
    /\ pluginState # NoInstance
    /\ inst' = [inst EXCEPT ![t] = pluginState]
    /\ Goto(t, "given")
    /\ UNCHANGED <<pluginState, instances, config, call, next, answer, shown, crashed, history>>

\* A request whose body is null, where the configuration asks to rewrite it.
IsNilWrite(t) ==
    /\ call[t].method = "request.intercept"
    /\ Panics(config[inst[t]], call[t].request, call[t].body)

\* Nothing recovers at the boundary to C (main.go:141-164).
PanicOnNull(t) ==
    /\ ~crashed
    /\ pc[t] = "given"
    /\ IsNilWrite(t)
    /\ crashed' = TRUE
    /\ UNCHANGED <<pluginState, instances, config, handling, history>>

\* An interceptor, or a management request that edits nothing: it may load the
\* configuration, and leaves it as it is.
Serve(t) ==
    /\ ~crashed
    /\ pc[t] = "given"
    /\ ~IsDocument(call[t]) /\ ~IsPost(call[t])
    /\ ~IsNilWrite(t)
    /\ Respond(t, Served(call[t]))
    /\ UNCHANGED <<pluginState, instances, config, call, shown, crashed, history>>

-----------------------------------------------------------------------------
(* Changing the configuration.                                              *)

\* A bug it must not have: validated, and published as it came.
Bug_PublishesAsSent(i, c) == config' = [config EXCEPT ![i] = c]

\* State.Reconfigure: one atomic store, of what validation makes of it.
Publish(i, c) == config' = [config EXCEPT ![i] = Normalized(c)]

\* POSTs of instance i that are between load and answer.
Busy(i) == {t \in Threads : inst[t] = i /\ pc[t] \in {"editing", "published"}}

\* handleReconfigure of a document that is accepted.
Reconfigure(t) ==
    /\ ~crashed
    /\ pc[t] = "given"
    /\ IsDocument(call[t])
    /\ Publish(inst[t], ParseYAML[call[t].document])
    /\ latest' = [latest EXCEPT ![inst[t]] = call[t].document]
    /\ edited' = edited \ {inst[t]}
    /\ reverted' = reverted \ {inst[t]}
    /\ stale' = stale \cup Busy(inst[t])
    /\ disturbed' = disturbed \cup Busy(inst[t])
    /\ Respond(t, "ok")
    /\ UNCHANGED <<pluginState, instances, call, shown, crashed, shutdownAt>>

\* A bug it must not have: an edit starts from the default configuration.
Bug_EditsDefaults(c, edit) ==
    [DefaultConfig EXCEPT !.ReasoningEquals = edit.ReasoningEquals,
                          !.ReasoningMatchMode = IF edit.ReasoningMatchMode # ""
                                                 THEN edit.ReasoningMatchMode ELSE @]

\* The list is always replaced, the mode if there is one.
Edited(c, edit) ==
    [c EXCEPT !.ReasoningEquals = edit.ReasoningEquals,
              !.ReasoningMatchMode = IF edit.ReasoningMatchMode # ""
                                     THEN edit.ReasoningMatchMode ELSE @]

\* A POST loads the configuration and decodes the body.
LoadConfig(t) ==
    /\ ~crashed
    /\ pc[t] = "given"
    /\ IsPost(call[t])
    /\ IF call[t].body = Malformed
       THEN Respond(t, "rejected")
       ELSE /\ next' = [next EXCEPT ![t] = Edited(config[inst[t]], call[t].body)]
            /\ Goto(t, "editing")
            /\ UNCHANGED <<answer, inst>>
    /\ UNCHANGED <<pluginState, instances, config, call, shown, crashed, history>>

\* It publishes its copy as a whole, if validation accepts it.
PublishEdit(t) ==
    /\ ~crashed
    /\ pc[t] = "editing"
    /\ IF Accepted(next[t])
       THEN /\ Publish(inst[t], next[t])
            /\ edited' = edited \cup {inst[t]}
            /\ reverted' = reverted \cup (IF t \in stale THEN {inst[t]} ELSE {})
            /\ disturbed' = disturbed \cup (Busy(inst[t]) \ {t})
            /\ Goto(t, "published")
            /\ UNCHANGED <<answer, inst, next>>
       ELSE Respond(t, "rejected") /\ UNCHANGED <<config, edited, reverted, disturbed>>
    /\ UNCHANGED <<pluginState, instances, call, shown, crashed, latest, stale, shutdownAt>>

\* A bug it must not have: the answer is the copy, not what was made of it.
Bug_AnswersCopy(t) == next[t]

\* And answers with the configuration as it then is.
ReadBack(t) == config[inst[t]]

AnswerEdit(t) ==
    /\ ~crashed
    /\ pc[t] = "published"
    /\ shown' = [shown EXCEPT ![t] = ReadBack(t)]
    /\ Respond(t, "ok")
    /\ UNCHANGED <<pluginState, instances, config, call, crashed, history>>

Handle(t) ==
    \/ ReturnWithout(t) \/ Crash(t) \/ Dispatch(t) \/ PanicOnNull(t) \/ Serve(t)
    \/ Reconfigure(t) \/ LoadConfig(t) \/ PublishEdit(t) \/ AnswerEdit(t)

Next == Initialise \/ Shutdown \/ \E t \in Threads : Enter(t) \/ Handle(t)

\* A call waits for nothing, and its thread runs.
Spec == Init /\ [][Next]_vars /\ \A t \in Threads : WF_vars(Handle(t))

-----------------------------------------------------------------------------
(* Properties.                                                              *)

Others(c) == [f \in DOMAIN c \ {"ReasoningEquals", "ReasoningMatchMode"} |-> c[f]]

\* The document last accepted says what is in force (main.go's default, if
\* there was none): all of it until an edit, and after edits still every field
\* they do not touch.  Rejected documents and edits leave no trace.  Only an
\* edit that loaded before the document was published undoes it (http.go:85).
LatestDocumentInForce ==
    \A i \in Instances \ reverted :
        LET document == ParseYAML[latest[i]]
        IN  /\ Others(config[i]) = Others(document)
            /\ i \notin edited => config[i] = document

\* A POST that is accepted is answered with its own list and mode in force,
\* normalised, unless something else was published while it was handled.
EditAnsweredInForce ==
    \A t \in Threads :
        pc[t] = "done" /\ answer[t] = "ok" /\ IsPost(call[t]) /\ t \notin disturbed =>
            LET sent == call[t].body
            IN  /\ shown[t] \in StoredConfig
                /\ shown[t].ReasoningEquals = sent.ReasoningEquals
                /\ sent.ReasoningMatchMode # "" =>
                     shown[t].ReasoningMatchMode = normalizeReasoningMatchMode(sent.ReasoningMatchMode)

\* The process is lost only if the plugin was shut down between the two looks
\* a call takes at pluginState (main.go:146 and 153), or if a streaming request
\* whose body is null is before a configuration in force that asks for usage
\* (interceptors.go:264).
CrashOnlyUnderShutdownOrNull ==
    crashed =>
        \/ \E t \in shutdownAt : pc[t] = "entered"
        \/ \E t \in Threads : /\ pc[t] = "given" /\ call[t].method = "request.intercept"
                             /\ call[t].body = NilMap /\ call[t].request.Stream
                             /\ config[inst[t]].AutoIncludeStreamUsage

\* A call that is made is answered, also across shutdowns and another init.
EveryCallAnswered ==
    \A t \in Threads : pc[t] # "idle" ~> pc[t] = "done" \/ crashed
=============================================================================
