---------------------------- MODULE PluginProofs -----------------------------
(****************************************************************************)
(* Proofs about Plugin: type correctness, and that the configuration of an  *)
(* instance is that of the latest accepted document but for the edits made  *)
(* since.  Both rest on what normalisation does to a configuration.         *)
(****************************************************************************)
EXTENDS Plugin, TLAPS

-----------------------------------------------------------------------------
(* Normalisation.                                                           *)

\* The list of non-empty trimmed strings is not changed by another trim.
LEMMA ListStable ==
    ASSUME NEW list \in SUBSET Names
    PROVE  /\ normalizeStringList(list) \in SUBSET Names
           /\ normalizeStringList(normalizeStringList(list)) = normalizeStringList(list)
<1> DEFINE once == {Trim[s] : s \in list} \ {""}
<1>1. \A s \in once : Trim[s] = s
    BY TrimAssumption
<1>2. {Trim[s] : s \in once} = once
    BY <1>1
<1>3. once \in SUBSET Names /\ "" \notin once
    <2>1. \A s \in list : Trim[s] \in Names
        BY TrimAssumption
    <2> QED
        BY <2>1, Zenon
<1> HIDE DEF once
<1>4. {Trim[s] : s \in once} \ {""} = once
    BY <1>2, <1>3
<1> QED
    BY <1>3, <1>4 DEF normalizeStringList, once

\* Nor are the default endpoints.
LEMMA EndpointsStable ==
    DefaultEndpoints \in SUBSET Names /\ DefaultEndpoints # {} /\ normalizeStringList(DefaultEndpoints) = DefaultEndpoints
BY EndpointsAssumption DEF normalizeStringList

\* The match mode and the stream action are settled by one normalisation.
LEMMA ModeStable ==
    ASSUME NEW mode \in Names
    PROVE  /\ normalizeReasoningMatchMode(mode) \in {Manual, Formula}
           /\ normalizeReasoningMatchMode(mode) \in Names
           /\ normalizeReasoningMatchMode(normalizeReasoningMatchMode(mode)) = normalizeReasoningMatchMode(mode)
<1>1. Trim[Lower[Formula]] = Formula /\ Trim[Lower[Manual]] = Manual /\ Manual # Formula
    BY TrimAssumption, LowerAssumption DEF Manual, Formula
<1> QED
    BY <1>1, NamesAssumption DEF normalizeReasoningMatchMode

\* See above.
LEMMA ActionStable ==
    ASSUME NEW action \in Names
    PROVE  /\ normalizeStreamAction(action) \in Names
           /\ normalizeStreamAction(normalizeStreamAction(action)) = normalizeStreamAction(action)
BY TrimAssumption, NamesAssumption DEF normalizeStreamAction

\* What normalisation does, field by field.
LEMMA NormalizedFields ==
    ASSUME NEW c \in Config
    PROVE  /\ Normalized(c) \in Config
           /\ Normalized(c).Enabled = c.Enabled
           /\ Normalized(c).Models = normalizeStringList(c.Models)
           /\ Normalized(c).Endpoints = IF normalizeStringList(c.Endpoints) = {} THEN DefaultEndpoints
                                        ELSE normalizeStringList(c.Endpoints)
           /\ Normalized(c).AutoIncludeStreamUsage = c.AutoIncludeStreamUsage
           /\ Normalized(c).ReasoningEquals = c.ReasoningEquals
           /\ Normalized(c).ReasoningMatchMode = normalizeReasoningMatchMode(c.ReasoningMatchMode)
           /\ Normalized(c).InterceptStreaming = c.InterceptStreaming
           /\ Normalized(c).InterceptNonStreaming = c.InterceptNonStreaming
           /\ Normalized(c).GuardRetryAttempts = c.GuardRetryAttempts
           /\ Normalized(c).NonStreamStatusCode = IF c.NonStreamStatusCode <= 0 THEN 502 ELSE c.NonStreamStatusCode
           /\ Normalized(c).StreamAction = normalizeStreamAction(c.StreamAction)
           /\ Normalized(c).LogMatch = c.LogMatch
<1>1. /\ c.Models \in SUBSET Names /\ c.Endpoints \in SUBSET Names /\ c.ReasoningMatchMode \in Names
      /\ c.StreamAction \in Names /\ c.NonStreamStatusCode \in Int
    BY DEF Config
<1>2. /\ normalizeStringList(c.Models) \in SUBSET Names
      /\ normalizeStringList(c.Endpoints) \in SUBSET Names
      /\ normalizeReasoningMatchMode(c.ReasoningMatchMode) \in Names
      /\ normalizeStreamAction(c.StreamAction) \in Names
    BY <1>1, ListStable, ModeStable, ActionStable
<1>3. DefaultEndpoints \in SUBSET Names
    BY EndpointsStable
<1> DEFINE models    == normalizeStringList(c.Models)
           endpoints == IF normalizeStringList(c.Endpoints) = {} THEN DefaultEndpoints
                        ELSE normalizeStringList(c.Endpoints)
           mode      == normalizeReasoningMatchMode(c.ReasoningMatchMode)
           action    == normalizeStreamAction(c.StreamAction)
           code      == IF c.NonStreamStatusCode <= 0 THEN 502 ELSE c.NonStreamStatusCode
<1>4. /\ models \in SUBSET Names /\ endpoints \in SUBSET Names /\ mode \in Names
      /\ action \in Names /\ code \in Int
    BY <1>1, <1>2, <1>3
<1>5. DefaultConfig.NonStreamStatusCode = 502
    BY DEF DefaultConfig
<1>6. Normalized(c) = [c EXCEPT !.Models = models, !.Endpoints = endpoints, !.ReasoningMatchMode = mode,
                                !.StreamAction = action, !.NonStreamStatusCode = code]
    BY <1>5 DEF Normalized
<1> HIDE DEF models, endpoints, mode, action, code
<1>7. Normalized(c) \in Config
    <2>1. /\ c.Enabled \in BOOLEAN /\ c.AutoIncludeStreamUsage \in BOOLEAN /\ c.ReasoningEquals \in SUBSET Int
          /\ c.InterceptStreaming \in BOOLEAN /\ c.InterceptNonStreaming \in BOOLEAN
          /\ c.GuardRetryAttempts \in Int /\ c.LogMatch \in BOOLEAN
        BY DEF Config
    <2>2. Normalized(c) =
             [Enabled |-> c.Enabled, Models |-> models, Endpoints |-> endpoints,
              AutoIncludeStreamUsage |-> c.AutoIncludeStreamUsage, ReasoningEquals |-> c.ReasoningEquals,
              ReasoningMatchMode |-> mode, InterceptStreaming |-> c.InterceptStreaming,
              InterceptNonStreaming |-> c.InterceptNonStreaming,
              GuardRetryAttempts |-> c.GuardRetryAttempts, NonStreamStatusCode |-> code,
              StreamAction |-> action, LogMatch |-> c.LogMatch]
        BY <1>6 DEF Config
    <2> QED
        BY <1>4, <2>1, <2>2 DEF Config
<1>8. /\ Normalized(c).Models = models /\ Normalized(c).Endpoints = endpoints
      /\ Normalized(c).ReasoningMatchMode = mode /\ Normalized(c).StreamAction = action
      /\ Normalized(c).NonStreamStatusCode = code
    BY <1>6 DEF Config
<1>9. /\ Normalized(c).Enabled = c.Enabled
      /\ Normalized(c).AutoIncludeStreamUsage = c.AutoIncludeStreamUsage
      /\ Normalized(c).ReasoningEquals = c.ReasoningEquals
      /\ Normalized(c).InterceptStreaming = c.InterceptStreaming
      /\ Normalized(c).InterceptNonStreaming = c.InterceptNonStreaming
      /\ Normalized(c).GuardRetryAttempts = c.GuardRetryAttempts
      /\ Normalized(c).LogMatch = c.LogMatch
    BY <1>6 DEF Config
<1> QED
    BY <1>7, <1>8, <1>9 DEF models, endpoints, mode, action, code

\* Two configurations with the same fields are the same.
LEMMA SameFields ==
    ASSUME NEW c \in Config, NEW d \in Config,
           c.Enabled = d.Enabled, c.Models = d.Models, c.Endpoints = d.Endpoints,
           c.AutoIncludeStreamUsage = d.AutoIncludeStreamUsage, c.ReasoningEquals = d.ReasoningEquals,
           c.ReasoningMatchMode = d.ReasoningMatchMode, c.InterceptStreaming = d.InterceptStreaming,
           c.InterceptNonStreaming = d.InterceptNonStreaming, c.GuardRetryAttempts = d.GuardRetryAttempts,
           c.NonStreamStatusCode = d.NonStreamStatusCode, c.StreamAction = d.StreamAction,
           c.LogMatch = d.LogMatch
    PROVE  c = d
BY DEF Config

\* What validation makes of an accepted configuration is one the plugin may
\* hold: normalising it again would change nothing (config.go:99-165).
THEOREM NormalizedIsStored ==
    ASSUME NEW c \in Config
    PROVE  /\ Normalized(Normalized(c)) = Normalized(c)
           /\ Accepted(c) => Normalized(c) \in StoredConfig
<1> DEFINE n == Normalized(c)
           m == Normalized(n)
<1>1. /\ c.Models \in SUBSET Names /\ c.Endpoints \in SUBSET Names /\ c.ReasoningMatchMode \in Names
      /\ c.StreamAction \in Names /\ c.NonStreamStatusCode \in Int
    BY DEF Config
<1>2. n \in Config /\ m \in Config
    BY NormalizedFields
<1>3. m.Models = n.Models
    BY <1>1, <1>2, NormalizedFields, ListStable
<1>4. m.Endpoints = n.Endpoints
    BY <1>1, <1>2, NormalizedFields, ListStable, EndpointsStable
<1>5. m.ReasoningMatchMode = n.ReasoningMatchMode
    BY <1>1, <1>2, NormalizedFields, ModeStable
<1>6. m.StreamAction = n.StreamAction
    BY <1>1, <1>2, NormalizedFields, ActionStable
<1>7. m.NonStreamStatusCode = n.NonStreamStatusCode
    BY <1>1, <1>2, NormalizedFields
<1>8. m = n
    <2>1. /\ m.Enabled = n.Enabled /\ m.AutoIncludeStreamUsage = n.AutoIncludeStreamUsage
          /\ m.ReasoningEquals = n.ReasoningEquals /\ m.InterceptStreaming = n.InterceptStreaming
          /\ m.InterceptNonStreaming = n.InterceptNonStreaming
          /\ m.GuardRetryAttempts = n.GuardRetryAttempts /\ m.LogMatch = n.LogMatch
        BY <1>2, NormalizedFields
    <2> HIDE DEF m, n
    <2> QED
        BY <1>2, <1>3, <1>4, <1>5, <1>6, <1>7, <2>1, SameFields
<1>9. Accepted(c) => Accepted(n)
    BY NormalizedFields DEF Accepted
<1> QED
    BY <1>2, <1>8, <1>9 DEF StoredConfig

\* The default configuration is one of those.
LEMMA DefaultStored == DefaultConfig \in Config /\ Accepted(DefaultConfig)
<1> DEFINE counts == {516, 1034, 1552}
<1>1. DefaultEndpoints \in SUBSET Names
    BY EndpointsAssumption
<1>2. Manual \in Names /\ "strict_502" \in Names
    BY NamesAssumption
<1>3. counts \in SUBSET Int /\ counts # {}
    OBVIOUS
<1>4. 3 \in Int /\ 502 \in Int /\ TRUE \in BOOLEAN /\ {} \in SUBSET Names
    OBVIOUS
<1>5. DefaultConfig \in Config
    <2>1. DefaultConfig =
             [Enabled |-> TRUE, Models |-> {}, Endpoints |-> DefaultEndpoints, AutoIncludeStreamUsage |-> TRUE,
              ReasoningEquals |-> counts, ReasoningMatchMode |-> Manual, InterceptStreaming |-> TRUE,
              InterceptNonStreaming |-> TRUE, GuardRetryAttempts |-> 3, NonStreamStatusCode |-> 502,
              StreamAction |-> "strict_502", LogMatch |-> TRUE]
        BY DEF DefaultConfig
    <2> HIDE DEF counts
    <2> QED
        BY <1>1, <1>2, <1>3, <1>4, <2>1, Zenon DEF Config
<1> QED
    BY <1>3, <1>5 DEF DefaultConfig, Accepted

\* The fields an edit does not touch, one by one.
LEMMA OthersFields ==
    ASSUME NEW c \in Config, NEW d \in Config
    PROVE  Others(c) = Others(d) <=>
             /\ c.Enabled = d.Enabled /\ c.Models = d.Models /\ c.Endpoints = d.Endpoints
             /\ c.AutoIncludeStreamUsage = d.AutoIncludeStreamUsage
             /\ c.InterceptStreaming = d.InterceptStreaming
             /\ c.InterceptNonStreaming = d.InterceptNonStreaming
             /\ c.GuardRetryAttempts = d.GuardRetryAttempts
             /\ c.NonStreamStatusCode = d.NonStreamStatusCode
             /\ c.StreamAction = d.StreamAction /\ c.LogMatch = d.LogMatch
<1> DEFINE fields == {"Enabled", "Models", "Endpoints", "AutoIncludeStreamUsage", "InterceptStreaming",
                      "InterceptNonStreaming", "GuardRetryAttempts", "NonStreamStatusCode",
                      "StreamAction", "LogMatch"}
<1>1. /\ DOMAIN c \ {"ReasoningEquals", "ReasoningMatchMode"} = fields
      /\ DOMAIN d \ {"ReasoningEquals", "ReasoningMatchMode"} = fields
    BY DEF Config
<1>2. Others(c) = [f \in fields |-> c[f]] /\ Others(d) = [f \in fields |-> d[f]]
    BY <1>1 DEF Others
<1>3. Others(c) = Others(d) <=> \A f \in fields : c[f] = d[f]
    <2> HIDE DEF fields
    <2>1. ASSUME Others(c) = Others(d), NEW f \in fields PROVE c[f] = d[f]
        <3>1. Others(c)[f] = c[f] /\ Others(d)[f] = d[f]
            BY <1>2
        <3> QED
            BY <2>1, <3>1
    <2>2. ASSUME \A f \in fields : c[f] = d[f] PROVE Others(c) = Others(d)
        BY <1>2, <2>2
    <2> QED
        BY <2>1, <2>2
<1> QED
    BY <1>3

\* Validation does not touch them either, if they are those of a configuration
\* the plugin may hold.
LEMMA OthersKept ==
    ASSUME NEW c \in Config, NEW d \in StoredConfig, Others(c) = Others(d)
    PROVE  Others(Normalized(c)) = Others(d)
<1>1. d \in Config /\ Normalized(d) = d
    BY DEF StoredConfig
<1>2. Normalized(c) \in Config
    BY NormalizedFields
<1>3. /\ c.Enabled = d.Enabled /\ c.Models = d.Models /\ c.Endpoints = d.Endpoints
      /\ c.AutoIncludeStreamUsage = d.AutoIncludeStreamUsage
      /\ c.InterceptStreaming = d.InterceptStreaming /\ c.InterceptNonStreaming = d.InterceptNonStreaming
      /\ c.GuardRetryAttempts = d.GuardRetryAttempts /\ c.NonStreamStatusCode = d.NonStreamStatusCode
      /\ c.StreamAction = d.StreamAction /\ c.LogMatch = d.LogMatch
    BY <1>1, OthersFields
<1> DEFINE n == Normalized(c)
           m == Normalized(d)
<1>4. /\ n.Enabled = m.Enabled /\ n.Models = m.Models /\ n.Endpoints = m.Endpoints
      /\ n.AutoIncludeStreamUsage = m.AutoIncludeStreamUsage
      /\ n.InterceptStreaming = m.InterceptStreaming /\ n.InterceptNonStreaming = m.InterceptNonStreaming
      /\ n.GuardRetryAttempts = m.GuardRetryAttempts /\ n.NonStreamStatusCode = m.NonStreamStatusCode
      /\ n.StreamAction = m.StreamAction /\ n.LogMatch = m.LogMatch
    <2>1. /\ n.Enabled = m.Enabled /\ n.AutoIncludeStreamUsage = m.AutoIncludeStreamUsage
          /\ n.InterceptStreaming = m.InterceptStreaming /\ n.InterceptNonStreaming = m.InterceptNonStreaming
          /\ n.GuardRetryAttempts = m.GuardRetryAttempts /\ n.LogMatch = m.LogMatch
        BY <1>1, <1>3, NormalizedFields
    <2>2. n.Models = m.Models
        BY <1>1, <1>3, NormalizedFields
    <2>3. n.Endpoints = m.Endpoints
        BY <1>1, <1>3, NormalizedFields
    <2>4. n.NonStreamStatusCode = m.NonStreamStatusCode
        BY <1>1, <1>3, NormalizedFields
    <2>5. n.StreamAction = m.StreamAction
        BY <1>1, <1>3, NormalizedFields
    <2> QED
        BY <2>1, <2>2, <2>3, <2>4, <2>5
<1>5. m = d
    BY <1>1
<1> HIDE DEF m, n
<1>6. Others(n) = Others(d)
    BY <1>1, <1>2, <1>4, <1>5, OthersFields DEF n
<1> QED
    BY <1>6 DEF n

\* An edit makes a configuration of a configuration, with its list and mode,
\* and touches nothing else.
LEMMA EditedFields ==
    ASSUME NEW c \in Config, NEW edit \in Edit
    PROVE  /\ Edited(c, edit) \in Config
           /\ Edited(c, edit).ReasoningEquals = edit.ReasoningEquals
           /\ edit.ReasoningMatchMode # "" => Edited(c, edit).ReasoningMatchMode = edit.ReasoningMatchMode
           /\ Others(Edited(c, edit)) = Others(c)
<1> DEFINE counts == edit.ReasoningEquals
           mode   == IF edit.ReasoningMatchMode # "" THEN edit.ReasoningMatchMode ELSE c.ReasoningMatchMode
           e      == Edited(c, edit)
<1>1. counts \in SUBSET Int /\ mode \in Names
    BY DEF Edit, Config
<1>2. e = [c EXCEPT !.ReasoningEquals = counts, !.ReasoningMatchMode = mode]
    BY DEF Edited
<1> HIDE DEF counts, mode, e
<1>3. e \in Config /\ e.ReasoningEquals = counts /\ e.ReasoningMatchMode = mode
    BY <1>1, <1>2 DEF Config
<1>4. /\ e.Enabled = c.Enabled /\ e.Models = c.Models /\ e.Endpoints = c.Endpoints
      /\ e.AutoIncludeStreamUsage = c.AutoIncludeStreamUsage
      /\ e.InterceptStreaming = c.InterceptStreaming /\ e.InterceptNonStreaming = c.InterceptNonStreaming
      /\ e.GuardRetryAttempts = c.GuardRetryAttempts /\ e.NonStreamStatusCode = c.NonStreamStatusCode
      /\ e.StreamAction = c.StreamAction /\ e.LogMatch = c.LogMatch
    BY <1>2 DEF Config
<1>5. Others(e) = Others(c)
    BY <1>3, <1>4, OthersFields
<1> QED
    BY <1>3, <1>5 DEF e, counts, mode

\* A blank document means the default configuration.
LEMMA BlankDocument ==
    Decoded(<<>>) = DefaultConfig /\ ParseYAML[<<>>] = Normalized(DefaultConfig)
<1>1. DOMAIN <<>> = {}
    OBVIOUS
<1>2. Decoded(<<>>) = [f \in DOMAIN DefaultConfig |-> DefaultConfig[f]]
    BY <1>1 DEF Decoded
<1>3. DefaultConfig = [f \in DOMAIN DefaultConfig |-> DefaultConfig[f]]
    <2>1. \A c \in Config : c = [f \in DOMAIN c |-> c[f]]
        BY DEF Config
    <2> QED
        BY <2>1, DefaultStored
<1>4. ParseYAML[<<>>] = Normalized(Decoded(<<>>))
    BY DEF ParseYAML
<1> QED
    BY <1>2, <1>3, <1>4

\* ParseYAML returns configurations the plugin may hold.
LEMMA ParsedIsStored ==
    ASSUME NEW document \in Parsable \cup {<<>>}
    PROVE  ParseYAML[document] \in StoredConfig
<1>1. Decoded(document) \in Config /\ Accepted(Decoded(document))
    <2>1. CASE document \in Parsable
        <3>1. PICK c \in UNION {Calls[t] : t \in Threads} :
                 c.method = "plugin.reconfigure" /\ c.document = document /\ document # Malformed
            BY <2>1 DEF Parsable, Documents
        <3>2. IsCall(c) /\ c.method \notin Methods \cup {"request.intercept", "management.handle"}
            BY <3>1, PluginAssumption DEF Methods
        <3>3. Decoded(document) \in Config
            BY <3>1, <3>2 DEF IsCall
        <3> QED
            BY <2>1, <3>3 DEF Parsable
    <2>2. CASE document = <<>>
        <3>1. Decoded(document) = DefaultConfig
            BY <2>2, BlankDocument
        <3> QED
            BY <3>1, DefaultStored
    <2> QED
        BY <2>1, <2>2
<1>2. ParseYAML[document] = Normalized(Decoded(document))
    BY DEF ParseYAML
<1> QED
    BY <1>1, <1>2, NormalizedIsStored

-----------------------------------------------------------------------------
(* Type correctness, with where a call can be and with what.                *)

AnyCall   == (UNION {Calls[t] : t \in Threads}) \cup {NoCall}
Posts     == {c \in AnyCall : IsPost(c) /\ c.body \in Edit}
Admitted  == {c \in AnyCall : ~RejectedOutright(c)}
Handled   == {"given", "editing", "published"}

CallInv(t) ==
    /\ call[t] \in Calls[t] \cup {NoCall}
    /\ pc[t] \in Handled => inst[t] \in Instances /\ call[t] \in Admitted
    /\ pc[t] \in {"editing", "published"} => call[t] \in Posts

TypeInv ==
    /\ pluginState \in Instances \cup {NoInstance} /\ instances \in 0..MaxInstances
    /\ config \in [Instances -> StoredConfig] /\ latest \in [Instances -> Parsable \cup {<<>>}]
    /\ pc \in [Threads -> Pc] /\ call \in [Threads -> AnyCall]
    /\ inst \in [Threads -> Instances \cup {NoInstance}] /\ next \in [Threads -> Config]
    /\ answer \in [Threads -> Outcome] /\ shown \in [Threads -> Config]
    /\ crashed \in BOOLEAN
    /\ edited \in SUBSET Instances /\ reverted \in SUBSET Instances
    /\ stale \in SUBSET Threads /\ disturbed \in SUBSET Threads /\ shutdownAt \in SUBSET Threads
    /\ \A t \in Threads : CallInv(t)

Locals(t) == <<pc[t], call[t], inst[t], next[t], answer[t], shown[t]>>

\* A reply ends a call.
LEMMA RespondFacts ==
    ASSUME TypeInv, NEW t \in Threads, NEW how \in Outcome, Respond(t, how)
    PROVE  /\ pc' \in [Threads -> Pc] /\ answer' \in [Threads -> Outcome]
           /\ inst' \in [Threads -> Instances \cup {NoInstance}] /\ next' \in [Threads -> Config]
           /\ pc'[t] = "done" /\ answer'[t] = how
           /\ \A q \in Threads \ {t} : /\ pc'[q] = pc[q] /\ answer'[q] = answer[q]
                                       /\ inst'[q] = inst[q] /\ next'[q] = next[q]
<1>1. DefaultConfig \in Config
    BY DefaultStored
<1> QED
    BY <1>1 DEF TypeInv, Respond, Pc, Outcome

\* A call touches its own locals only.
LEMMA OthersUntouched ==
    ASSUME TypeInv, NEW t \in Threads, Enter(t) \/ Handle(t)
    PROVE  \A q \in Threads \ {t} : Locals(q)' = Locals(q)
<1> USE DEF Locals
<1>1. CASE Enter(t)
    <2>1. PICK c \in Calls[t] : call' = [call EXCEPT ![t] = c]
        BY <1>1 DEF Enter
    <2>2. \A q \in Threads \ {t} : call'[q] = call[q]
        BY <2>1 DEF TypeInv
    <2>3. \A q \in Threads \ {t} : /\ pc'[q] = pc[q] /\ answer'[q] = answer[q]
                                   /\ inst'[q] = inst[q] /\ next'[q] = next[q]
        BY <1>1 DEF Enter, Respond, Goto, TypeInv
    <2> QED
        BY <1>1, <2>2, <2>3 DEF Enter
<1>2. CASE ReturnWithout(t)
    BY <1>2 DEF ReturnWithout, Respond, TypeInv
<1>3. CASE Crash(t) \/ PanicOnNull(t)
    BY <1>3 DEF Crash, PanicOnNull, handling
<1>4. CASE Dispatch(t)
    BY <1>4 DEF Dispatch, Goto, TypeInv
<1>5. CASE Serve(t)
    BY <1>5 DEF Serve, Respond, TypeInv
<1>6. CASE Reconfigure(t)
    BY <1>6 DEF Reconfigure, Respond, TypeInv
<1>7. CASE LoadConfig(t)
    BY <1>7 DEF LoadConfig, Respond, Goto, TypeInv
<1>8. CASE PublishEdit(t)
    BY <1>8 DEF PublishEdit, Respond, Goto, TypeInv
<1>9. CASE AnswerEdit(t)
    BY <1>9 DEF AnswerEdit, Respond, TypeInv
<1> QED
    BY <1>1, <1>2, <1>3, <1>4, <1>5, <1>6, <1>7, <1>8, <1>9 DEF Handle

\* The first states are as they should be.
LEMMA InitType == Init => TypeInv
<1> SUFFICES ASSUME Init PROVE TypeInv
    OBVIOUS
<1>1. DefaultConfig \in Config /\ Normalized(DefaultConfig) \in StoredConfig
    BY DefaultStored, NormalizedIsStored
<1>2. 0 \in 0..MaxInstances
    BY PluginAssumption
<1>3. NoCall \in AnyCall
    BY DEF AnyCall
<1>4. \A t \in Threads : CallInv(t)
    BY DEF Init, CallInv, Handled
<1> QED
    BY <1>1, <1>2, <1>3, <1>4 DEF Init, TypeInv, Pc, Outcome

\* The call of a POST whose body is readable.
LEMMA PostFacts ==
    ASSUME NEW t \in Threads, NEW c \in Calls[t] \cup {NoCall}, IsPost(c), c.body # Malformed
    PROVE  c \in Posts
<1>1. c.method = "management.handle"
    BY DEF IsPost
<1>2. c \in Calls[t]
    BY <1>1 DEF NoCall
<1>3. c.body \in Edit
    BY <1>1, <1>2, PluginAssumption DEF IsCall, Methods
<1> QED
    BY <1>2, <1>3 DEF Posts, AnyCall

\* A call's handler keeps the types.
LEMMA HandleType ==
    ASSUME TypeInv, NEW t \in Threads, Enter(t) \/ Handle(t)
    PROVE  TypeInv'
<1>0. \A q \in Threads \ {t} : CallInv(q)'
    <2>1. \A q \in Threads \ {t} : Locals(q)' = Locals(q)
        BY OthersUntouched
    <2> QED
        BY <2>1 DEF TypeInv, CallInv, Locals
<1>1. CallInv(t)
    BY DEF TypeInv
<1>2. CASE Enter(t)
    <2>1. PICK c \in Calls[t] : call' = [call EXCEPT ![t] = c]
        BY <1>2 DEF Enter
    <2>2. c \in AnyCall /\ call' \in [Threads -> AnyCall] /\ call'[t] = c
        BY <2>1 DEF TypeInv, AnyCall
    <2>3. /\ pc' \in [Threads -> Pc] /\ answer' \in [Threads -> Outcome]
          /\ inst' \in [Threads -> Instances \cup {NoInstance}] /\ next' \in [Threads -> Config]
          /\ pc'[t] \in {"entered", "done"}
        <3>1. CASE pluginState = NoInstance
            <4>1. Respond(t, "refused") /\ "refused" \in Outcome
                BY <1>2, <3>1 DEF Enter, Outcome
            <4> QED
                BY <4>1, RespondFacts
        <3>2. CASE pluginState # NoInstance
            BY <1>2, <3>2 DEF Enter, Goto, TypeInv, Pc
        <3> QED
            BY <3>1, <3>2
    <2>4. CallInv(t)'
        BY <2>2, <2>3 DEF CallInv, Handled
    <2> QED
        BY <1>0, <1>2, <2>2, <2>3, <2>4 DEF Enter, TypeInv, history
<1>3. CASE ReturnWithout(t) \/ Serve(t)
    <2>1. PICK how \in Outcome : Respond(t, how)
        BY <1>3 DEF ReturnWithout, Serve, Served, Outcome
    <2>2. UNCHANGED <<pluginState, instances, config, call, shown, crashed, history>>
        BY <1>3 DEF ReturnWithout, Serve
    <2>3. /\ pc' \in [Threads -> Pc] /\ answer' \in [Threads -> Outcome]
          /\ inst' \in [Threads -> Instances \cup {NoInstance}] /\ next' \in [Threads -> Config]
          /\ pc'[t] = "done"
        BY <2>1, RespondFacts
    <2>4. CallInv(t)'
        BY <1>1, <2>2, <2>3 DEF CallInv, Handled
    <2> QED
        BY <1>0, <2>2, <2>3, <2>4 DEF TypeInv, history
<1>4. CASE Crash(t) \/ PanicOnNull(t)
    BY <1>4 DEF Crash, PanicOnNull, TypeInv, CallInv, handling, history
<1>5. CASE Dispatch(t)
    <2>1. /\ pc' \in [Threads -> Pc] /\ inst' \in [Threads -> Instances \cup {NoInstance}]
          /\ pc'[t] = "given" /\ inst'[t] = pluginState /\ pluginState \in Instances /\ call'[t] = call[t]
        BY <1>5 DEF Dispatch, Goto, TypeInv, Pc
    <2>2. call[t] \in Admitted
        <3>1. call[t] \in AnyCall
            BY DEF TypeInv
        <3>2. ~RejectedOutright(call[t])
            BY <1>5 DEF Dispatch, NeedsNone, RejectedOutright, IsDocument
        <3> QED
            BY <3>1, <3>2 DEF Admitted
    <2>3. CallInv(t)'
        BY <1>1, <2>1, <2>2 DEF CallInv, Handled
    <2> QED
        BY <1>0, <1>5, <2>1, <2>3 DEF Dispatch, TypeInv, history
<1>6. CASE Reconfigure(t)
    <2>1. call[t] \in Admitted /\ IsDocument(call[t]) /\ inst[t] \in Instances
        BY <1>1, <1>6 DEF Reconfigure, CallInv, Handled
    <2>2. call[t].document \in Parsable
        BY <2>1 DEF Admitted, RejectedOutright
    <2>3. ParseYAML[call[t].document] \in StoredConfig
        BY <2>2, ParsedIsStored
    <2>4. Normalized(ParseYAML[call[t].document]) \in StoredConfig
        BY <2>3 DEF StoredConfig
    <2>5. config' \in [Instances -> StoredConfig] /\ latest' \in [Instances -> Parsable \cup {<<>>}]
        BY <1>6, <2>1, <2>2, <2>4 DEF Reconfigure, Publish, TypeInv
    <2>6. /\ pc' \in [Threads -> Pc] /\ answer' \in [Threads -> Outcome]
          /\ inst' \in [Threads -> Instances \cup {NoInstance}] /\ next' \in [Threads -> Config]
          /\ pc'[t] = "done"
        <3>1. Respond(t, "ok") /\ "ok" \in Outcome
            BY <1>6 DEF Reconfigure, Outcome
        <3> QED
            BY <3>1, RespondFacts
    <2>7. edited' \in SUBSET Instances /\ reverted' \in SUBSET Instances
          /\ stale' \in SUBSET Threads /\ disturbed' \in SUBSET Threads
        BY <1>6 DEF Reconfigure, TypeInv, Busy
    <2>8. CallInv(t)'
        BY <1>1, <1>6, <2>6 DEF Reconfigure, CallInv, Handled
    <2> QED
        BY <1>0, <1>6, <2>5, <2>6, <2>7, <2>8 DEF Reconfigure, TypeInv
<1>7. CASE LoadConfig(t)
    <2>1. inst[t] \in Instances /\ IsPost(call[t]) /\ call[t] \in Admitted
        BY <1>1, <1>7 DEF LoadConfig, CallInv, Handled
    <2>2. UNCHANGED <<pluginState, instances, config, call, shown, crashed, history>>
        BY <1>7 DEF LoadConfig
    <2>3. /\ pc' \in [Threads -> Pc] /\ answer' \in [Threads -> Outcome]
          /\ inst' \in [Threads -> Instances \cup {NoInstance}] /\ next' \in [Threads -> Config]
          /\ CallInv(t)'
        <3>1. CASE call[t].body = Malformed
            <4>1. Respond(t, "rejected") /\ "rejected" \in Outcome
                BY <1>7, <3>1 DEF LoadConfig, Outcome
            <4>2. /\ pc' \in [Threads -> Pc] /\ answer' \in [Threads -> Outcome]
                  /\ inst' \in [Threads -> Instances \cup {NoInstance}] /\ next' \in [Threads -> Config]
                  /\ pc'[t] = "done"
                BY <4>1, RespondFacts
            <4> QED
                BY <1>1, <2>2, <4>2 DEF CallInv, Handled
        <3>2. CASE call[t].body # Malformed
            <4>1. call[t] \in Posts
                BY <1>1, <2>1, <3>2, PostFacts DEF CallInv
            <4>2. config[inst[t]] \in Config /\ call[t].body \in Edit
                BY <2>1, <4>1 DEF TypeInv, StoredConfig, Posts
            <4>3. Edited(config[inst[t]], call[t].body) \in Config
                BY <4>2, EditedFields, Zenon
            <4>4. next' \in [Threads -> Config]
                BY <1>7, <3>2, <4>3 DEF LoadConfig, TypeInv
            <4>5. pc' \in [Threads -> Pc] /\ pc'[t] = "editing" /\ UNCHANGED <<answer, inst>>
                BY <1>7, <3>2 DEF LoadConfig, Goto, TypeInv, Pc
            <4> QED
                BY <1>1, <2>1, <2>2, <4>1, <4>4, <4>5 DEF CallInv, Handled, TypeInv
        <3> QED
            BY <3>1, <3>2
    <2> QED
        BY <1>0, <2>2, <2>3 DEF TypeInv, history
<1>8. CASE PublishEdit(t)
    <2>1. inst[t] \in Instances /\ call[t] \in Admitted /\ call[t] \in Posts /\ next[t] \in Config
        BY <1>1, <1>8 DEF PublishEdit, CallInv, Handled, TypeInv
    <2>2. CASE Accepted(next[t])
        <3>1. Normalized(next[t]) \in StoredConfig
            BY <2>1, <2>2, NormalizedIsStored
        <3>2. config' \in [Instances -> StoredConfig]
            BY <1>8, <2>1, <2>2, <3>1 DEF PublishEdit, Publish, TypeInv
        <3>3. edited' \in SUBSET Instances /\ reverted' \in SUBSET Instances /\ disturbed' \in SUBSET Threads
            BY <1>8, <2>1, <2>2 DEF PublishEdit, TypeInv, Busy
        <3>4. pc' \in [Threads -> Pc] /\ pc'[t] = "published" /\ UNCHANGED <<answer, inst, next>>
            BY <1>8, <2>2 DEF PublishEdit, Goto, TypeInv, Pc
        <3>5. CallInv(t)'
            BY <1>1, <1>8, <2>1, <3>4 DEF PublishEdit, CallInv
        <3> QED
            BY <1>0, <1>8, <3>2, <3>3, <3>4, <3>5 DEF PublishEdit, TypeInv
    <2>3. CASE ~Accepted(next[t])
        <3>1. Respond(t, "rejected") /\ "rejected" \in Outcome /\ UNCHANGED <<config, edited, reverted, disturbed>>
            BY <1>8, <2>3 DEF PublishEdit, Outcome
        <3>2. /\ pc' \in [Threads -> Pc] /\ answer' \in [Threads -> Outcome]
              /\ inst' \in [Threads -> Instances \cup {NoInstance}] /\ next' \in [Threads -> Config]
              /\ pc'[t] = "done"
            BY <3>1, RespondFacts
        <3>3. CallInv(t)'
            BY <1>1, <1>8, <3>2 DEF PublishEdit, CallInv, Handled
        <3> QED
            BY <1>0, <1>8, <3>1, <3>2, <3>3 DEF PublishEdit, TypeInv
    <2> QED
        BY <2>2, <2>3
<1>9. CASE AnswerEdit(t)
    <2>1. inst[t] \in Instances
        BY <1>1, <1>9 DEF AnswerEdit, CallInv, Handled
    <2>2. shown' \in [Threads -> Config]
        BY <1>9, <2>1 DEF AnswerEdit, ReadBack, TypeInv, StoredConfig
    <2>3. Respond(t, "ok") /\ "ok" \in Outcome
        BY <1>9 DEF AnswerEdit, Outcome
    <2>4. /\ pc' \in [Threads -> Pc] /\ answer' \in [Threads -> Outcome]
          /\ inst' \in [Threads -> Instances \cup {NoInstance}] /\ next' \in [Threads -> Config]
          /\ pc'[t] = "done"
        BY <2>3, RespondFacts
    <2>5. CallInv(t)'
        BY <1>1, <1>9, <2>4 DEF AnswerEdit, CallInv, Handled
    <2> QED
        BY <1>0, <1>9, <2>2, <2>4, <2>5 DEF AnswerEdit, TypeInv, history
<1> QED
    BY <1>2, <1>3, <1>4, <1>5, <1>6, <1>7, <1>8, <1>9 DEF Handle

\* So does every other step.
LEMMA NextType == TypeInv /\ [Next]_vars => TypeInv'
<1> SUFFICES ASSUME TypeInv, [Next]_vars PROVE TypeInv'
    OBVIOUS
<1>1. CASE Initialise
    <2>1. instances' \in 0..MaxInstances /\ pluginState' \in Instances
        BY <1>1, PluginAssumption DEF Initialise, TypeInv, Instances
    <2>2. UNCHANGED <<config, handling, crashed, history>>
        BY <1>1 DEF Initialise
    <2>3. \A t \in Threads : CallInv(t)'
        BY <2>2 DEF TypeInv, CallInv, handling
    <2> QED
        BY <2>1, <2>2, <2>3 DEF TypeInv, handling, history
<1>2. CASE Shutdown
    <2>1. \A t \in Threads : CallInv(t)'
        BY <1>2 DEF Shutdown, TypeInv, CallInv, handling
    <2> QED
        BY <1>2, <2>1 DEF Shutdown, TypeInv, handling
<1>3. CASE UNCHANGED vars
    <2>1. \A t \in Threads : CallInv(t)'
        BY <1>3 DEF vars, TypeInv, CallInv, handling
    <2> QED
        BY <1>3, <2>1 DEF vars, TypeInv, handling, history
<1> QED
    BY <1>1, <1>2, <1>3, HandleType DEF Next

\* The state has its type, and a call is with an instance from the moment its
\* handler is given one until it replies.
THEOREM TypeCorrect == Spec => []TypeInv
BY InitType, NextType, PTL DEF Spec

\* The type invariant of Plugin.
THEOREM TypeOKHolds == Spec => []TypeOK
<1>1. TypeInv => TypeOK
    BY DEF TypeInv, TypeOK, CallInv
<1> QED
    BY <1>1, TypeCorrect, PTL

-----------------------------------------------------------------------------
(* The configuration in force.  A POST that has loaded it carries what it   *)
(* does not edit from the latest document, unless a document has come since *)
(* (it is stale) or it loaded what a stale one had published.               *)

Carries(c, sent) ==
    /\ c.ReasoningEquals = sent.ReasoningEquals
    /\ sent.ReasoningMatchMode # "" =>
          c.ReasoningMatchMode = normalizeReasoningMatchMode(sent.ReasoningMatchMode)

Takes(c, sent) ==
    /\ c.ReasoningEquals = sent.ReasoningEquals
    /\ sent.ReasoningMatchMode # "" => c.ReasoningMatchMode = sent.ReasoningMatchMode

PostCalls == {c \in AnyCall : IsPost(c)}

InForce(i) == i \notin reverted =>
    /\ Others(config[i]) = Others(ParseYAML[latest[i]])
    /\ i \notin edited => config[i] = ParseYAML[latest[i]]

CopyInv(t) ==
    /\ pc[t] \in {"editing", "published"} => Takes(next[t], call[t].body)
    /\ pc[t] = "editing" /\ t \notin stale /\ inst[t] \notin reverted =>
          Others(next[t]) = Others(ParseYAML[latest[inst[t]]])
    /\ pc[t] = "published" /\ t \notin disturbed => Carries(config[inst[t]], call[t].body)

AnswerInv(t) ==
    pc[t] = "done" /\ answer[t] = "ok" /\ call[t] \in PostCalls /\ t \notin disturbed =>
        shown[t] \in StoredConfig /\ Carries(shown[t], call[t].body)

IInv ==
    /\ TypeInv
    /\ \A i \in Instances : InForce(i)
    /\ \A t \in Threads : CopyInv(t) /\ AnswerInv(t)

\* An accepted edit is in what is published for it.
LEMMA EditCarried ==
    ASSUME NEW c \in Config, NEW sent \in Edit, Takes(c, sent)
    PROVE  Carries(Normalized(c), sent)
<1>1. /\ Normalized(c).ReasoningEquals = c.ReasoningEquals
      /\ Normalized(c).ReasoningMatchMode = normalizeReasoningMatchMode(c.ReasoningMatchMode)
    BY NormalizedFields
<1> QED
    BY <1>1, Zenon DEF Carries, Takes

\* Where no call changes, its part of the invariant stays, if what else it is
\* about stays or it is noted as stale or disturbed.
LEMMA CopyFrame ==
    ASSUME TypeInv, NEW q \in Threads, CopyInv(q), AnswerInv(q), Locals(q)' = Locals(q),
           disturbed \subseteq disturbed', stale \subseteq stale',
           pc[q] = "editing" => \/ q \in stale' \/ inst[q] \in reverted'
                                \/ latest'[inst[q]] = latest[inst[q]] /\ (inst[q] \in reverted => inst[q] \in reverted'),
           pc[q] = "published" => q \in disturbed' \/ config'[inst[q]] = config[inst[q]]
    PROVE  CopyInv(q)' /\ AnswerInv(q)'
<1>1. /\ pc'[q] = pc[q] /\ call'[q] = call[q] /\ inst'[q] = inst[q] /\ next'[q] = next[q]
      /\ answer'[q] = answer[q] /\ shown'[q] = shown[q]
    BY DEF Locals
<1>2. AnswerInv(q)'
    BY <1>1 DEF AnswerInv
<1>3. pc[q] = "editing" /\ q \notin stale' /\ inst[q] \notin reverted' =>
          Others(next'[q]) = Others(ParseYAML[latest'[inst'[q]]])
    BY <1>1 DEF CopyInv
<1>4. pc[q] = "published" /\ q \notin disturbed' => Carries(config'[inst'[q]], call'[q].body)
    BY <1>1 DEF CopyInv
<1>5. CopyInv(q)'
    BY <1>1, <1>3, <1>4 DEF CopyInv
<1> QED
    BY <1>2, <1>5

\* An instance nothing is published to keeps its configuration.
LEMMA ForceFrame ==
    ASSUME NEW i \in Instances, InForce(i), config'[i] = config[i], latest'[i] = latest[i],
           i \in reverted => i \in reverted', i \in edited => i \in edited'
    PROVE  InForce(i)'
<1>1. i \notin reverted' => /\ Others(config'[i]) = Others(ParseYAML[latest'[i]])
                            /\ i \notin edited' => config'[i] = ParseYAML[latest'[i]]
    BY DEF InForce
<1> QED
    BY <1>1 DEF InForce

\* A document that is accepted is in force, and pending edits are noted.
LEMMA DocumentSafe ==
    ASSUME IInv, NEW t \in Threads, Reconfigure(t)
    PROVE  /\ \A i \in Instances : InForce(i)'
           /\ \A q \in Threads : CopyInv(q)' /\ AnswerInv(q)'
<1> DEFINE i == inst[t]
           d == call[t].document
<1>0. TypeInv /\ CallInv(t) /\ \A q \in Threads \ {t} : Locals(q)' = Locals(q)
    BY OthersUntouched DEF IInv, TypeInv, Handle
<1>1. pc[t] = "given" /\ IsDocument(call[t]) /\ i \in Instances /\ d \in Parsable
    BY <1>0 DEF Reconfigure, CallInv, Handled, Admitted, RejectedOutright
<1>2. ParseYAML[d] \in StoredConfig /\ Normalized(ParseYAML[d]) = ParseYAML[d]
    BY <1>1, ParsedIsStored DEF StoredConfig
<1>3. /\ config'[i] = ParseYAML[d] /\ latest'[i] = d
      /\ \A j \in Instances \ {i} : config'[j] = config[j] /\ latest'[j] = latest[j]
    BY <1>0, <1>1, <1>2 DEF Reconfigure, Publish, TypeInv
<1>4. /\ edited' = edited \ {i} /\ reverted' = reverted \ {i}
      /\ stale' = stale \cup Busy(i) /\ disturbed' = disturbed \cup Busy(i)
    BY DEF Reconfigure
<1> HIDE DEF d
<1>5. ASSUME NEW j \in Instances PROVE InForce(j)'
    <2>1. CASE j = i
        <3>1. Others(config'[j]) = Others(ParseYAML[latest'[j]]) /\ config'[j] = ParseYAML[latest'[j]]
            BY <1>3, <2>1
        <3> QED
            BY <3>1 DEF InForce
    <2>2. CASE j # i
        BY <1>3, <1>4, <2>2, ForceFrame DEF IInv
    <2> QED
        BY <2>1, <2>2
<1>6. ASSUME NEW q \in Threads \ {t} PROVE CopyInv(q)' /\ AnswerInv(q)'
    <2>1. pc[q] \in {"editing", "published"} /\ inst[q] = i => q \in Busy(i)
        BY DEF Busy
    <2>2. pc[q] \in {"editing", "published"} => inst[q] \in Instances
        BY <1>0 DEF TypeInv, CallInv, Handled
    <2> HIDE DEF i
    <2> QED
        BY <1>0, <1>3, <1>4, <2>1, <2>2, CopyFrame DEF IInv
<1>7. CopyInv(t)' /\ AnswerInv(t)'
    <2>1. pc'[t] = "done" /\ call'[t] = call[t]
        BY <1>0 DEF Reconfigure, Respond, TypeInv
    <2>2. call[t] \notin PostCalls
        BY <1>1 DEF IsDocument, IsPost, PostCalls
    <2> QED
        BY <2>1, <2>2 DEF CopyInv, AnswerInv
<1> QED
    BY <1>5, <1>6, <1>7

\* An edit is based on what is in force.
LEMMA LoadSafe ==
    ASSUME IInv, NEW t \in Threads, LoadConfig(t)
    PROVE  /\ \A i \in Instances : InForce(i)'
           /\ \A q \in Threads : CopyInv(q)' /\ AnswerInv(q)'
<1>0. TypeInv /\ CallInv(t) /\ \A q \in Threads \ {t} : Locals(q)' = Locals(q)
    BY OthersUntouched DEF IInv, TypeInv, Handle
<1>1. pc[t] = "given" /\ IsPost(call[t]) /\ inst[t] \in Instances /\ call[t] \in Calls[t] \cup {NoCall}
    BY <1>0 DEF LoadConfig, CallInv, Handled
<1>2. UNCHANGED <<pluginState, instances, config, call, shown, crashed, history>>
    BY DEF LoadConfig
<1>3. \A i \in Instances : InForce(i)'
    BY <1>2, ForceFrame DEF IInv, history
<1>4. \A q \in Threads \ {t} : CopyInv(q)' /\ AnswerInv(q)'
    BY <1>0, <1>2, CopyFrame DEF IInv, history
<1>5. CASE call[t].body = Malformed
    <2>1. pc'[t] = "done" /\ answer'[t] = "rejected"
        BY <1>0, <1>5 DEF LoadConfig, Respond, TypeInv
    <2> QED
        BY <1>3, <1>4, <2>1 DEF CopyInv, AnswerInv
<1>6. CASE call[t].body # Malformed
    <2> DEFINE c    == config[inst[t]]
               sent == call[t].body
    <2>1. call[t] \in Posts
        BY <1>1, <1>6, PostFacts
    <2>2. c \in Config /\ sent \in Edit
        BY <1>0, <1>1, <2>1 DEF TypeInv, StoredConfig, Posts
    <2>3. pc'[t] = "editing" /\ next'[t] = Edited(c, sent) /\ inst'[t] = inst[t]
        BY <1>0, <1>6 DEF LoadConfig, Goto, TypeInv
    <2>4. Takes(Edited(c, sent), sent) /\ Others(Edited(c, sent)) = Others(c)
        BY <2>2, EditedFields, Zenon DEF Takes
    <2>5. Takes(next'[t], call'[t].body)
        BY <1>2, <2>3, <2>4
    <2>6. inst[t] \notin reverted => Others(next'[t]) = Others(ParseYAML[latest[inst[t]]])
        BY <1>1, <2>3, <2>4 DEF IInv, InForce
    <2>7. CopyInv(t)'
        BY <1>2, <2>3, <2>5, <2>6 DEF CopyInv, history
    <2> QED
        BY <1>3, <1>4, <2>3, <2>7 DEF AnswerInv
<1> QED
    BY <1>5, <1>6

\* What an edit publishes leaves the rest of the document in force, unless a
\* document has come in the meantime, and carries the edit.
LEMMA PublishSafe ==
    ASSUME IInv, NEW t \in Threads, PublishEdit(t)
    PROVE  /\ \A i \in Instances : InForce(i)'
           /\ \A q \in Threads : CopyInv(q)' /\ AnswerInv(q)'
<1> DEFINE i == inst[t]
<1>0. /\ TypeInv /\ CallInv(t) /\ CopyInv(t)
      /\ \A q \in Threads : CopyInv(q) /\ AnswerInv(q)
      /\ \A q \in Threads \ {t} : Locals(q)' = Locals(q)
    BY OthersUntouched DEF IInv, TypeInv, Handle
<1>1. /\ pc[t] = "editing" /\ i \in Instances /\ call[t] \in Posts /\ next[t] \in Config
      /\ call[t].body \in Edit
    BY <1>0 DEF PublishEdit, CallInv, Handled, TypeInv, Posts
<1>2. call' = call /\ shown' = shown /\ latest' = latest /\ stale' = stale
    BY DEF PublishEdit
<1>3. CASE ~Accepted(next[t])
    <2>1. /\ pc'[t] = "done" /\ answer'[t] = "rejected"
          /\ UNCHANGED <<config, edited, reverted, disturbed>>
        BY <1>0, <1>3 DEF PublishEdit, Respond, TypeInv
    <2>2. \A j \in Instances : InForce(j)'
        BY <1>2, <2>1, ForceFrame DEF IInv
    <2>3. \A q \in Threads \ {t} : CopyInv(q)' /\ AnswerInv(q)'
        BY <1>0, <1>2, <2>1, CopyFrame
    <2> QED
        BY <2>1, <2>2, <2>3 DEF CopyInv, AnswerInv
<1>4. CASE Accepted(next[t])
    <2>1. /\ config'[i] = Normalized(next[t])
          /\ \A j \in Instances \ {i} : config'[j] = config[j]
        BY <1>0, <1>1, <1>4 DEF PublishEdit, Publish, TypeInv
    <2>2. /\ edited' = edited \cup {i}
          /\ reverted' = reverted \cup (IF t \in stale THEN {i} ELSE {})
          /\ disturbed' = disturbed \cup (Busy(i) \ {t})
          /\ pc'[t] = "published" /\ UNCHANGED <<answer, inst, next>>
        BY <1>0, <1>4 DEF PublishEdit, Goto, TypeInv
    <2>3. ASSUME NEW j \in Instances PROVE InForce(j)'
        <3>1. CASE j = i
            <4>1. SUFFICES ASSUME j \notin reverted'
                           PROVE  Others(config'[j]) = Others(ParseYAML[latest'[j]]) /\ j \in edited'
                BY DEF InForce
            <4>2. i \notin reverted /\ t \notin stale
                BY <2>2, <3>1, <4>1
            <4>3. Others(next[t]) = Others(ParseYAML[latest[i]])
                BY <1>0, <1>1, <4>2 DEF CopyInv
            <4>4. ParseYAML[latest[i]] \in StoredConfig
                BY <1>0, <1>1, ParsedIsStored DEF TypeInv
            <4>5. Others(Normalized(next[t])) = Others(ParseYAML[latest[i]])
                BY <1>1, <4>3, <4>4, OthersKept
            <4> QED
                BY <1>2, <2>1, <2>2, <3>1, <4>5
        <3>2. CASE j # i
            BY <1>2, <2>1, <2>2, <3>2, ForceFrame DEF IInv
        <3> QED
            BY <3>1, <3>2
    <2>4. ASSUME NEW q \in Threads \ {t} PROVE CopyInv(q)' /\ AnswerInv(q)'
        <3>1. pc[q] \in {"editing", "published"} /\ inst[q] = i => q \in Busy(i)
            BY DEF Busy
        <3>2. pc[q] \in {"editing", "published"} => inst[q] \in Instances
            BY <1>0 DEF TypeInv, CallInv, Handled
        <3> HIDE DEF i
        <3> QED
            BY <1>0, <1>2, <2>1, <2>2, <3>1, <3>2, CopyFrame
    <2>5. Takes(next[t], call[t].body)
        BY <1>0, <1>1 DEF CopyInv
    <2>6. Carries(config'[i], call[t].body)
        BY <1>1, <2>1, <2>5, EditCarried
    <2>7. CopyInv(t)'
        BY <1>2, <2>2, <2>5, <2>6 DEF CopyInv
    <2> QED
        BY <2>2, <2>3, <2>4, <2>7 DEF AnswerInv
<1> QED
    BY <1>3, <1>4

\* The answer to an edit is what is in force.
LEMMA AnswerSafe ==
    ASSUME IInv, NEW t \in Threads, AnswerEdit(t)
    PROVE  CopyInv(t)' /\ AnswerInv(t)'
<1>0. TypeInv /\ CallInv(t) /\ CopyInv(t)
    BY DEF IInv, TypeInv
<1>1. pc[t] = "published" /\ inst[t] \in Instances /\ call' = call /\ disturbed' = disturbed
    BY <1>0 DEF AnswerEdit, CallInv, Handled, history
<1>2. pc'[t] = "done" /\ shown'[t] = config[inst[t]]
    BY <1>0 DEF AnswerEdit, Respond, ReadBack, TypeInv
<1>3. t \notin disturbed => shown'[t] \in StoredConfig /\ Carries(shown'[t], call'[t].body)
    BY <1>0, <1>1, <1>2 DEF CopyInv, TypeInv
<1> QED
    BY <1>1, <1>2, <1>3 DEF CopyInv, AnswerInv

\* The steps that publish nothing.
LEMMA QuietSafe ==
    ASSUME IInv, NEW t \in Threads,
           \/ Enter(t) \/ ReturnWithout(t) \/ Crash(t) \/ Dispatch(t)
           \/ PanicOnNull(t) \/ Serve(t) \/ AnswerEdit(t)
    PROVE  /\ \A i \in Instances : InForce(i)'
           /\ \A q \in Threads : CopyInv(q)' /\ AnswerInv(q)'
<1>0. TypeInv /\ CallInv(t) /\ \A q \in Threads \ {t} : Locals(q)' = Locals(q)
    BY OthersUntouched DEF IInv, TypeInv, Handle
<1>1. UNCHANGED <<config, latest, edited, reverted, stale, disturbed>>
    BY DEF Enter, ReturnWithout, Crash, Dispatch, PanicOnNull, Serve, AnswerEdit, history
<1>2. \A i \in Instances : InForce(i)'
    BY <1>1, ForceFrame DEF IInv
<1>3. \A q \in Threads \ {t} : CopyInv(q)' /\ AnswerInv(q)'
    BY <1>0, <1>1, CopyFrame DEF IInv
<1>4. CASE Enter(t) \/ ReturnWithout(t) \/ Serve(t)
    <2>1. pc'[t] \in {"entered", "done"} /\ (pc'[t] = "done" => call'[t] \notin PostCalls \/ answer'[t] # "ok")
        <3>1. CASE Enter(t)
            BY <1>0, <3>1 DEF Enter, Respond, Goto, TypeInv
        <3>2. CASE ReturnWithout(t)
            <4>1. call[t].method # "management.handle" \/ RejectedOutright(call[t])
                BY <3>2 DEF ReturnWithout, NeedsNone
            <4>2. call[t] \notin PostCalls
                BY <4>1 DEF PostCalls, IsPost, RejectedOutright, IsDocument
            <4>3. pc'[t] = "done" /\ call' = call
                BY <1>0, <3>2 DEF ReturnWithout, Respond, TypeInv
            <4> QED
                BY <4>2, <4>3
        <3>3. CASE Serve(t)
            <4>1. pc'[t] = "done" /\ call' = call
                BY <1>0, <3>3 DEF Serve, Respond, TypeInv
            <4>2. call[t] \notin PostCalls
                BY <3>3 DEF Serve, PostCalls
            <4> QED
                BY <4>1, <4>2
        <3> QED
            BY <1>4, <3>1, <3>2, <3>3
    <2>2. CopyInv(t)' /\ AnswerInv(t)'
        BY <2>1 DEF CopyInv, AnswerInv
    <2> QED
        BY <1>2, <1>3, <2>2
<1>5. CASE Crash(t) \/ PanicOnNull(t)
    <2>1. Locals(t)' = Locals(t)
        BY <1>5 DEF Crash, PanicOnNull, handling, Locals
    <2>2. CopyInv(t)' /\ AnswerInv(t)'
        BY <1>0, <1>1, <2>1, CopyFrame DEF IInv
    <2> QED
        BY <1>2, <1>3, <2>2
<1>6. CASE Dispatch(t)
    <2>1. pc'[t] = "given"
        BY <1>0, <1>6 DEF Dispatch, Goto, TypeInv
    <2> QED
        BY <1>2, <1>3, <2>1 DEF CopyInv, AnswerInv
<1>7. CASE AnswerEdit(t)
    BY <1>2, <1>3, <1>7, AnswerSafe
<1> QED
    BY <1>4, <1>5, <1>6, <1>7

\* At the start the default is in force, which is what no document means.
LEMMA InitSafe == Init => IInv
<1> SUFFICES ASSUME Init PROVE IInv
    OBVIOUS
<1>1. ASSUME NEW i \in Instances PROVE InForce(i)
    <2>1. config[i] = Normalized(DefaultConfig) /\ latest[i] = <<>>
        BY DEF Init
    <2>2. ParseYAML[<<>>] = Normalized(DefaultConfig)
        BY BlankDocument
    <2> QED
        BY <2>1, <2>2 DEF InForce
<1>2. \A t \in Threads : CopyInv(t) /\ AnswerInv(t)
    BY DEF Init, CopyInv, AnswerInv
<1> QED
    BY <1>1, <1>2, InitType DEF IInv

\* Every step keeps the invariant.
LEMMA NextSafe == IInv /\ [Next]_vars => IInv'
<1> SUFFICES ASSUME IInv, [Next]_vars PROVE IInv'
    OBVIOUS
<1>0. TypeInv /\ TypeInv'
    BY NextType DEF IInv
<1>1. ASSUME UNCHANGED <<config, latest, edited, reverted, stale, disturbed, handling>> PROVE IInv'
    <2>1. \A i \in Instances : InForce(i)'
        BY <1>1, ForceFrame DEF IInv
    <2>2. \A q \in Threads : Locals(q)' = Locals(q)
        BY <1>1 DEF handling, Locals
    <2>3. \A q \in Threads : CopyInv(q)' /\ AnswerInv(q)'
        BY <1>0, <1>1, <2>2, CopyFrame DEF IInv
    <2> QED
        BY <1>0, <2>1, <2>3 DEF IInv
<1>2. CASE Initialise
    BY <1>1, <1>2 DEF Initialise, history
<1>3. CASE Shutdown
    BY <1>1, <1>3 DEF Shutdown
<1>4. CASE UNCHANGED vars
    BY <1>1, <1>4 DEF vars, history
<1>5. ASSUME NEW t \in Threads, Enter(t) \/ Handle(t) PROVE IInv'
    BY <1>0, <1>5, QuietSafe, DocumentSafe, LoadSafe, PublishSafe DEF Handle, IInv
<1> QED
    BY <1>2, <1>3, <1>4, <1>5 DEF Next

\* The invariant holds throughout.
LEMMA Invariance == Spec => []IInv
BY InitSafe, NextSafe, PTL DEF Spec

\* What was last accepted as a document is what is in force, but for the two
\* fields of edits made since, whatever is rejected and however calls overlap;
\* only an edit loaded before the document came undoes it.
THEOREM LatestDocumentInForceHolds == Spec => []LatestDocumentInForce
<1>1. IInv => LatestDocumentInForce
    BY DEF IInv, InForce, LatestDocumentInForce
<1> QED
    BY <1>1, Invariance, PTL

\* A POST that is accepted, and not overtaken, is answered with its own edit.
THEOREM EditAnsweredInForceHolds == Spec => []EditAnsweredInForce
<1>1. IInv => EditAnsweredInForce
    <2> SUFFICES ASSUME IInv, NEW t \in Threads, pc[t] = "done", answer[t] = "ok", IsPost(call[t]), t \notin disturbed
                 PROVE  shown[t] \in StoredConfig /\ Carries(shown[t], call[t].body)
        BY Zenon DEF EditAnsweredInForce, Carries
    <2>1. call[t] \in PostCalls
        BY DEF IInv, TypeInv, PostCalls
    <2> QED
        BY <2>1 DEF IInv, AnswerInv
<1> QED
    BY <1>1, Invariance, PTL

-----------------------------------------------------------------------------
(* A call that has passed the first look finds an instance at the second    *)
(* unless the plugin was shut down in between, and one that has an instance *)
(* panics only where it writes into a body that is null.                    *)

NilWritten(t) ==
    /\ pc[t] = "given" /\ call[t].method = "request.intercept"
    /\ call[t].body = NilMap /\ call[t].request.Stream
    /\ config[inst[t]].AutoIncludeStreamUsage

DoorInv ==
    /\ crashed => (\E t \in shutdownAt : pc[t] = "entered") \/ (\E t \in Threads : NilWritten(t))
    /\ pluginState = NoInstance => \A t \in Threads : pc[t] = "entered" => t \in shutdownAt

\* A process that is gone does nothing.
LEMMA CrashIsFinal == crashed /\ [Next]_vars => UNCHANGED vars
BY DEF Next, Initialise, Shutdown, Enter, Handle, ReturnWithout, Crash, Dispatch, PanicOnNull, Serve,
       Reconfigure, LoadConfig, PublishEdit, AnswerEdit

\* Every step keeps that so.
LEMMA NextDoor == TypeInv /\ DoorInv /\ [Next]_vars => DoorInv'
<1> SUFFICES ASSUME TypeInv, DoorInv, [Next]_vars PROVE DoorInv'
    OBVIOUS
<1>1. CASE UNCHANGED vars
    <2>1. /\ crashed' = crashed /\ shutdownAt' = shutdownAt /\ pluginState' = pluginState /\ pc' = pc
          /\ call' = call /\ inst' = inst /\ config' = config
        BY <1>1 DEF vars, handling, history
    <2>2. \A t \in Threads : NilWritten(t)' <=> NilWritten(t)
        BY <2>1 DEF NilWritten
    <2> HIDE DEF NilWritten
    <2> QED
        BY <2>1, <2>2 DEF DoorInv
<1>2. CASE crashed
    BY <1>1, <1>2, CrashIsFinal
<1>3. CASE ~crashed /\ Initialise
    <2>1. pluginState' # NoInstance /\ ~crashed'
        BY <1>3 DEF Initialise, TypeInv, NoInstance
    <2> QED
        BY <2>1 DEF DoorInv
<1>4. CASE ~crashed /\ Shutdown
    <2>1. ~crashed' /\ \A t \in Threads : pc'[t] = "entered" => t \in shutdownAt'
        BY <1>4 DEF Shutdown, handling
    <2> QED
        BY <2>1 DEF DoorInv
<1>5. ASSUME ~crashed, NEW t \in Threads, Enter(t) \/ Handle(t) PROVE DoorInv'
    <2>0. \A q \in Threads \ {t} : pc'[q] = pc[q]
        BY <1>5, OthersUntouched DEF Locals
    <2>1. CASE Crash(t)
        <3>1. pc[t] = "entered" /\ t \in shutdownAt
            BY <2>1 DEF Crash, DoorInv
        <3>2. UNCHANGED <<pc, shutdownAt, pluginState>>
            BY <2>1 DEF Crash, handling, history
        <3> QED
            BY <3>1, <3>2 DEF DoorInv
    <2>2. CASE PanicOnNull(t)
        <3>1. NilWritten(t)
            BY <2>2 DEF PanicOnNull, IsNilWrite, Panics, Rewrites, NilWritten
        <3>2. UNCHANGED <<pc, shutdownAt, pluginState, call, inst, config>>
            BY <2>2 DEF PanicOnNull, handling, history
        <3>3. NilWritten(t)'
            BY <3>1, <3>2 DEF NilWritten
        <3> QED
            BY <3>2, <3>3 DEF DoorInv
    <2>3. CASE ~Crash(t) /\ ~PanicOnNull(t)
        <3>1. UNCHANGED <<pluginState, shutdownAt, crashed>>
            BY <1>5, <2>3 DEF Enter, Handle, ReturnWithout, Dispatch, Serve, Reconfigure, LoadConfig,
                              PublishEdit, AnswerEdit, history
        <3>2. pc'[t] = "entered" => pluginState # NoInstance
            BY <1>5, <2>3 DEF Enter, Handle, ReturnWithout, Dispatch, Serve, Reconfigure, LoadConfig,
                              PublishEdit, AnswerEdit, Respond, Goto, TypeInv
        <3> QED
            BY <1>5, <2>0, <3>1, <3>2 DEF DoorInv
    <2> QED
        BY <2>1, <2>2, <2>3
<1> QED
    BY <1>1, <1>2, <1>3, <1>4, <1>5 DEF Next

\* The process is lost only to a shutdown between the two looks of a call, or
\* to a body that is null.
THEOREM CrashOnlyUnderShutdownOrNullHolds == Spec => []CrashOnlyUnderShutdownOrNull
<1>1. Init => DoorInv
    BY DEF Init, DoorInv
<1>2. TypeInv /\ DoorInv => CrashOnlyUnderShutdownOrNull
    BY DEF DoorInv, NilWritten, CrashOnlyUnderShutdownOrNull
<1> QED
    BY <1>1, <1>2, NextDoor, TypeCorrect, PTL DEF Spec
=============================================================================
