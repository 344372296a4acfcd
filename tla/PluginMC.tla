------------------------------ MODULE PluginMC -------------------------------
(****************************************************************************)
(* Three calls, enough for a document to come between load and publication  *)
(* of an edit and for a third to read what is left; two instances.          *)
(****************************************************************************)
EXTENDS Plugin, TLC

MCThreads == 1..3

MCNames == {"", " ", "manual", "formula_518n_minus_2", "Formula_518N_minus_2", "strict_502",
            "disconnect", " disconnect", "o3", "/responses"}
MCTrim  == [s \in MCNames |-> CASE s = " " -> ""
                                [] s = " disconnect" -> "disconnect"
                                [] OTHER -> s]
MCLower == [s \in MCNames |-> IF s = "Formula_518N_minus_2" THEN "formula_518n_minus_2" ELSE s]
MCEndpoints == {"/responses"}

Simple(method) == [method |-> method]
Reconfiguration(d) == [method |-> "plugin.reconfigure", document |-> d]
Manage(verb, prefix, rest, body) ==
    [method |-> "management.handle", verb |-> verb,
     path |-> [prefix |-> prefix, rest |-> rest], body |-> body]
ConfigPath == "/plugins/codex-retry-guard/config"
NoBody     == [ReasoningEquals |-> {}, ReasoningMatchMode |-> ""]

Clear   == Reconfiguration(<<>>)
Strict  == Reconfiguration([Models |-> {"o3", " "}, StreamAction |-> " disconnect", NonStreamStatusCode |-> 0,
                            AutoIncludeStreamUsage |-> FALSE])
ToFormula == Manage("POST", managementPluginPrefix, ConfigPath,
                    [ReasoningEquals |-> {777}, ReasoningMatchMode |-> "Formula_518N_minus_2"])
ListOnly  == Manage("POST", "", ConfigPath, [ReasoningEquals |-> {516}, ReasoningMatchMode |-> ""])

\* A request whose body is the JSON null, streaming or not.
NullBody(stream) ==
    [method |-> "request.intercept", body |-> NilMap,
     request |-> [Model |-> "o3", RequestedModel |-> "", Stream |-> stream,
                  path |-> "/responses", SourceFormat |-> ""]]

\* One thread edits, one sends documents, and one does anything else as well:
\* edits and documents that are rejected or unreadable, a POST that reaches
\* the page, calls that need an instance or not, requests whose body is null
\* under configurations that ask for usage and one that does not.
MCCalls ==
    <<{ToFormula, ListOnly},
      {Strict, Clear},
      {ToFormula, Strict, Simple("header_init"), Simple("response.intercept"),
       NullBody(TRUE), NullBody(FALSE),
       Reconfiguration(Malformed), Reconfiguration([ReasoningEquals |-> {}]),
       Manage("POST", resourcePluginPrefix, "/plugins/codex-retry-guard/api/status", NoBody),
       Manage("POST", "", ConfigPath, Malformed), Manage("POST", "", ConfigPath, NoBody)}>>
=============================================================================
