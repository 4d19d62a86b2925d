----------------------------- MODULE Connectors -----------------------------
(***************************************************************************)
(* The connectors of agent runs (connector/set.rs, connectors/, mcp/*/tools.rs, *)
(* runner/environment.rs): a run connects to each source in turn before its   *)
(* first turn, and its sub-agents then call their tools.  Every run prepares  *)
(* connectors of its own; what runs share is the GitHub App token.           *)
(*                                                                         *)
(* A run has one call at a time here.  The calls that its sub-agents make at  *)
(* the same time share nothing more than the calls of two runs do.          *)
(***************************************************************************)
EXTENDS McpClient, ConnectorTools

CONSTANTS
    Configured,   \* the sources that are configured
    Listings,     \* the listings a server may answer, by source
    Arguments,    \* the arguments a model may give a tool
    ToolName      \* the tools a model may ask a sub-agent to be given

Source == {"datadog", "github", "esa", "jira"}
ASSUME SourceAssumption == Configured \subseteq Source /\ {"datadog", "github"} \subseteq Configured
ASSUME ArgumentsAssumption ==
    \A args \in Arguments : DOMAIN args = {"query", "owner", "cloudId"}

VARIABLES
    phase,     \* of each run
    listed,    \* what the sources it prepared listed
    asked      \* the tool call its servers are asked for, or None

runVars == <<phase, listed, asked>>
vars == <<mcpVars, runVars>>

Phases == {"idle", "preparing", "diagnosing", "ready", "failed", "failed_permanently", "over"}

ConnectorsTypeOK ==
    /\ McpTypeOK
    /\ phase \in [Caller -> Phases]
    /\ \A p \in Caller : DOMAIN listed[p] \subseteq Configured

Init ==
    /\ McpInit
    /\ phase = [p \in Caller |-> "idle"]
    /\ listed = [p \in Caller |-> << >>]
    /\ asked = [p \in Caller |-> None]

(***************************************************************************)
(* Preparing (prepare_all): one source after the other, in the order of       *)
(* build_connector_set; the first that fails ends the run.                  *)
(***************************************************************************)

ConnectorOrder == SelectSeq(<<"datadog", "github", "esa", "jira">>, LAMBDA s : s \in Configured)
Unprepared(p) == SelectSeq(ConnectorOrder, LAMBDA s : s \notin DOMAIN listed[p])
Preparing(p, source) ==
    /\ phase[p] = "preparing"
    /\ Unprepared(p) # << >>
    /\ source = Head(Unprepared(p))

WithPrepared(p, source, listing) ==
    listed' = [listed EXCEPT ![p] =
                 [s \in DOMAIN @ \cup {source} |-> IF s = source THEN listing ELSE @[s]]]

(* What a run prepared goes with it.                                        *)
Released(p) == listed' = [listed EXCEPT ![p] = << >>]

StartRun(p) ==
    /\ phase[p] = "idle"
    /\ phase' = [phase EXCEPT ![p] = "preparing"]
    /\ UNCHANGED <<mcpVars, listed, asked>>

(* connect: the client, and its listing of the tools.                       *)
Connect(p) ==
    /\ call[p].step = "none"
    /\ \E source \in Source \ {"esa"} :
          Preparing(p, source) /\ StartCall(p, source = "github")
    /\ UNCHANGED runVars

(* EsaConnector::prepare asks nobody.                                       *)
PrepareEsa(p) ==
    /\ Preparing(p, "esa")
    /\ WithPrepared(p, "esa", << >>)
    /\ UNCHANGED <<mcpVars, phase, asked>>

(* connect_*_mcp_toolset, of a server that answered.                        *)
ConnectSucceeds(p) ==
    /\ call[p].step = "done"
    /\ call[p].result = "ok"
    /\ \E source \in Source : \E listing \in Listings[source] :
          /\ Preparing(p, source)
          /\ IF HasRequiredTools(source, listing)
             THEN WithPrepared(p, source, listing) /\ UNCHANGED phase
             ELSE phase' = [phase EXCEPT ![p] = "failed"] /\ Released(p)
    /\ TakeResult(p)
    /\ UNCHANGED asked

(* Which failures end the task and which return it to the queue              *)
(* (ConnectorPrepareError::from_port_error): JIRA calls all of them failed    *)
(* connections, GitHub only that of the token request.  Datadog asks once     *)
(* more before it reports a failed connection.                              *)
PhaseAfterFailure(source, kind) ==
    CASE source = "datadog" -> "diagnosing"
      [] source = "jira" \/ kind = "connection_failed" -> "failed_permanently"
      [] OTHER -> "failed"

ConnectFails(p) ==
    /\ call[p].step = "done"
    /\ call[p].result # "ok"
    /\ \E source \in Source :
          /\ Preparing(p, source)
          /\ phase' = [phase EXCEPT ![p] = PhaseAfterFailure(source, call[p].result)]
    /\ TakeResult(p)
    /\ Released(p)
    /\ UNCHANGED asked

(* diagnose_datadog_mcp_initialize: an initialize of its own, whose answer    *)
(* only goes into the message; its session is left to the server.           *)
DatadogDiagnosed(p) ==
    /\ phase[p] = "diagnosing"
    /\ phase' = [phase EXCEPT ![p] = "failed_permanently"]
    /\ UNCHANGED <<mcpVars, listed, asked>>

AllPrepared(p) ==
    /\ phase[p] = "preparing"
    /\ Unprepared(p) = << >>
    /\ phase' = [phase EXCEPT ![p] = "ready"]
    /\ UNCHANGED <<mcpVars, listed, asked>>

(***************************************************************************)
(* Tool calls.                                                             *)
(***************************************************************************)

(* A sub-agent is given the tools the lead chose from the catalog, and calls *)
(* one; what the tool refuses does not reach the server.                    *)
CallTool(p) ==
    /\ phase[p] = "ready"
    /\ call[p].step = "none"
    /\ \E source \in DOMAIN listed[p] \ {"esa"}, name \in ToolName, args \in Arguments :
          LET forwarded == ForwardedCall(source, name, args)
          IN  /\ SpawnIsValid(TRUE, TRUE, {name}, SpawnCatalog(listed[p], FALSE))
              /\ <<source, name>> \in ResolvedTools(listed[p], FALSE, {name})
              /\ forwarded # None
              /\ asked' = [asked EXCEPT ![p] = [source |-> source, call |-> forwarded]]
              /\ StartCall(p, source = "github")
    /\ UNCHANGED <<phase, listed>>

ToolReturns(p) ==
    /\ phase[p] = "ready"
    /\ TakeResult(p)
    /\ asked' = [asked EXCEPT ![p] = None]
    /\ UNCHANGED <<phase, listed>>

(* The run returns, or its future is dropped at whatever it awaits.          *)
EndRun(p) ==
    /\ phase[p] = "ready"
    /\ call[p].step = "none"
    /\ phase' = [phase EXCEPT ![p] = "over"]
    /\ Released(p)
    /\ UNCHANGED <<mcpVars, asked>>

DropRun(p) ==
    /\ phase[p] \in {"preparing", "diagnosing", "ready"}
    /\ phase' = [phase EXCEPT ![p] = "over"]
    /\ asked' = [asked EXCEPT ![p] = None]
    /\ DropCall(p)
    /\ Released(p)

Progress(p) == McpStep(p) /\ UNCHANGED runVars

Next ==
    \/ \E p \in Caller :
          \/ StartRun(p)
          \/ Connect(p)
          \/ PrepareEsa(p)
          \/ ConnectSucceeds(p)
          \/ ConnectFails(p)
          \/ DatadogDiagnosed(p)
          \/ AllPrepared(p)
          \/ CallTool(p)
          \/ ToolReturns(p)
          \/ EndRun(p)
          \/ DropRun(p)
          \/ Progress(p)
    \/ Tick /\ UNCHANGED runVars

Spec == Init /\ [][Next]_vars

(***************************************************************************)
(* Properties.                                                             *)
(***************************************************************************)

(* Where GitHub looks for the answer to a search: in the accounts that the    *)
(* query names, an organization, a user or the owner of a repository, all     *)
(* of them together; everywhere when it names none.                         *)
Named(query, keys) ==
    {Lower[q.value] : q \in {q \in ToSet(query) : q.key \in keys /\ q.value # None}}
Reach(query) ==
    LET named == Named(query, {"org", "user", "repo"})
    IN  IF named = {} THEN {Lower[s] : s \in Spelling} \cup {None} ELSE named

Organization == Lower[ScopeOrg]

InScope(request) ==
    LET tool == request.call.tool
        args == request.call.args
    IN  CASE request.source = "github" ->
               /\ tool \in GITHUB_SUB_AGENT_TOOLS \cup {GET_FILE_CONTENTS}
               /\ tool \in SEARCH_QUERY_TOOL_NAMES =>
                    /\ Organization \in Reach(args.query)
                    /\ Reach(args.query) \subseteq
                          {Organization} \cup Named(args.query, {"user", "repo"})
               /\ tool \notin SEARCH_QUERY_TOOL_NAMES =>
                    args.owner # None /\ Lower[args.owner] = Organization
          [] request.source = "jira" ->
               tool \in JIRA_SUB_AGENT_TOOLS /\ args.cloudId = Site
          [] OTHER -> tool \in DATADOG_SUB_AGENT_TOOLS

(* What reaches a server on a run's behalf is a tool of its allowlist: on     *)
(* GitHub of the configured organization's, on JIRA of the configured site's, *)
(* through the wrapper of file reads as well.  A search always looks in the   *)
(* organization, and elsewhere only in the accounts that it names by user: or *)
(* by repo:, which scope_policy.rs lets pass; so one that names none by these *)
(* stays in the organization.                                               *)
CallsStayInScope == \A p \in Caller : asked[p] # None => InScope(asked[p])

(* docs/capabilities-and-permissions.md:270: all searches are scoped to the    *)
(* organization, "queries must stay inside it".  This does not hold: see the *)
(* README.                                                                 *)
SearchesStayInScope ==
    \A p \in Caller :
        asked[p] # None /\ asked[p].call.tool \in SEARCH_QUERY_TOOL_NAMES =>
            Reach(asked[p].call.args.query) = {Organization}
=============================================================================
