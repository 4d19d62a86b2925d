--------------------------- MODULE ConnectorTools ---------------------------
(***************************************************************************)
(* What the connectors offer the sub-agents and what they let through        *)
(* (adapters/outbound/agents/connector, connectors, mcp/*/tools.rs,          *)
(* mcp/github/read_file.rs, mcp/support.rs, task_agent/spawn.rs, and         *)
(* core/source_code/github/scope_policy.rs).                                *)
(*                                                                         *)
(* A listing is the sequence of tool names that an MCP server answers.  An   *)
(* argument object is a record with the fields that a decision is made on:  *)
(* "query" (the sequence of its search qualifiers), "owner" and "cloudId",  *)
(* None where the model gave no such argument or one that is not a string.  *)
(***************************************************************************)
EXTENDS Integers, Sequences, FiniteSets, SequencesExt

CONSTANTS
    Spelling,      \* spellings of organization names
    Lower,         \* to_ascii_lowercase, of a spelling
    ScopeOrg,      \* connectors.github.search_scope_org
    Site,          \* the Atlassian site of the JIRA connector
    None

ASSUME SpellingAssumption ==
    /\ Lower \in [Spelling -> Spelling]
    /\ \A s \in Spelling : Lower[Lower[s]] = Lower[s]
    /\ ScopeOrg \in Spelling
    /\ None \notin Spelling \cup {Site}

(***************************************************************************)
(* Allowlists.                                                             *)
(***************************************************************************)

SEARCH_QUERY_TOOL_NAMES ==
    {"search_code", "search_repositories", "search_issues", "search_pull_requests"}
READ_FILE == "read_file"
GET_FILE_CONTENTS == "get_file_contents"

REQUIRED_GITHUB_SUB_AGENT_TOOLS ==
    SEARCH_QUERY_TOOL_NAMES \cup {GET_FILE_CONTENTS, "pull_request_read"}

GITHUB_SUB_AGENT_TOOLS ==
    SEARCH_QUERY_TOOL_NAMES \cup
    {"pull_request_read", "actions_get", "actions_list", "get_job_logs",
     "get_dependabot_alert", "list_dependabot_alerts"}

OWNER_SCOPED_TOOL_NAMES ==
    {READ_FILE, "pull_request_read", "actions_get", "actions_list", "get_job_logs",
     "get_dependabot_alert", "list_dependabot_alerts"}

REQUIRED_JIRA_SUB_AGENT_TOOLS == {"searchJiraIssuesUsingJql", "getJiraIssue"}
JIRA_SUB_AGENT_TOOLS ==
    REQUIRED_JIRA_SUB_AGENT_TOOLS \cup
    {"getJiraIssueRemoteIssueLinks", "getTransitionsForJiraIssue"}

DATADOG_SUB_AGENT_TOOLS ==
    {"search_datadog_services", "search_datadog_logs", "analyze_datadog_logs",
     "search_datadog_metrics", "get_datadog_metric", "get_datadog_metric_context",
     "search_datadog_events", "search_datadog_monitors", "search_datadog_dashboards",
     "get_datadog_dashboard", "get_synthetics_tests", "search_datadog_security_signals",
     "search_datadog_security_findings", "analyze_security_findings"}

SEARCH_POSTS == "search_posts"
GET_POST == "get_post"
SEARCH_WEB == "search_web"

(***************************************************************************)
(* Tools and catalogs.  The tools follow the order of the listing, the       *)
(* catalog that of the allowlist: only which names they hold matters here.  *)
(***************************************************************************)

Allowlist(source) ==
    CASE source = "github"  -> GITHUB_SUB_AGENT_TOOLS
      [] source = "jira"    -> JIRA_SUB_AGENT_TOOLS
      [] source = "datadog" -> DATADOG_SUB_AGENT_TOOLS

(* sub_agent_tools: the names of the adapters a connected source builds.     *)
SubAgentTools(source, listing) ==
    CASE source = "esa"    -> <<SEARCH_POSTS, GET_POST>>
      [] source = "github" ->
            Append(SelectSeq(listing, LAMBDA name : name \in Allowlist(source)), READ_FILE)
      [] OTHER -> SelectSeq(listing, LAMBDA name : name \in Allowlist(source))

(* sub_agent_catalog_entries: the names the lead may choose from.           *)
CatalogEntries(source, listing) ==
    CASE source = "esa"    -> {SEARCH_POSTS, GET_POST}
      [] source = "github" -> (Allowlist(source) \cap ToSet(listing)) \cup {READ_FILE}
      [] OTHER -> Allowlist(source) \cap ToSet(listing)

(* validate_required_tools; Datadog only warns.                             *)
RequiredTools(source) ==
    CASE source = "github" -> REQUIRED_GITHUB_SUB_AGENT_TOOLS
      [] source = "jira"   -> REQUIRED_JIRA_SUB_AGENT_TOOLS
      [] OTHER -> {}
HasRequiredTools(source, listing) == RequiredTools(source) \subseteq ToSet(listing)

(* built_in_spawn_catalog_group, spawn_catalog_tool_names.  "listings" maps  *)
(* the sources of a run to what they listed.                               *)
SpawnCatalog(listings, webSearch) ==
    UNION {CatalogEntries(source, listings[source]) : source \in DOMAIN listings}
    \cup (IF webSearch THEN {SEARCH_WEB} ELSE {})

(* validate_args of spawn_agent: a usable name, a mission, and tools that    *)
(* are all in the catalog.                                                 *)
SpawnIsValid(usableName, instructions, toolNames, catalog) ==
    /\ usableName
    /\ instructions
    /\ toolNames # {}
    /\ toolNames \subseteq catalog

(* resolve_spawn_selection: the tools a sub-agent gets, and the sources     *)
(* whose guardrails its preamble carries.                                  *)
SelectedFrom(source, listing, toolNames) == toolNames \cap CatalogEntries(source, listing)

ResolvedTools(listings, webSearch, toolNames) ==
    UNION {{<<source, name>> : name \in ToSet(SubAgentTools(source, listings[source]))
                                        \cap SelectedFrom(source, listings[source], toolNames)} :
           source \in DOMAIN listings}
    \cup {<<"general", name>> : name \in {n \in {SEARCH_WEB} : webSearch} \cap toolNames}

GuardrailsOf(listings, toolNames) ==
    {source \in DOMAIN listings : SelectedFrom(source, listings[source], toolNames) # {}}

(* prompt_facts: what a source adds to the context of the lead's prompt.     *)
PromptFact(source, value, blank) ==
    CASE source = "github"  -> [label |-> "GitHub Organization Scope", value |-> value]
      [] source = "datadog" ->
            [label |-> "Datadog Site", value |-> IF blank THEN "datadoghq.com" ELSE value]
      [] OTHER -> IF blank THEN None
                  ELSE [label |-> IF source = "esa" THEN "esa Team" ELSE "JIRA Site",
                        value |-> value]

(***************************************************************************)
(* The scope of GitHub calls (GithubScopePolicy, validate_scope).          *)
(***************************************************************************)

(* A qualifier is a token key:value of the query, trimmed of punctuation.   *)
ExtractOrgQualifiers(query) ==
    {Lower[q.value] : q \in {q \in ToSet(query) : q.key = "org" /\ q.value # None}}

ValidateQuery(query) ==
    /\ ExtractOrgQualifiers(query) # {}
    /\ \A org \in ExtractOrgQualifiers(query) : org = Lower[ScopeOrg]

ValidateOwner(owner) == Lower[owner] = Lower[ScopeOrg]

ValidateScope(toolName, args) ==
    /\ toolName \in SEARCH_QUERY_TOOL_NAMES => args.query # None /\ ValidateQuery(args.query)
    /\ toolName \in OWNER_SCOPED_TOOL_NAMES => args.owner # None /\ ValidateOwner(args.owner)

(* Mutant: the scope is checked for the tool that is asked, not the wrapper. *)
GitHubCallUnderServerName(name, args) ==
    LET tool == IF name = READ_FILE THEN GET_FILE_CONTENTS ELSE name
    IN  IF ~ValidateScope(tool, args) THEN None ELSE [tool |-> tool, args |-> args]

(* What a tool sends to its server for the arguments it was called with:     *)
(* None when it refuses them, else the tool's name there and the arguments. *)
(* read_file asks for the whole file and drops what is not the server's;     *)
(* a JIRA tool puts its own site over whatever the model chose.             *)
GitHubCall(name, args) ==
    IF ~ValidateScope(name, args) THEN None
    ELSE IF name = READ_FILE
         THEN [tool |-> GET_FILE_CONTENTS,
               args |-> [query |-> None, owner |-> args.owner, cloudId |-> None]]
         ELSE [tool |-> name, args |-> args]

JiraCall(name, args) == [tool |-> name, args |-> [args EXCEPT !.cloudId = Site]]

ForwardedCall(source, name, args) ==
    CASE source = "github" -> GitHubCall(name, args)
      [] source = "jira"   -> JiraCall(name, args)
      [] OTHER -> [tool |-> name, args |-> args]

(***************************************************************************)
(* What a tool returns.                                                    *)
(***************************************************************************)

DEFAULT_READ_FILE_LINE_LIMIT == 400

(* LineWindow: zero and absent are the default.                             *)
LineWindow(offset, limit) ==
    [offset |-> IF offset \in {None, 0} THEN 1 ELSE offset,
     limit  |-> IF limit \in {None, 0} THEN DEFAULT_READ_FILE_LINE_LIMIT ELSE limit]

(* LineWindow::apply: the numbered lines shown, and whether the window says  *)
(* that there is more; None when it starts after the last line.             *)
ApplyWindow(window, lines) ==
    LET start == window.offset - 1
        total == Len(lines)
        last == start + (IF total - start < window.limit THEN total - start ELSE window.limit)
    IN  IF start >= total THEN None
        ELSE [shown |-> [n \in window.offset..last |-> lines[n]],
              partial |-> start > 0 \/ last < total]

(* truncate_content, of a text whose characters take widths[i] bytes: how     *)
(* many characters are kept.  The cut is made at a byte, and is a panic when *)
(* that byte is inside a character.                                        *)
Bytes(widths, n) == FoldLeft(LAMBDA sum, width : sum + width, 0, SubSeq(widths, 1, n))
Panics == None
TruncateContent(widths, limit) ==
    LET boundaries == {n \in 0..Len(widths) : Bytes(widths, n) = limit}
    IN  IF Bytes(widths, Len(widths)) <= limit THEN Len(widths)
        ELSE IF boundaries = {} THEN Panics
        ELSE CHOOSE n \in boundaries : TRUE

(* format_tool_success: the text blocks, or else the structured content.     *)
FormatToolSuccess(contents, structured) ==
    LET texts == SelectSeq(contents, LAMBDA text : text # None)
    IN  IF texts # << >> THEN texts
        ELSE IF structured # None THEN <<structured>> ELSE << >>

(* call_mcp_tool, the adapters: what the sub-agent sees of a call that ended. *)
ToolResult(ended, isError) ==
    CASE ended # "ok" -> "error"
      [] ended = "ok" /\ isError -> "error"
      [] OTHER -> "text"
=============================================================================
