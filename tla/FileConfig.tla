----------------------------- MODULE FileConfig -----------------------------
(***************************************************************************)
(* The configuration file as it is read (runtime/config/file.rs and        *)
(* objective_file.rs): its sections as records, an absent setting as None,  *)
(* and what parsing refuses before anything is resolved.  Settings that are *)
(* only copied are left out, or stand for all settings that are checked     *)
(* alike (Text).                                                            *)
(***************************************************************************)
EXTENDS SequencesExt

CONSTANTS None,
          Name,          \* names given to backends and to connections
          EnvVar,        \* names of environment variables
          User,          \* Slack users
          Group,         \* Slack user groups
          Pattern,       \* channel name patterns, as sequences of characters
          ObjectiveId    \* well-formed ids of objectives

Blank == ""              \* an empty text, or one of white space
Text == {Blank, "text"}
Opt(T) == T \cup {None}
EnvRef == EnvVar \cup {Blank}
NameRef == Name \cup {Blank}

(* A table of named entries: None where it has none. *)
Named(T) == [NameRef -> Opt(T)]
NoEntries == [n \in NameRef |-> None]
Defined(table) == {n \in NameRef : table[n] # None}

AiProvider == {"openai", "anthropic", "bedrock", "bedrock_mantle", "vertexai"}

ASSUME FileAssumption ==
    /\ Blank \notin Name \cup EnvVar \cup ObjectiveId
    /\ None \notin NameRef \cup EnvRef \cup User \cup Group \cup Text \cup AiProvider

ServerFileConfig == [port : Int]

SlackAuthorizationActors ==
    [user_ids : Opt(SUBSET User), user_group_ids : Opt(Seq(Group)), allow_bot : BOOLEAN]

SlackChannelFileConfig ==
    [names : Seq(Pattern), mention : BOOLEAN, auto_response : BOOLEAN,
     auto_response_policy : Opt(Text)]

SlackFileConfig ==
    [socket_mode : BOOLEAN, bot_token_env : Opt(EnvRef), app_token_env : Opt(EnvRef),
     signing_secret_env : Opt(EnvRef), actors : Opt(SlackAuthorizationActors),
     channels : Seq(SlackChannelFileConfig)]

(* iam: aws_profile or aws_assume_role_arn is written, if only as "". *)
AiBackendFileConfig ==
    [provider : AiProvider,
     model : {Blank, "gpt", "openai.gpt", "anthropic.claude"},
     api_key_env : Opt(EnvRef), iam : BOOLEAN]

AiFileConfig ==
    [default_backend : NameRef, lead_backend : Opt(NameRef), sub_agent_backend : Opt(NameRef),
     judge_backend : Opt(NameRef), web_search_backend : Opt(NameRef),
     backends : Named(AiBackendFileConfig)]

(* The tables of a connector: the connection it uses (mcp_connection, or    *)
(* agent_connection of esa), the connections by name, and whether the table *)
(* holds a key of its own that it does not know, such as one of the layout  *)
(* without names.                                                           *)
Connector(T) == [selected : Opt(NameRef), connection : Opt(Named(T)), unnamed : BOOLEAN]

GitHubConnectionFileConfig ==
    [app_id : Int, installation_id : Int, private_key_env : Opt(EnvRef)]
DatadogConnectionFileConfig ==
    [site : Opt(Text), api_key_env : Opt(EnvRef), app_key_env : Opt(EnvRef)]
EsaConnectionFileConfig == [team_name : Text, access_token_env : Opt(EnvRef)]
JiraConnectionFileConfig == [site : Text, service_account_api_token_env : Opt(EnvRef)]

ObjectiveBudgetFileConfig ==
    [max_cycle_minutes : Opt(Nat), max_llm_tokens_per_cycle : Opt(Nat),
     max_tool_calls_per_cycle : Opt(Nat), max_new_work_items_per_cycle : Opt(Nat)]

ObjectiveFileConfig ==
    [id : ObjectiveId \cup {Blank, "Not An Id"}, description : Text, schedule_ok : BOOLEAN,
     report_channel_ok : BOOLEAN, enabled : BOOLEAN, default : BOOLEAN,
     budget : ObjectiveBudgetFileConfig]

WorkStateFileConfig == [repository_ok : BOOLEAN, connection : Opt(NameRef)]

FileConfigs ==
    [wellformed : BOOLEAN,  \* TOML with every mandatory table, of the right types, and no
                            \* key that a table with deny_unknown_fields does not know
     version : Nat, server : ServerFileConfig, language : Opt(Text), slack : SlackFileConfig,
     ai : AiFileConfig, datadog : Connector(DatadogConnectionFileConfig),
     github : Connector(GitHubConnectionFileConfig), search_scope_org : Text,
     esa : Opt(Connector(EsaConnectionFileConfig)), jira : Opt(Connector(JiraConnectionFileConfig)),
     memory : Opt([canvas_id : Text, cap : Opt(Nat)]), tracing : Opt([endpoint : Text]),
     objectives : Seq(ObjectiveFileConfig), work_state : Opt(WorkStateFileConfig)]

OrDefault(value, default) == IF value = None THEN default ELSE value

Connections(connector) ==
    IF connector = None THEN NoEntries ELSE OrDefault(connector.connection, NoEntries)

(* DatadogConnectionFileConfig::default *)
DefaultDatadogConnection == [site |-> None, api_key_env |-> None, app_key_env |-> None]

(***************************************************************************)
(* Parsing.                                                                *)
(***************************************************************************)

(* A table of named connections: require_one only refuses a table that is   *)
(* written and empty.                                                       *)
NamedTablesRead(connector, requireOne) ==
    \/ connector = None
    \/ /\ ~connector.unnamed
       /\ connector.selected # Blank
       /\ Connections(connector)[Blank] = None
       /\ requireOne => connector.connection # NoEntries

(* The texts of a connection that are required, or must not be empty. *)
ConnectionTexts(connector, fields) ==
    {Connections(connector)[n][field] : n \in Defined(Connections(connector)), field \in fields}

SlackTexts(slack) ==
    {slack.bot_token_env, slack.app_token_env, slack.signing_secret_env} \cup
    {slack.channels[i].auto_response_policy : i \in DOMAIN slack.channels}

AiTexts(ai) ==
    {ai.default_backend, ai.lead_backend, ai.sub_agent_backend, ai.judge_backend,
     ai.web_search_backend} \cup
    UNION {{ai.backends[b].model, ai.backends[b].api_key_env} : b \in Defined(ai.backends)}

OtherTexts(f) ==
    {f.language, f.search_scope_org} \cup
    (IF f.memory = None THEN {} ELSE {f.memory.canvas_id}) \cup
    (IF f.tracing = None THEN {} ELSE {f.tracing.endpoint}) \cup
    (IF f.work_state = None THEN {} ELSE {f.work_state.connection})

(* The texts that parsing requires not to be empty. *)
NonEmptyTexts(f) ==
    SlackTexts(f.slack) \cup AiTexts(f.ai) \cup OtherTexts(f) \cup
    ConnectionTexts(f.datadog, {"site", "api_key_env", "app_key_env"}) \cup
    ConnectionTexts(f.github, {"private_key_env"}) \cup
    ConnectionTexts(f.esa, {"team_name", "access_token_env"}) \cup
    ConnectionTexts(f.jira, {"site", "service_account_api_token_env"})

PortRead(port) == port \in 1..65535

(* parse_file_config: every failure is one error about the file. *)
Parses(f) ==
    /\ f.wellformed
    /\ PortRead(f.server.port)
    /\ Blank \notin NonEmptyTexts(f)
    /\ NamedTablesRead(f.datadog, FALSE)
    /\ NamedTablesRead(f.github, TRUE)
    /\ NamedTablesRead(f.esa, FALSE)
    /\ NamedTablesRead(f.jira, FALSE)
    /\ \A n \in Defined(Connections(f.github)) :
          /\ Connections(f.github)[n].app_id > 0
          /\ Connections(f.github)[n].installation_id > 0
=============================================================================
