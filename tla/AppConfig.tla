----------------------------- MODULE AppConfig ------------------------------
(***************************************************************************)
(* What a configuration file and the environment make of each other at      *)
(* startup (runtime/config/loader.rs, objective_loader.rs,                  *)
(* named_connector.rs, github_connection.rs, env.rs): the settings the       *)
(* process runs with, or the setting that is refused first.                  *)
(*                                                                         *)
(* A resolver is a sequence of checks, in the order in which the code makes *)
(* them, and the values it yields when all of them hold.                    *)
(***************************************************************************)
EXTENDS FileConfig

SUPPORTED_CONFIG_VERSION == 1
DEFAULT_MEMORY_CAP == 15

(* The variables that settings refer to unless the file names others. *)
SLACK_BOT_TOKEN == "SLACK_BOT_TOKEN"
SLACK_APP_TOKEN == "SLACK_APP_TOKEN"
SLACK_SIGNING_SECRET == "SLACK_SIGNING_SECRET"
DEFAULT_OPENAI_API_KEY_ENV == "LLM_OPENAI_API_KEY"
DEFAULT_ANTHROPIC_API_KEY_ENV == "LLM_ANTHROPIC_API_KEY"
DATADOG_API_KEY == "DATADOG_API_KEY"
DATADOG_APP_KEY == "DATADOG_APP_KEY"
GITHUB_APP_PRIVATE_KEY == "GITHUB_APP_PRIVATE_KEY"
ESA_ACCESS_TOKEN == "ESA_ACCESS_TOKEN"
JIRA_SERVICE_ACCOUNT_API_TOKEN == "JIRA_SERVICE_ACCOUNT_API_TOKEN"

ASSUME EnvAssumption ==
    {SLACK_BOT_TOKEN, SLACK_APP_TOKEN, SLACK_SIGNING_SECRET, DEFAULT_OPENAI_API_KEY_ENV,
     DEFAULT_ANTHROPIC_API_KEY_ENV, DATADOG_API_KEY, DATADOG_APP_KEY, GITHUB_APP_PRIVATE_KEY,
     ESA_ACCESS_TOKEN, JIRA_SERVICE_ACCOUNT_API_TOKEN} \subseteq EnvVar

(* Values of a variable: "xapp" is a secret that starts with xapp-. *)
Environment == [EnvVar -> {"unset", "blank", "secret", "xapp"}]

Check(holds, field) == [holds |-> holds, field |-> field]

(* read_required_secret *)
Secret(env, var, field) == Check(env[var] \notin {"unset", "blank"}, field)

Failures(checks) == {i \in DOMAIN checks : ~checks[i].holds}

(***************************************************************************)
(* Selecting a named connection (select_named).                            *)
(***************************************************************************)

SelectNamed(connector, selected) ==
    LET instances == Defined(Connections(connector))
    IN  CASE selected # None -> IF selected \in instances THEN selected ELSE None
          [] selected = None /\ Cardinality(instances) = 1 -> CHOOSE name \in instances : TRUE
          [] OTHER -> None

(* The variables that hold a connection's secrets. *)
GitHubSecrets(connection) ==
    <<OrDefault(connection.private_key_env, GITHUB_APP_PRIVATE_KEY)>>
DatadogSecrets(connection) ==
    <<OrDefault(connection.api_key_env, DATADOG_API_KEY),
      OrDefault(connection.app_key_env, DATADOG_APP_KEY)>>
EsaSecrets(connection) == <<OrDefault(connection.access_token_env, ESA_ACCESS_TOKEN)>>
JiraSecrets(connection) ==
    <<OrDefault(connection.service_account_api_token_env, JIRA_SERVICE_ACCOUNT_API_TOKEN)>>

ConnectionSecrets(kind, connection) ==
    CASE kind = "github"  -> GitHubSecrets(connection)
      [] kind = "datadog" -> DatadogSecrets(connection)
      [] kind = "esa"     -> EsaSecrets(connection)
      [] kind = "jira"    -> JiraSecrets(connection)

(* The selected connection exists, and the secrets it names are set; no     *)
(* other connection is looked at.                                          *)
ConnectionChecks(connector, selected, field, kind, env) ==
    LET name == SelectNamed(connector, selected)
    IN  <<Check(name # None, field)>> \o
        (IF name = None THEN << >>
         ELSE LET vars == ConnectionSecrets(kind, Connections(connector)[name])
              IN  [i \in DOMAIN vars |-> Secret(env, vars[i], vars[i])])

(***************************************************************************)
(* Slack.                                                                  *)
(***************************************************************************)

(* resolve_slack_connection_mode *)
ConnectionModeChecks(slack, env) ==
    IF slack.socket_mode
    THEN LET var == OrDefault(slack.app_token_env, SLACK_APP_TOKEN)
         IN  <<Secret(env, var, "slack.socket.app_token_env"),
               Check(env[var] = "xapp", "slack.socket.app_token_env")>>
    ELSE <<Secret(env, OrDefault(slack.signing_secret_env, SLACK_SIGNING_SECRET),
                  "slack.http.signing_secret_env")>>

(* resolve_slack_channels *)
ChannelChecks(channels) ==
    [i \in DOMAIN channels |->
        Check(channels[i].mention \/ channels[i].auto_response, "slack.channels")]

(* resolve_slack_authorization: actors that name nobody are no condition. *)
ResolveActors(actors) ==
    IF actors = None \/ (actors.user_ids = None /\ actors.user_group_ids = None /\ ~actors.allow_bot)
    THEN None
    ELSE actors

AutoResponds(channels) == \E i \in DOMAIN channels : channels[i].auto_response

(***************************************************************************)
(* Backends of the roles of the AI.                                        *)
(***************************************************************************)

SelectBackendId(override, default, field) ==
    IF override = None THEN [id |-> default, field |-> "ai.default_backend"]
    ELSE [id |-> override, field |-> field]

LeadBackend(ai) == SelectBackendId(ai.lead_backend, ai.default_backend, "ai.lead_backend")
SubAgentBackend(ai) ==
    SelectBackendId(ai.sub_agent_backend, ai.default_backend, "ai.sub_agent_backend")
JudgeBackend(ai) == SelectBackendId(ai.judge_backend, ai.default_backend, "ai.judge_backend")
WebSearchBackend(ai) ==
    IF ai.web_search_backend = None THEN LeadBackend(ai)
    ELSE [id |-> ai.web_search_backend, field |-> "ai.web_search_backend"]

KeyVar(backend) ==
    OrDefault(backend.api_key_env, IF backend.provider = "openai" THEN DEFAULT_OPENAI_API_KEY_ENV
                                   ELSE DEFAULT_ANTHROPIC_API_KEY_ENV)

(* resolve_openai_api_key, resolve_anthropic_api_key,                        *)
(* resolve_bedrock_mantle_auth: AWS credentials are not resolved here.       *)
BackendAuthChecks(backend, env) ==
    CASE backend.provider \in {"openai", "anthropic"} ->
           <<Secret(env, KeyVar(backend), "ai.backends.api_key_env")>>
      [] backend.provider = "bedrock_mantle" /\ backend.api_key_env # None ->
           <<Check(~backend.iam, "ai.backends.api_key_env"),
             Secret(env, backend.api_key_env, "ai.backends.api_key_env")>>
      [] OTHER -> << >>

(* resolve_llm_provider: the lead's key is the key of both. *)
LlmChecks(ai, env) ==
    LET lead == LeadBackend(ai)
        sub  == SubAgentBackend(ai)
        known(role) == role.id \in Defined(ai.backends)
    IN  <<Check(known(lead), lead.field), Check(known(sub), sub.field)>> \o
        (IF ~known(lead) \/ ~known(sub) THEN << >>
         ELSE LET l == ai.backends[lead.id]
                  s == ai.backends[sub.id]
              IN  <<Check(l.provider = s.provider, sub.field)>> \o BackendAuthChecks(l, env) \o
                  (IF l.provider = "bedrock_mantle" THEN BackendAuthChecks(s, env) ELSE << >>))

(* A backend that exists and whose secret, if any, is set. *)
RoleChecks(ai, role, env) ==
    <<Check(role.id \in Defined(ai.backends), role.field)>> \o
    (IF role.id \notin Defined(ai.backends) THEN << >>
     ELSE BackendAuthChecks(ai.backends[role.id], env))

(* Mutant: a judge that no channel asks for is resolved all the same. *)
JudgeChecksAlways(f, env) == RoleChecks(f.ai, JudgeBackend(f.ai), env)

(* resolve_judge_llm_provider, asked only when a channel auto-responds. *)
JudgeChecks(f, env) ==
    IF AutoResponds(f.slack.channels) THEN RoleChecks(f.ai, JudgeBackend(f.ai), env) ELSE << >>

(* BedrockMantleModelFamily::from_model_id *)
MantleFamily(model) ==
    CASE model = "openai.gpt" -> "OpenAiCompatible"
      [] model = "anthropic.claude" -> "Anthropic"
      [] OTHER -> None

(* A lead of the OpenAI family on Mantle searches the web by itself, and    *)
(* only a fallback to it may do without a backend.                          *)
SearchesNatively(backend) ==
    backend.provider = "bedrock_mantle" /\ MantleFamily(backend.model) = "OpenAiCompatible"
NeedsNoWebSearch(ai) ==
    ai.web_search_backend = None /\ SearchesNatively(ai.backends[LeadBackend(ai).id])

(* resolve_web_search_llm_provider *)
WebSearchChecks(ai, env) ==
    LET web == WebSearchBackend(ai)
    IN  <<Check(web.id \in Defined(ai.backends), web.field)>> \o
        (IF web.id \notin Defined(ai.backends) THEN << >>
         ELSE LET backend == ai.backends[web.id]
              IN  CASE backend.provider \in {"openai", "anthropic"} ->
                         BackendAuthChecks(backend, env)
                    [] NeedsNoWebSearch(ai) -> << >>
                    [] OTHER -> <<Check(FALSE, web.field)>>)

(***************************************************************************)
(* Connectors.                                                             *)
(***************************************************************************)

(* resolve_datadog_config: always on, by a connection of defaults if none   *)
(* is defined or asked for.                                                 *)
DatadogUsed(f) ==
    IF Defined(Connections(f.datadog)) = {} /\ f.datadog.selected = None
    THEN [f.datadog EXCEPT !.connection = [NoEntries EXCEPT ![CHOOSE name \in Name : TRUE] = DefaultDatadogConnection]]
    ELSE f.datadog

(* resolve_esa_config, resolve_jira_config: off unless it is configured. *)
Enabled(connector) ==
    connector # None /\ (Defined(Connections(connector)) # {} \/ connector.selected # None)

OptionalConnectorChecks(connector, field, kind, env) ==
    IF ~Enabled(connector) THEN << >>
    ELSE ConnectionChecks(connector, connector.selected, field, kind, env)

ConnectorChecks(f, env) ==
    ConnectionChecks(DatadogUsed(f), f.datadog.selected, "datadog.mcp_connection",
                     "datadog", env) \o
    ConnectionChecks(f.github, f.github.selected, "github.mcp_connection", "github", env) \o
    OptionalConnectorChecks(f.esa, "esa.agent_connection", "esa", env) \o
    OptionalConnectorChecks(f.jira, "jira.mcp_connection", "jira", env)

(***************************************************************************)
(* Objectives and the Work State.                                          *)
(***************************************************************************)

(* ObjectiveBudget::default; a cycle may open no new item, but the other     *)
(* limits are positive (ObjectiveDefinition::validate).                     *)
PositiveLimits(budget) ==
    /\ OrDefault(budget.max_cycle_minutes, 30) * 60 > 0
    /\ OrDefault(budget.max_llm_tokens_per_cycle, 2000000) > 0
    /\ OrDefault(budget.max_tool_calls_per_cycle, 200) > 0

(* resolve_objective, and the ids seen before it. *)
ObjectiveCheck(objectives, i) ==
    LET o == objectives[i]
    IN  <<Check(o.id \in ObjectiveId, "objectives.id"),
          Check(o.schedule_ok, "objectives.schedule"),
          Check(o.report_channel_ok, "objectives.report_channel"),
          Check(o.description # Blank /\ PositiveLimits(o.budget), "objectives"),
          Check(\A j \in 1..(i - 1) : objectives[j].id # o.id, "objectives.id")>>

(* The five checks of the first objective, then those of the second, ... *)
ObjectiveChecks(objectives) ==
    [k \in 1..(5 * Len(objectives)) |->
        ObjectiveCheck(objectives, 1 + ((k - 1) \div 5))[1 + ((k - 1) % 5)]]

(* resolve_default_objective *)
ExplicitDefaults(objectives) == {i \in DOMAIN objectives : objectives[i].default}

DefaultObjectiveChecks(objectives) ==
    LET explicit == ExplicitDefaults(objectives)
    IN  <<Check(Cardinality(explicit) < 2, "objectives.default"),
          Check(Cardinality(explicit) = 1 => \A i \in explicit : objectives[i].enabled,
                "objectives.default")>>

(* Mutant: a single objective takes over unlinked work, enabled or not. *)
ResolveObjectivesOnly(objectives) ==
    [i \in DOMAIN objectives |->
        [id |-> objectives[i].id, enabled |-> objectives[i].enabled,
         takes_unlinked_work |-> objectives[i].default \/ Len(objectives) = 1]]

ResolveObjectives(objectives) ==
    LET enabled == {i \in DOMAIN objectives : objectives[i].enabled}
        default == IF ExplicitDefaults(objectives) = {} /\ Cardinality(enabled) = 1 THEN enabled
                   ELSE ExplicitDefaults(objectives)
    IN  [i \in DOMAIN objectives |->
            [id |-> objectives[i].id, enabled |-> objectives[i].enabled,
             takes_unlinked_work |-> i \in default]]

(* resolve_work_state *)
WorkStateChecks(f, env) ==
    IF f.work_state = None THEN <<Check(f.objectives = << >>, "work_state")>>
    ELSE <<Check(f.work_state.repository_ok, "work_state.github.repository")>> \o
         ConnectionChecks(f.github, f.work_state.connection, "work_state.github.connection",
                          "github", env)

(***************************************************************************)
(* The whole file.                                                         *)
(***************************************************************************)

(* resolve_app_config *)
Checks(f, env) ==
    <<Check(f.version = SUPPORTED_CONFIG_VERSION, "version"),
      Secret(env, OrDefault(f.slack.bot_token_env, SLACK_BOT_TOKEN), "slack.auth.bot_token_env")>> \o
    ConnectionModeChecks(f.slack, env) \o
    ChannelChecks(f.slack.channels) \o
    LlmChecks(f.ai, env) \o
    JudgeChecks(f, env) \o
    WebSearchChecks(f.ai, env) \o
    ConnectorChecks(f, env) \o
    ObjectiveChecks(f.objectives) \o
    DefaultObjectiveChecks(f.objectives) \o
    WorkStateChecks(f, env)

ResolveAppConfig(f) ==
    [mode |-> IF f.slack.socket_mode THEN "socket" ELSE "http",
     signing_secret |-> ~f.slack.socket_mode,
     actors |-> ResolveActors(f.slack.actors),
     channels |-> f.slack.channels,
     lead |-> f.ai.backends[LeadBackend(f.ai).id],
     sub_agent |-> f.ai.backends[SubAgentBackend(f.ai).id],
     judge |-> IF AutoResponds(f.slack.channels) THEN f.ai.backends[JudgeBackend(f.ai).id] ELSE None,
     web_search |-> IF NeedsNoWebSearch(f.ai) THEN None ELSE WebSearchBackend(f.ai).id,
     datadog |-> SelectNamed(DatadogUsed(f), f.datadog.selected),
     github |-> SelectNamed(f.github, f.github.selected),
     esa |-> IF Enabled(f.esa) THEN SelectNamed(f.esa, f.esa.selected) ELSE None,
     jira |-> IF Enabled(f.jira) THEN SelectNamed(f.jira, f.jira.selected) ELSE None,
     memory_cap |-> IF f.memory = None THEN None ELSE OrDefault(f.memory.cap, DEFAULT_MEMORY_CAP),
     objectives |-> ResolveObjectives(f.objectives),
     work_state |-> IF f.work_state = None THEN None
                    ELSE SelectNamed(f.github, f.work_state.connection)]

Failed(field) == [ok |-> FALSE, field |-> field]
Loaded(config) == [ok |-> TRUE, config |-> config]

(* load_app_config_with: what the process makes of a file it could read. *)
LoadAppConfig(f, env) ==
    CASE ~Parses(f) -> Failed("file")
      [] Parses(f) /\ Failures(Checks(f, env)) # {} ->
           Failed(Checks(f, env)[Min(Failures(Checks(f, env)))].field)
      [] OTHER -> Loaded(ResolveAppConfig(f))

(***************************************************************************)
(* What the settings promise.                                              *)
(***************************************************************************)

(* The variables that the settings in use name, told from the file alone. *)
Provider(ai, id) == IF id \in Defined(ai.backends) THEN ai.backends[id].provider ELSE None

SecretsOfBackend(ai, id) ==
    CASE Provider(ai, id) \in {"openai", "anthropic"} -> {KeyVar(ai.backends[id])}
      [] Provider(ai, id) = "bedrock_mantle" -> {ai.backends[id].api_key_env} \ {None}
      [] OTHER -> {}

SecretsOfSelected(connector, selected, kind) ==
    IF SelectNamed(connector, selected) = None THEN {}
    ELSE ToSet(ConnectionSecrets(kind, Connections(connector)[SelectNamed(connector, selected)]))

(* Those of the roles that stand by themselves. *)
SecretsOfRoles(f) ==
    UNION {SecretsOfBackend(f.ai, role.id) :
           role \in {LeadBackend(f.ai), WebSearchBackend(f.ai)} \cup
                    (IF AutoResponds(f.slack.channels) THEN {JudgeBackend(f.ai)} ELSE {})}

SelectedSecrets(f) ==
    {OrDefault(f.slack.bot_token_env, SLACK_BOT_TOKEN)} \cup
    {IF f.slack.socket_mode THEN OrDefault(f.slack.app_token_env, SLACK_APP_TOKEN)
     ELSE OrDefault(f.slack.signing_secret_env, SLACK_SIGNING_SECRET)} \cup
    SecretsOfRoles(f) \cup
    (IF Provider(f.ai, LeadBackend(f.ai).id) = "bedrock_mantle"
     THEN SecretsOfBackend(f.ai, SubAgentBackend(f.ai).id) ELSE {}) \cup
    SecretsOfSelected(DatadogUsed(f), f.datadog.selected, "datadog") \cup
    SecretsOfSelected(f.github, f.github.selected, "github") \cup
    (IF Enabled(f.esa) THEN SecretsOfSelected(f.esa, f.esa.selected, "esa") ELSE {}) \cup
    (IF Enabled(f.jira) THEN SecretsOfSelected(f.jira, f.jira.selected, "jira") ELSE {}) \cup
    (IF f.work_state = None THEN {}
     ELSE SecretsOfSelected(f.github, f.work_state.connection, "github"))
=============================================================================
