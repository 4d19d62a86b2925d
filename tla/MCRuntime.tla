------------------------------ MODULE MCRuntime -----------------------------
(***************************************************************************)
(* Instances of Runtime for TLC: a file that loads, the same with one or    *)
(* two sections changed, and environments that lack a secret each.          *)
(***************************************************************************)
EXTENDS Runtime

MCName == {"one", "two", "three"}
MCEnvVar == {SLACK_BOT_TOKEN, SLACK_APP_TOKEN, SLACK_SIGNING_SECRET, DEFAULT_OPENAI_API_KEY_ENV,
             DEFAULT_ANTHROPIC_API_KEY_ENV, DATADOG_API_KEY, DATADOG_APP_KEY,
             GITHUB_APP_PRIVATE_KEY, ESA_ACCESS_TOKEN, JIRA_SERVICE_ACCOUNT_API_TOKEN,
             "OTHER_KEY"}
MCUser == {"ann", "bob"}
MCGroup == {"sre", "ops"}
MCMembers == [g \in MCGroup |-> IF g = "ops" THEN {"bob"} ELSE {}]
MCChannel == {"alerts", "alerts2", "secret"}
MCChannelName == [c \in MCChannel |-> CASE c = "alerts" -> <<"a", "b">>
                                        [] c = "alerts2" -> <<"a", "b", "a">>
                                        [] OTHER -> <<"a", "b">>]
Exact == <<"a", "b">>
Suffixed == <<"*", "b">>
MCPattern == {Exact, Suffixed, <<"*">>}

(***************************************************************************)
(* Files.                                                                  *)
(***************************************************************************)

ChannelEntry(names, mention, auto) ==
    [names |-> names, mention |-> mention, auto_response |-> auto, auto_response_policy |-> None]

Slack == [socket_mode |-> TRUE, bot_token_env |-> None, app_token_env |-> None,
          signing_secret_env |-> None, actors |-> None,
          channels |-> <<ChannelEntry(<<Suffixed>>, TRUE, TRUE)>>]

Actors(users, groups, bot) == [user_ids |-> users, user_group_ids |-> groups, allow_bot |-> bot]

Slacks ==
    {[Slack EXCEPT !.channels = channels] : channels \in
        {<<ChannelEntry(<<Exact>>, TRUE, FALSE)>>, <<ChannelEntry(<<Exact>>, FALSE, FALSE)>>,
         <<ChannelEntry(<<Exact>>, TRUE, FALSE), ChannelEntry(<<<<"*">>>>, FALSE, TRUE)>>, << >>}} \cup
    {[Slack EXCEPT !.actors = actors] : actors \in
        {Actors({"ann"}, None, FALSE), Actors(None, <<"sre", "ops">>, FALSE),
         Actors({"ann"}, << >>, TRUE), Actors(None, None, FALSE)}} \cup
    {[Slack EXCEPT !.socket_mode = FALSE],
     [Slack EXCEPT !.socket_mode = FALSE, !.signing_secret_env = "OTHER_KEY"],
     [Slack EXCEPT !.app_token_env = "OTHER_KEY"], [Slack EXCEPT !.bot_token_env = Blank]}

Backend(provider, model, key) ==
    [provider |-> provider, model |-> model, api_key_env |-> key, iam |-> FALSE]
OpenAi == Backend("openai", "gpt", None)
Claude == Backend("anthropic", "gpt", None)
Mantle == Backend("bedrock_mantle", "openai.gpt", None)

Both(one, two) == [n \in MCName \cup {Blank} |-> CASE n = "one" -> one [] n = "two" -> two
                                                     [] OTHER -> None]
OnlyOne(entry) == Both(entry, None)
Ai == [default_backend |-> "one", lead_backend |-> None, sub_agent_backend |-> None,
       judge_backend |-> None, web_search_backend |-> None, backends |-> Both(OpenAi, Claude)]

Ais ==
    {[Ai EXCEPT !.default_backend = "two"], [Ai EXCEPT !.default_backend = Blank],
     [Ai EXCEPT !.sub_agent_backend = "two"], [Ai EXCEPT !.judge_backend = "two"],
     [Ai EXCEPT !.web_search_backend = "two"], [Ai EXCEPT !.lead_backend = "three"],
     [Ai EXCEPT !.backends = Both(Backend("vertexai", "gpt", None), Claude),
                !.web_search_backend = "two"],
     [Ai EXCEPT !.backends = Both(Backend("bedrock", "gpt", None), Claude)],
     [Ai EXCEPT !.backends = Both(OpenAi, Backend("openai", "gpt", "OTHER_KEY")),
                !.sub_agent_backend = "two"]} \cup
    {[Ai EXCEPT !.backends = Both(Mantle, two), !.sub_agent_backend = "two",
                !.web_search_backend = web] :
        two \in {Mantle, [Mantle EXCEPT !.api_key_env = "OTHER_KEY"],
                 [Mantle EXCEPT !.api_key_env = "OTHER_KEY", !.iam = TRUE],
                 [Mantle EXCEPT !.model = "anthropic.claude"]},
        web \in {None, "one"}}

Table(selected, connection) ==
    [selected |-> selected, connection |-> connection, unnamed |-> FALSE]

Hub == [app_id |-> 1, installation_id |-> 1, private_key_env |-> None]
HubOther == [Hub EXCEPT !.private_key_env = "OTHER_KEY"]
GitHub == Table(None, OnlyOne(Hub))
GitHubs == {Table("one", Both(Hub, HubOther)), Table("two", Both(Hub, HubOther)),
            Table(None, Both(Hub, HubOther)), Table("two", OnlyOne(Hub)), Table(None, None),
            Table(None, NoEntries), Table(None, OnlyOne([Hub EXCEPT !.app_id = 0])),
            [GitHub EXCEPT !.unnamed = TRUE]}

Dog == [site |-> None, api_key_env |-> None, app_key_env |-> "OTHER_KEY"]
Datadogs == {Table(None, OnlyOne(Dog)), Table("one", None), Table(None, Both(Dog, Dog))}

Esa == [team_name |-> "text", access_token_env |-> None]
Esas == {Table(None, None), Table(None, OnlyOne(Esa)), Table("two", None)}
Jira == [site |-> "text", service_account_api_token_env |-> "OTHER_KEY"]
Jiras == {Table(None, NoEntries), Table(None, OnlyOne(Jira)),
          Table(None, OnlyOne([Jira EXCEPT !.site = Blank]))}

NoLimits == [max_cycle_minutes |-> None, max_llm_tokens_per_cycle |-> None,
             max_tool_calls_per_cycle |-> None, max_new_work_items_per_cycle |-> 0]
Objective(id, enabled, default) ==
    [id |-> id, description |-> "text", schedule_ok |-> TRUE, report_channel_ok |-> TRUE,
     enabled |-> enabled, default |-> default, budget |-> NoLimits]
WorkState == [repository_ok |-> TRUE, connection |-> None]
Goal == Objective("x", TRUE, FALSE)

Objectives ==
    {<<Goal>>, <<Goal, Goal>>, <<Objective("Not An Id", TRUE, FALSE)>>,
     <<Objective("x", FALSE, FALSE)>>, <<Objective("x", FALSE, TRUE)>>,
     <<Goal, Objective("y", TRUE, TRUE)>>, <<Objective("x", TRUE, TRUE), Objective("y", TRUE, TRUE)>>,
     <<Goal, Objective("y", FALSE, FALSE)>>,
     <<[Goal EXCEPT !.budget.max_cycle_minutes = 0]>>}

Base == [wellformed |-> TRUE, version |-> 1, server |-> [port |-> 3000], language |-> None,
         slack |-> Slack, ai |-> Ai, datadog |-> Table(None, None), github |-> GitHub,
         search_scope_org |-> "text", esa |-> None, jira |-> None, memory |-> None,
         tracing |-> None, objectives |-> << >>, work_state |-> None]

WorkStates == {None, WorkState, [WorkState EXCEPT !.connection = "two"],
               [WorkState EXCEPT !.repository_ok = FALSE]}

MCFile ==
    {Base, [Base EXCEPT !.wellformed = FALSE], [Base EXCEPT !.version = 2],
     [Base EXCEPT !.server.port = 0], [Base EXCEPT !.server.port = 65536],
     [Base EXCEPT !.memory = [canvas_id |-> "text", cap |-> None]],
     [Base EXCEPT !.tracing = [endpoint |-> Blank]]} \cup
    {[Base EXCEPT !.slack = slack] : slack \in Slacks} \cup
    {[Base EXCEPT !.ai = ai, !.slack.channels[1].auto_response = auto] :
        ai \in Ais, auto \in BOOLEAN} \cup
    {[Base EXCEPT !.github = github, !.work_state = work] : github \in GitHubs, work \in WorkStates} \cup
    {[Base EXCEPT !.datadog = datadog] : datadog \in Datadogs} \cup
    {[Base EXCEPT !.esa = esa] : esa \in Esas} \cup
    {[Base EXCEPT !.jira = jira] : jira \in Jiras} \cup
    {[Base EXCEPT !.objectives = objectives, !.work_state = work] :
        objectives \in Objectives, work \in WorkStates}

AllSet == [v \in MCEnvVar |-> IF v = SLACK_APP_TOKEN THEN "xapp" ELSE "secret"]
MCEnv == {AllSet} \cup {[AllSet EXCEPT ![v] = value] : v \in MCEnvVar, value \in {"unset", "blank"}}
         \cup {[AllSet EXCEPT ![SLACK_APP_TOKEN] = "secret"]}

(***************************************************************************)
(* Posts.                                                                  *)
(***************************************************************************)

PostOf(author, mentions, channel) ==
    [author |-> author, bot |-> author \in {Bot, None}, mentions |-> mentions, file |-> FALSE,
     blank |-> FALSE, subtype |-> FALSE, channel |-> channel]

FilePost == [PostOf("ann", TRUE, "alerts") EXCEPT !.file = TRUE]

MCPosts ==
    {PostOf(author, mentions, "alerts") : author \in MCUser, mentions \in BOOLEAN} \cup
    {PostOf("ann", mentions, channel) : mentions \in BOOLEAN, channel \in {"alerts2", "secret"}} \cup
    {PostOf(Bot, TRUE, "alerts"), PostOf(None, FALSE, "alerts"),
     [PostOf("bob", FALSE, "alerts") EXCEPT !.bot = TRUE],
     [PostOf("ann", FALSE, "alerts") EXCEPT !.blank = TRUE],
     FilePost, [FilePost EXCEPT !.mentions = FALSE]}

(* For the runs of a single file. *)
OneFile == {Base}
OneEnv == {AllSet}
OnePost == {FilePost}

(* The pattern matching of authorization.rs is that of the reference.        *)
ASSUME WildcardIsGlob ==
    \A pattern \in SeqOf({"a", "b", "*"}, 4), value \in SeqOf({"a", "b"}, 5) :
        WildcardMatch(pattern, value) = Glob(pattern, value)

(***************************************************************************)
(* Requests: an authentication code that tells apart what it is made of.     *)
(***************************************************************************)

MCHmac == [made \in {"secret", "other"} \X (5..15) \X {"x", "y"} |->
             <<IF made[1] = "secret" THEN 0 ELSE 255, 16 + made[2], IF made[3] = "x" THEN 1 ELSE 254>>]
R == INSTANCE SlackRequests WITH SigningSecret <- "secret", MaxAge <- 3, MAX_REQUEST_BODY_BYTES <- 2, Hmac <- MCHmac
HexOf(bytes) == FlattenSeq([i \in DOMAIN bytes |-> <<bytes[i] \div 16, bytes[i] % 16>>])
Signed(made, timestamp, body) ==
    [timestamp |-> timestamp, signature |-> <<"v0=">> \o HexOf(MCHmac[made]), body |-> body, bytes |-> 1]

(* A request is let in exactly when it was signed with the secret, is the one   *)
(* that was signed, and is as old as may be, or as new.                      *)
ASSUME OnlySignedRequestsPass ==
    \A made \in DOMAIN MCHmac, timestamp \in 5..15, body \in {"x", "y"} :
        R!Refusal(Signed(made, <<timestamp>>, body), 10) =
            IF made = <<"secret", timestamp, body>> /\ timestamp \in 7..13 THEN None ELSE R!Unauthorized

(* What is missing, cut short, longer or no digit is refused and decodes to     *)
(* nothing; what is too long is refused unread.                             *)
ASSUME BrokenRequestsAreRefused ==
    LET good == Signed(<<"secret", 10, "x">>, <<10>>, "x")
        sign == good.signature
    IN  /\ R!Refusal(good, 10) = None
        /\ \A header \in {None, << >>, SubSeq(sign, 1, 6), Append(sign, 0), sign \o <<0, 0>>,
                          [sign EXCEPT ![3] = 16], [sign EXCEPT ![1] = "v1="]} :
              R!Refusal([good EXCEPT !.signature = header], 10) = R!Unauthorized
        /\ \A header \in {None, << >>, <<None>>} :
              R!Refusal([good EXCEPT !.timestamp = header], 10) = R!Unauthorized
        /\ R!Refusal([good EXCEPT !.bytes = 3], 10) = R!BadRequest

Action(action_id, value) == [action_id |-> action_id, value |-> value]
Payloads == [type : {"block_actions", "view_submission"}, user : {"ann"}, channel : {None, "alerts"},
             ts : {"1"}, thread_ts : {None, "0"},
             actions : SeqOf({Action("cancel_task", "one"), Action("cancel_task", "two"),
                              Action("cancel_task", None), Action("other", None)}, 3)]

(* A click cancels at most one task, that of an action to cancel, in the thread *)
(* of its message; what is refused over HTTP is acknowledged by Socket Mode     *)
(* and lost, and the two spawn the same.                                   *)
ASSUME ClicksCancelOneTask ==
    \A payload \in Payloads :
        LET http == R!HandleInteraction(payload)
        IN  /\ \A click \in http.clicks :
                  /\ \E i \in DOMAIN payload.actions :
                        /\ payload.actions[i] = Action("cancel_task", click.job_id)
                        /\ \A j \in 1..(i - 1) : payload.actions[j].action_id = "other"
                  /\ click.thread_ts \in {payload.thread_ts, payload.ts}
            /\ Cardinality(http.clicks) <= 1
            /\ R!HandleSocketInteraction(payload) = [http EXCEPT !.status = R!Ok]
            /\ http.status = R!BadRequest => payload.type = "block_actions"

(* A judge that cannot be asked is told from one that says no; one that         *)
(* answers nothing of use is not.                                          *)
ASSUME UnreadableJudgementsAreRefusals ==
    LET Result(kind) == [kind |-> kind, respond |-> FALSE, reason |-> << >>]
    IN  /\ R!Judged(Result("completion_error")) = None
        /\ R!Judged(Result("no_data")) = R!Judged(Result("decision"))
=============================================================================
