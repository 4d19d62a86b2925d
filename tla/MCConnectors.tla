---------------------------- MODULE MCConnectors ----------------------------
(***************************************************************************)
(* Instances of Connectors for TLC, and what the operators of ConnectorTools *)
(* are checked against over bounded inputs.                                 *)
(***************************************************************************)
EXTENDS Connectors

MCSymmetry == Permutations(Caller)

MCLower == [s \in {"acme", "AcMe", "other"} |-> IF s = "AcMe" THEN "acme" ELSE s]

GitHubListing == <<"search_code", "create_issue", "search_repositories", "search_issues",
                   "search_pull_requests", "get_file_contents", "pull_request_read">>
MCListings ==
    [s \in {"datadog", "github", "esa", "jira"} |->
        CASE s = "datadog" -> {<<"search_datadog_logs">>}
          [] s = "github" -> {GitHubListing, Tail(GitHubListing)}
          [] s = "jira" -> {<<"getJiraIssue", "createJiraIssue", "searchJiraIssuesUsingJql">>}
          [] s = "esa" -> {}]

Org(value) == [key |-> "org", value |-> value]
Repo(value) == [key |-> "repo", value |-> value]    \* of which value is the owner
User(value) == [key |-> "user", value |-> value]
Language == [key |-> "language", value |-> "acme"]
Args(query, owner, cloudId) == [query |-> query, owner |-> owner, cloudId |-> cloudId]
MCArguments ==
    {Args(None, owner, None) : owner \in {None, "AcMe", "other"}} \cup
    {Args(query, None, "elsewhere") : query \in {<<Repo("other")>>, <<Org("acme"), Org("other")>>, <<Language>>,
                                                 <<Repo("acme"), Org("AcMe")>>, <<Org("acme"), Repo("other")>>}}
MCToolName == {"search_code", "read_file", "get_file_contents", "getJiraIssue", "createJiraIssue"}

(***************************************************************************)
(* Reference definitions.                                                  *)
(***************************************************************************)

Offered == {"search_code", "get_job_logs", "create_issue", "get_file_contents", "read_file",
            "getJiraIssue", "search_datadog_logs"}
SmallListings == SeqOf(Offered, 3)

(* Every tool of a source is in its catalog and the other way round, for     *)
(* whatever a server lists; and no GitHub tool is outside the scope checks.  *)
ASSUME CatalogMatchesTools ==
    \A source \in {"datadog", "github", "esa", "jira"}, listing \in SmallListings :
        ToSet(SubAgentTools(source, listing)) = CatalogEntries(source, listing)
ASSUME EveryGitHubToolIsScoped ==
    GITHUB_SUB_AGENT_TOOLS \cup {READ_FILE} = SEARCH_QUERY_TOOL_NAMES \cup OWNER_SCOPED_TOOL_NAMES

(* A query that names accounts by org: alone passes exactly when it stays in  *)
(* the organization.  One that passes may name another account by user: or    *)
(* repo: besides, and then does not stay in it.                             *)
Queries == SeqOf({Org("acme"), Org("AcMe"), Org("other"), Org(None), User("acme"), User("other"),
                  Repo("acme"), Repo("other"), Language}, 3)
ASSUME OrgQualifiersAreChecked ==
    \A query \in Queries : Named(query, {"user", "repo"}) = {} =>
        (ValidateQuery(query) <=> Reach(query) = {Organization})
ASSUME OtherQualifiersAreNot ==
    {query \in Queries : Len(query) = 2 /\ ValidateQuery(query) /\ Reach(query) # {Organization}}
      = {query \in Queries : /\ Len(query) = 2
                             /\ ToSet(query) \cap {Org("acme"), Org("AcMe")} # {}
                             /\ ToSet(query) \cap {User("other"), Repo("other")} # {}}

(* A sub-agent gets exactly the tools that were chosen, each from the source  *)
(* that has it, and the guardrails of those sources only.                   *)
ASSUME SelectionIsResolved ==
    \A g \in SeqOf(Offered, 2), d \in SeqOf(Offered, 1), web \in BOOLEAN :
        LET listings == [s \in {"datadog", "github", "esa"} |->
                            CASE s = "github" -> g [] s = "datadog" -> d [] s = "esa" -> << >>]
            catalog == SpawnCatalog(listings, web)
        IN  \A chosen \in SUBSET catalog :
              LET tools == ResolvedTools(listings, web, chosen)
              IN  /\ {tool[2] : tool \in tools} = chosen
                  /\ Cardinality(tools) = Cardinality(chosen)
                  /\ GuardrailsOf(listings, chosen) = {tool[1] : tool \in tools} \ {"general"}

(* A window shows the lines that are asked for, and says so exactly when it  *)
(* does not show all of them; the next window starts where it ended.        *)
ASSUME WindowsShowEveryLine ==
    \A total \in 0..4, offset \in {None} \cup 0..5, limit \in {None} \cup 0..5 :
        LET lines == [n \in 1..total |-> n]
            window == LineWindow(offset, limit)
            result == ApplyWindow(window, lines)
            wanted == {n \in 1..total : window.offset <= n /\ n < window.offset + window.limit}
        IN  /\ result = None <=> window.offset > total
            /\ result # None =>
                 /\ DOMAIN result.shown = wanted
                 /\ \A n \in wanted : result.shown[n] = lines[n]
                 /\ result.partial <=> wanted # 1..total

(* A result is cut to the limit; but the cut counts bytes, and panics when    *)
(* it falls inside a character, which texts of one-byte characters never do. *)
Widths == SeqOf(1..3, 4)
ASSUME CutsAtTheLimit ==
    \A widths \in Widths, limit \in 1..5 :
        LET kept == TruncateContent(widths, limit)
        IN  /\ kept # Panics => Bytes(widths, kept) <= limit
            /\ (\A i \in DOMAIN widths : widths[i] = 1) => kept # Panics
ASSUME CutsInsideACharacter == \E widths \in Widths : TruncateContent(widths, 4) = Panics

(***************************************************************************)
(* What one call yields (ServiceCalls).                                    *)
(***************************************************************************)

Calls == INSTANCE ServiceCalls WITH Blank <- " "

Object(ok, error) == [ok |-> ok, error |-> error]
Bodies == {Object(ok, error) : ok \in BOOLEAN, error \in {None, " ", "rate_limited", "not_visible"}}
          \cup {[name |-> "alerts", is_private |-> FALSE], [name |-> " ", is_private |-> TRUE]}
Answers ==
    {[reached |-> reached, read |-> read, status |-> status, form |-> form, body |-> body] :
        reached \in BOOLEAN, read \in BOOLEAN, status \in {200, 204, 302, 401, 404, 429, 503},
        form \in {"empty", "garbled", "json"}, body \in Bodies}
Sound(answer) == answer.reached /\ answer.read /\ answer.status \in 200..299

(* A call counts as done exactly when Slack was reached, answered with        *)
(* success, and did not say otherwise; that it said nothing at all counts,    *)
(* which is enough for a post but not for a look-up.                        *)
ASSUME SuccessIsToldApart ==
    \A answer \in Answers :
        LET refused == answer.form = "json" /\ answer.body \in {Object(FALSE, e) : e \in
                          {None, " ", "rate_limited", "not_visible"}}
        IN  /\ Calls!PostMessage(answer).ok <=>
                  Sound(answer) /\ answer.form # "garbled" /\ ~refused
            /\ Calls!LookupChannelInfo("C1", answer).ok <=>
                  Sound(answer) /\ answer.form = "json" /\ answer.body = [name |-> "alerts", is_private |-> FALSE]

(* The model is told to try again exactly when that may help: for esa.  For   *)
(* Slack, a rate limit that comes as a status is the model's own fault, while *)
(* the one that comes as a code is not.                                     *)
ASSUME TransientFailuresAreRetryable ==
    \A answer \in Answers :
        LET result == Calls!EsaGetPost(answer)
        IN  ~result.ok => (Calls!EsaSoftError(result).retryable <=>
                ~answer.reached \/ (answer.read /\ answer.status \in {429, 503}))
ASSUME RateLimitsAreToldApart ==
    \A answer \in Answers :
        LET result == Calls!Execute(answer)
        IN  ~result.ok /\ answer.reached /\ answer.read =>
              /\ answer.status = 429 => Calls!SlackSoftErrorKind(result) = "client_error"
              /\ result.code = "rate_limited" => Calls!SlackSoftErrorKind(result) = "temporary_error"

(* A search returns the messages that have a time, in their order, and asks   *)
(* nothing of Slack that Slack would refuse.                                *)
Hit(ts, content) == [message_ts |-> ts, content |-> content]
Hits == {Hit(ts, "text") : ts \in {"1.0", "2.0", " ", None}} \cup {Hit("3.0", " ")}
SearchAnswer(hits) == [reached |-> TRUE, read |-> TRUE, status |-> 200, form |-> "json",
                       body |-> [messages |-> hits, next_cursor |-> " "]]
ASSUME SearchKeepsWhatHasATime ==
    \A hits \in SeqOf(Hits, 3) :
        LET result == Calls!SearchSlackMessages("token", [query |-> "q"], SearchAnswer(hits))
            times == [i \in DOMAIN hits |-> hits[i].message_ts]
        IN  [i \in DOMAIN result.messages |-> result.messages[i].message_ts]
              = SelectSeq(times, LAMBDA ts : ts \notin {None, " "})
ASSUME SearchesAreValid ==
    \A token \in {None, " ", "token"}, query \in {" ", "q"}, limit \in {0, 1, 5, 6, 20},
       before \in {None, 1, 2}, after \in {None, 1, 2} :
        LET result == Calls!SearchSlackMessages(token,
                        [query |-> query, limit |-> limit, before |-> before, after |-> after],
                        SearchAnswer(<< >>))
        IN  "messages" \in DOMAIN result <=>
              /\ token = "token" /\ query = "q" /\ limit \in Calls!LimitSchema
              /\ before = 1 => after # 2

(* No download yields more than the limit, whatever length is announced, nor  *)
(* the page that asks to sign in.                                           *)
ASSUME DownloadsAreBounded ==
    \A answer \in Answers, length \in {None} \cup 0..2, size \in 0..2, html \in BOOLEAN :
        Calls!DownloadBytes("url", answer, length, size, 1, html).ok <=>
            Sound(answer) /\ size <= 1 /\ (length # None => length <= 1) /\ ~html

(***************************************************************************)
(* Web searches (WebSearch): three sources, a limit of two.                  *)
(***************************************************************************)

Web == INSTANCE WebSearch WITH
         MAX_QUERY_CHARS <- 2, MAX_SUMMARY_CHARS <- 3, MAX_CITATIONS <- 2

WebPage(title, url) == [title |-> title, url |-> url]
WebPages == {WebPage("a", "u1"), WebPage("b", "u1"), WebPage("c", "u2"), WebPage("d", "u3"), WebPage("e", "")}

(* Reference: the first two sources with URLs of their own.                  *)
FirstSources(sources) ==
    LET first == {i \in DOMAIN sources : /\ sources[i].url # ""
                                         /\ \A j \in 1..(i - 1) : sources[j].url # sources[i].url}
        order == SetToSortSeq(first, <)
    IN  [n \in 1..(IF Len(order) < 2 THEN Len(order) ELSE 2) |-> sources[order[n]]]

(* The three providers cite alike: the first sources, each of them once, and  *)
(* no more than the limit.                                                  *)
ASSUME ProvidersCiteAlike ==
    \A sources \in SeqOf(WebPages, 5) :
        LET annotations == [i \in DOMAIN sources |-> [type |-> "url_citation", source |-> sources[i]]]
            split == Len(sources) \div 2
            openai == <<[type |-> "web_search_call", content |-> << >>],
                        [type |-> "message", content |-> <<[text |-> 1, annotations |-> annotations]>>]>>
            anthropic == <<[type |-> "web_search_tool_result", error_code |-> None,
                            sources |-> SubSeq(sources, 1, split)],
                           [type |-> "text", text |-> 1, sources |-> SubSeq(sources, split + 1, Len(sources))]>>
            vertex == <<[texts |-> <<1>>, grounding |-> sources \o <<None>>]>>
            expected == FirstSources(sources)
        IN  /\ Web!OpenAiParse(openai).citations = expected
            /\ Web!AnthropicParse(anthropic).citations = expected
            /\ Web!VertexParse(vertex, FALSE).citations = expected

(* And they refuse the same queries, and hold no summary longer than the     *)
(* limit; a failure of the provider is told as one that may be tried again    *)
(* unless it was the query's fault, and only an answer that cannot be read    *)
(* fails the tool.                                                         *)
Statuses == {None, 200, 400, 429, 500}
ASSUME FailuresAreSoft ==
    \A query \in 0..3, status \in Statuses, json \in BOOLEAN, lengths \in SeqOf(1..2, 3) :
        LET message == [type |-> "message",
                        content |-> [i \in DOMAIN lengths |-> [text |-> lengths[i], annotations |-> << >>]]]
            openai == Web!OpenAiSearch(query, status, IF json THEN [output |-> <<message>>] ELSE None)
            blocks == [i \in DOMAIN lengths |-> [type |-> "text", text |-> lengths[i], sources |-> << >>]]
            anthropic == Web!AnthropicSearch(query, status, IF json THEN [content |-> blocks] ELSE None)
        IN  /\ openai = anthropic
            /\ openai.failed <=> query \notin 1..2 \/ (status = 200 /\ ~json)
            /\ ~openai.failed => (openai.soft = "temporary_error" <=> status \in {None, 500})
            /\ openai.summary_text <= 3
            /\ Web!ToolOutput(Web!BedrockSearch(query)) = None <=> query \notin 1..2

(* One search that failed within Anthropic's answer fails all of it, and a    *)
(* candidate of Vertex AI that says something is preferred to an empty one.   *)
ASSUME AnswersAreChosen ==
    /\ \A code \in {"query_too_long", "unavailable"}, text \in 0..3 :
          LET content == <<[type |-> "text", text |-> text, sources |-> << >>],
                           [type |-> "web_search_tool_result", error_code |-> code, sources |-> << >>]>>
          IN  Web!AnthropicParse(content) = Web!ClassifySearchToolError(code)
    /\ \A blocked \in BOOLEAN :
          /\ Web!VertexParse(<<[texts |-> << >>, grounding |-> None], [texts |-> <<2>>, grounding |-> None]>>,
                             blocked).summary_text = 2
          /\ Web!VertexSearch(1, None, << >>, blocked).soft # None <=> blocked
          /\ Web!VertexSearch(1, "PERMISSION_DENIED", << >>, blocked).soft = "client_error"
=============================================================================
