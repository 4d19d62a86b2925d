---------------------------- MODULE ServiceCalls ----------------------------
(***************************************************************************)
(* What one call of a service yields for each answer of the service: the    *)
(* Slack Web API client and its adapters, the esa client, the request for a  *)
(* GitHub installation token, and the soft errors that a model is told       *)
(* instead of a failure.                                                   *)
(*                                                                         *)
(* A text is None, Blank (nothing but whitespace) or another string.  An     *)
(* answer is [reached, read, status, form, body]: whether the service was    *)
(* reached and its answer read to the end, the HTTP status, and the body,    *)
(* which may be "empty", "garbled" or "json".  A JSON object has only the    *)
(* fields that the service sent.                                           *)
(***************************************************************************)
EXTENDS Integers, Sequences, TLC

CONSTANTS None, Blank

Trimmed(text) == IF text = Blank THEN None ELSE text

(* A field that may be missing, with a default. *)
FieldOr(object, field, default) == IF field \in DOMAIN object THEN object[field] ELSE default

(***************************************************************************)
(* PortError (core/error/port_error.rs) and results.                        *)
(***************************************************************************)

Error(kind) == [ok |-> FALSE, kind |-> kind, status |-> None, code |-> None]
HttpStatus(status) == [Error("HttpStatus") EXCEPT !.status = status]
ServiceError(code) == [Error("ServiceError") EXCEPT !.code = code]
Ok(value) == [ok |-> TRUE, value |-> value]

IsClientError(error) == error.kind = "HttpStatus" /\ error.status \in 400..499

(* Every client tells a service that is not reached from an answer that is   *)
(* not read and from one that is not a success, in this order.              *)
Received(answer) ==
    IF ~answer.reached THEN Error("ConnectionFailed")
    ELSE IF ~answer.read THEN Error("InvalidResponse")
    ELSE IF answer.status \notin 200..299 THEN HttpStatus(answer.status)
    ELSE Ok(answer.body)

(* An object that lacks a field the code needs is not parsed; nor is null.    *)
ParsedAs(result, required) ==
    IF result.ok /\ (result.value = None \/ ~(required \subseteq DOMAIN result.value))
    THEN Error("InvalidResponse") ELSE result

(***************************************************************************)
(* SlackWebApiClient.                                                      *)
(***************************************************************************)

NewClientIsValid(baseUrl, token) == Trimmed(baseUrl) # None /\ Trimmed(token) # None

(* SlackApiEnvelope::error_code *)
ErrorCode(body) ==
    LET code == Trimmed(FieldOr(body, "error", None))
    IN  IF code = None THEN "unknown_error" ELSE code

(* execute: an empty body is null, and a body without "ok" is a success.      *)
Execute(answer) ==
    LET received == Received(answer)
    IN  IF ~received.ok THEN received
        ELSE IF answer.form = "empty" THEN Ok(None)
        ELSE IF answer.form = "garbled" THEN Error("InvalidResponse")
        ELSE IF FieldOr(answer.body, "ok", None) = FALSE THEN ServiceError(ErrorCode(answer.body))
        ELSE received

(* download_raw: the length that is announced is looked at before the body   *)
(* is read, the length that came after it.  length is None when unannounced. *)
DownloadRaw(url, answer, length, size, maxBytes) ==
    IF Trimmed(url) = None THEN Error("InvalidInput")
    ELSE IF answer.reached /\ answer.status \in 200..299 /\ length # None /\ length > maxBytes
    THEN Error("InvalidResponse")
    ELSE IF Received(answer).ok /\ size > maxBytes THEN Error("InvalidResponse")
    ELSE Received(answer)

(* download_bytes: Slack answers with its sign-in page when access is denied. *)
DownloadBytes(url, answer, length, size, maxBytes, html) ==
    LET result == DownloadRaw(url, answer, length, size, maxBytes)
    IN  IF result.ok /\ html THEN Error("InvalidResponse") ELSE result

(***************************************************************************)
(* Slack adapters.                                                         *)
(***************************************************************************)

(* A post, a reaction, an ephemeral message: the answer is not looked at.    *)
PostMessage(answer) ==
    IF Execute(answer).ok THEN Ok(None) ELSE Execute(answer)

LookupChannelInfo(channel, answer) ==
    LET parsed == ParsedAs(Execute(answer), {"name", "is_private"})
    IN  IF Trimmed(channel) = None THEN Error("InvalidInput")
        ELSE IF parsed.ok /\ Trimmed(parsed.value.name) = None THEN Error("InvalidResponse")
        ELSE parsed

ListUserGroupMembers(group, answer) ==
    LET parsed == ParsedAs(Execute(answer), {"users"})
        IsNamed(user) == Trimmed(user) # None
    IN  IF Trimmed(group) = None THEN Error("InvalidInput")
        ELSE IF ~parsed.ok THEN parsed
        ELSE Ok(SelectSeq(parsed.value.users, IsNamed))

MAX_SEARCH_RESULTS == 20

(* validate_input *)
SearchInputIsValid(input) ==
    /\ Trimmed(input.query) # None
    /\ Trimmed(input.action_token) # None
    /\ input.limit \in 1..MAX_SEARCH_RESULTS
    /\ input.after # None /\ input.before # None => input.after <= input.before

(* map_context_message, map_message_result: what has no time is dropped.     *)
ContextMessages(messages) ==
    LET HasTime(message) == Trimmed(FieldOr(message, "ts", None)) # None
        kept == SelectSeq(messages, HasTime)
    IN  [i \in DOMAIN kept |->
            [ts |-> kept[i].ts, user_id |-> Trimmed(FieldOr(kept[i], "user_id", None)),
             text |-> Trimmed(FieldOr(kept[i], "text", None))]]

MessageResults(messages) ==
    LET HasTime(message) == Trimmed(FieldOr(message, "message_ts", None)) # None
        kept == SelectSeq(messages, HasTime)
    IN  [i \in DOMAIN kept |->
            [message_ts |-> kept[i].message_ts,
             content |-> Trimmed(FieldOr(kept[i], "content", None)),
             is_author_bot |-> FieldOr(kept[i], "is_author_bot", FALSE),
             before |-> ContextMessages(FieldOr(kept[i], "before", << >>)),
             after |-> ContextMessages(FieldOr(kept[i], "after", << >>))]]

SearchMessages(input, answer) ==
    LET parsed == ParsedAs(Execute(answer), {})
    IN  IF ~SearchInputIsValid(input) THEN Error("InvalidInput")
        ELSE IF ~parsed.ok THEN parsed
        ELSE Ok([messages |-> MessageResults(FieldOr(parsed.value, "messages", << >>)),
                 next_cursor |-> Trimmed(FieldOr(parsed.value, "next_cursor", None))])

(* to_slack_tool_soft_error *)
CapabilityCodes ==
    {"assistant_search_context_disabled", "feature_not_enabled", "missing_scope", "no_permission",
     "not_allowed_token_type", "enterprise_is_restricted", "access_denied",
     "team_access_not_granted", "not_visible", "file_not_found"}
SlackSoftErrorKind(error) ==
    IF error.kind = "InvalidInput" \/ IsClientError(error) THEN "client_error"
    ELSE IF error.code \in CapabilityCodes THEN "capability_unavailable"
    ELSE "temporary_error"

(* What the tool's schema asks for; the defaults of its arguments.            *)
LimitSchema == 1..5
SearchSlackMessagesArgs(args) ==
    [query |-> args.query, limit |-> FieldOr(args, "limit", 5),
     before |-> FieldOr(args, "before", None), after |-> FieldOr(args, "after", None)]

(* SearchSlackMessagesTool::call: the tool's own limit, and the token that     *)
(* the event may have lacked.  The call itself never fails.                 *)
SearchSlackMessages(token, args, answer) ==
    LET defaulted == SearchSlackMessagesArgs(args)
        result == SearchMessages(defaulted @@ [action_token |-> token], answer)
    IN  IF defaulted.limit = 0 \/ defaulted.limit > 5 THEN [soft |-> "client_error"]
        ELSE IF Trimmed(token) = None THEN [soft |-> "capability_unavailable"]
        ELSE IF ~result.ok THEN [soft |-> SlackSoftErrorKind(result)]
        ELSE result.value

(***************************************************************************)
(* esa and GitHub.                                                         *)
(***************************************************************************)

(* A JSON body is parsed as what is expected, and nothing else is.            *)
JsonOf(answer, required) ==
    IF ~Received(answer).ok THEN Received(answer)
    ELSE IF answer.form # "json" THEN Error("InvalidResponse")
    ELSE ParsedAs(Received(answer), required)

(* From<EsaPostDto>: blank texts that may be missing are none.               *)
EsaPost(dto) ==
    [number |-> FieldOr(dto, "number", 0), wip |-> FieldOr(dto, "wip", FALSE),
     tags |-> FieldOr(dto, "tags", << >>)]
    @@ [field \in {"url", "category", "created_at", "updated_at"} |->
          Trimmed(FieldOr(dto, field, None))]

EsaSearchResult(body) ==
    LET posts == FieldOr(body, "posts", << >>)
    IN  [posts |-> [i \in DOMAIN posts |-> EsaPost(posts[i])],
         prev_page |-> FieldOr(body, "prev_page", None),
         next_page |-> FieldOr(body, "next_page", None),
         total_count |-> FieldOr(body, "total_count", 0)]

EsaSearchPosts(answer) ==
    LET parsed == JsonOf(answer, {})
    IN  IF parsed.ok THEN Ok(EsaSearchResult(parsed.value)) ELSE parsed

EsaGetPost(answer) ==
    LET parsed == JsonOf(answer, {})
    IN  IF parsed.ok THEN Ok(EsaPost(parsed.value)) ELSE parsed

(* to_esa_tool_soft_error *)
EsaSoftError(error) ==
    LET Soft(type, retryable) == [error_type |-> type, retryable |-> retryable]
    IN  IF error.kind = "HttpStatus"
        THEN CASE error.status \in {401, 403} -> Soft("authorization_error", FALSE)
               [] error.status = 404 -> Soft("not_found", FALSE)
               [] error.status = 429 -> Soft("rate_limited", TRUE)
               [] error.status >= 500 -> Soft("upstream_error", TRUE)
               [] error.status \in (400..499) \ {401, 403, 404, 429} -> Soft("request_error", FALSE)
               [] error.status < 400 -> Soft("tool_error", FALSE)
        ELSE CASE error.kind = "InvalidInput" -> Soft("invalid_input", FALSE)
               [] error.kind = "ConnectionFailed" -> Soft("temporary_error", TRUE)
               [] error.kind \notin {"InvalidInput", "ConnectionFailed"} -> Soft("tool_error", FALSE)

(* SearchPostsTool: the page and its size go to esa as they are.              *)
SearchPostsArgs(args) ==
    [q |-> Trimmed(args.q), page |-> FieldOr(args, "page", 1),
     per_page |-> FieldOr(args, "per_page", 5), sort |-> FieldOr(args, "sort", "best_match"),
     order |-> FieldOr(args, "order", "desc")]

SearchPosts(answer) ==
    LET result == EsaSearchPosts(answer)
    IN  IF result.ok THEN result.value ELSE EsaSoftError(result)

GetPost(answer) ==
    LET result == EsaGetPost(answer)
    IN  IF result.ok THEN result.value ELSE EsaSoftError(result)

(* GitHubAppTokenProvider::request: a token without an expiry that can be     *)
(* read expires after the fallback.                                         *)
RequestToken(answer, now, fallback) ==
    LET parsed == JsonOf(answer, {"token"})
        expires == FieldOr(parsed.value, "expires_at", None)
    IN  IF ~parsed.ok THEN parsed
        ELSE Ok([token |-> parsed.value.token,
                 expires |-> IF expires = None THEN now + fallback ELSE expires])
=============================================================================
