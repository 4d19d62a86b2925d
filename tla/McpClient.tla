------------------------------ MODULE McpClient -----------------------------
(***************************************************************************)
(* Calls over MCP streamable HTTP (adapters/outbound/mcp_streamable_http.rs), *)
(* and the GitHub App token that those to GitHub share (github/app_token.rs, *)
(* github/github_mcp_client.rs).                                            *)
(*                                                                         *)
(* Every list or call is a session of its own: initialize, the initialized   *)
(* notification, the request, and the deletion of the session, each with a   *)
(* client that is authorized anew.  An exchange with a server is one step,   *)
(* whose time is spent before it; it may fail before or after the server      *)
(* has acted.  A caller is one future that awaits: the runs of two tasks,    *)
(* or two tool calls of one.                                                *)
(*                                                                         *)
(* External: the servers.  A session of theirs is open from an initialize    *)
(* they act on until a delete they act on; expiry on their side is left out. *)
(***************************************************************************)
EXTENDS Integers, FiniteSets

CONSTANTS
    Caller,
    REFRESH_SKEW,     \* REFRESH_SKEW_MINUTES
    FALLBACK,         \* minutes a token without a readable expiry is used for
    Lifetime,         \* lifetimes GitHub gives its tokens
    MaxNow,           \* bound: the clock stops here
    NoToken

ASSUME TokenAssumption ==
    /\ REFRESH_SKEW \in Nat
    /\ FALLBACK \in Nat
    /\ Lifetime \subseteq Nat
    /\ \A l \in Lifetime : REFRESH_SKEW < l /\ FALLBACK <= l
    /\ MaxNow \in Nat
    /\ NoToken \notin Nat

VARIABLES
    now,        \* minutes
    cached,     \* the provider's token, its expiry, and when to replace it; or NoToken
    holder,     \* who holds the provider's lock across a request for a token
    client,     \* the token of the HTTP client that is kept; or NoToken
    call,       \* what each caller does
    session,    \* the server has an open session of the caller's call
    fault       \* history: the steps of the call at which something went wrong

mcpVars == <<now, cached, holder, client, call, session, fault>>

Steps == {"none", "initialize", "notify", "request", "delete", "done"}
Results == {"none", "ok", "connection_failed", "other"}

(* A token is known by when it expires and when it was issued.              *)
Token == [issued : Nat, expires : Nat]

(* at: where in http_client() or after it; got: when the token was handed    *)
(* out (history); learnt: the session's id is known.                        *)
Idle == [step |-> "none", at |-> "none", github |-> FALSE, token |-> NoToken, got |-> 0,
         learnt |-> FALSE, result |-> "none"]

McpTypeOK ==
    /\ now \in 0..MaxNow
    /\ cached \in {NoToken} \cup [token : Token, refresh_at : Int]
    /\ holder \in Caller \cup {NoToken}
    /\ client \in {NoToken} \cup Token
    /\ call \in [Caller -> [step : Steps, at : {"none", "lock", "fetch", "client", "send"},
                            github : BOOLEAN, token : {NoToken} \cup Token, got : Nat,
                            learnt : BOOLEAN, result : Results]]
    /\ session \in [Caller -> BOOLEAN]
    /\ fault \in [Caller -> SUBSET Steps]

McpInit ==
    /\ now = 0
    /\ cached = NoToken
    /\ holder = NoToken
    /\ client = NoToken
    /\ call = [p \in Caller |-> Idle]
    /\ session = [p \in Caller |-> FALSE]
    /\ fault = [p \in Caller |-> {}]

(***************************************************************************)
(* A call moves on to a step, which starts with http_client(): a request for *)
(* the token at GitHub, a clone of the one client elsewhere.                *)
(***************************************************************************)

Unauthorized(c) == [c EXCEPT !.token = NoToken, !.got = 0]
Moved(c, step) ==
    [Unauthorized(c) EXCEPT !.step = step, !.at = IF c.github THEN "lock" ELSE "send"]
Ended(c, result) ==
    [Unauthorized(c) EXCEPT !.step = "done", !.at = "none", !.result = result]

(* The request is over: cleanup_session follows whatever its result, when    *)
(* there is a session.                                                     *)
AfterRequest(c, result) ==
    IF c.learnt THEN [Moved(c, "delete") EXCEPT !.result = result] ELSE Ended(c, result)

(* Mutant: only a request that succeeded is cleaned up after.               *)
StepFailedUncleaned(c, kind) ==
    CASE c.step \in {"initialize", "notify", "request"} -> Ended(c, kind)
      [] c.step = "delete" -> Ended(c, c.result)

(* An error of a step: `?` up to the end of the request, a log entry after.  *)
StepFailed(c, kind) ==
    CASE c.step \in {"initialize", "notify"} -> Ended(c, kind)
      [] c.step = "request" -> AfterRequest(c, kind)
      [] c.step = "delete" -> Ended(c, c.result)

(* list_tools or call_tool begins.                                          *)
StartCall(p, github) ==
    /\ call[p].step = "none"
    /\ call' = [call EXCEPT ![p] = Moved([Idle EXCEPT !.github = github], "initialize")]
    /\ UNCHANGED <<now, cached, holder, client, session, fault>>

(***************************************************************************)
(* GitHubAppTokenProvider::token.  The lock is held while a token is asked   *)
(* for: the others wait for it.                                             *)
(***************************************************************************)

(* Mutant: a token is used up to its last minute.                           *)
RefreshAtExpiry(expires) == expires

RefreshAt(expires) == expires - REFRESH_SKEW

HandOut(p, token) ==
    call' = [call EXCEPT ![p].at = "client", ![p].token = token, ![p].got = now]

Fresh == cached # NoToken /\ now < cached.refresh_at

TakeToken(p) ==
    /\ call[p].at = "lock"
    /\ holder = NoToken
    /\ \/ /\ Fresh
          /\ HandOut(p, cached.token)
          /\ UNCHANGED holder
       \/ /\ ~Fresh
          /\ holder' = p
          /\ call' = [call EXCEPT ![p].at = "fetch"]
    /\ UNCHANGED <<now, cached, client, session, fault>>

(* The answer: a token, whose expiry may be missing or unreadable.          *)
ReceiveToken(p, lifetime, readable) ==
    LET token == [issued |-> now, expires |-> now + lifetime]
    IN  /\ call[p].at = "fetch"
        /\ cached' = [token |-> token,
                      refresh_at |-> RefreshAt(IF readable THEN token.expires ELSE now + FALLBACK)]
        /\ holder' = NoToken
        /\ HandOut(p, token)
        /\ UNCHANGED <<now, client, session, fault>>

(* No answer is a failed connection; a refusal or an answer that cannot be    *)
(* read is any other error.  What is cached stays.                         *)
LoseToken(p, kind) ==
    /\ call[p].at = "fetch"
    /\ kind \in {"connection_failed", "other"}
    /\ holder' = NoToken
    /\ call' = [call EXCEPT ![p] = StepFailed(@, kind)]
    /\ fault' = [fault EXCEPT ![p] = @ \cup {call[p].step}]
    /\ UNCHANGED <<now, cached, client, session>>

(* GitHubAppInstallationAuth::http_client: the client that is kept, when it  *)
(* has this token, or a new one.                                           *)
KeptClient(token) == client = token

UseClient(p) ==
    LET used == IF KeptClient(call[p].token) THEN client ELSE call[p].token
    IN  /\ call[p].at = "client"
        /\ client' = used
        /\ call' = [call EXCEPT ![p].at = "send", ![p].token = used]
        /\ UNCHANGED <<now, cached, holder, session, fault>>

(***************************************************************************)
(* Exchanges.                                                              *)
(***************************************************************************)

(* initialize_session: the server opens a session, and usually names it.     *)
InitializeAnswered(p, named) ==
    /\ call[p].step = "initialize"
    /\ call[p].at = "send"
    /\ session' = [session EXCEPT ![p] = named]
    /\ call' = [call EXCEPT ![p] = [Moved(@, "notify") EXCEPT !.learnt = named]]
    /\ UNCHANGED <<now, cached, holder, client, fault>>

(* send_initialized_notification *)
NotifyAnswered(p) ==
    /\ call[p].step = "notify"
    /\ call[p].at = "send"
    /\ call' = [call EXCEPT ![p] = Moved(@, "request")]
    /\ UNCHANGED <<now, cached, holder, client, session, fault>>

(* list_tools_with_session, call_tool_with_session *)
RequestAnswered(p) ==
    /\ call[p].step = "request"
    /\ call[p].at = "send"
    /\ call' = [call EXCEPT ![p] = AfterRequest(@, "ok")]
    /\ UNCHANGED <<now, cached, holder, client, session, fault>>

(* cleanup_session *)
DeleteAnswered(p) ==
    /\ call[p].step = "delete"
    /\ call[p].at = "send"
    /\ session' = [session EXCEPT ![p] = FALSE]
    /\ call' = [call EXCEPT ![p] = Ended(@, @.result)]
    /\ UNCHANGED <<now, cached, holder, client, fault>>

(* The exchange fails: the transport, the answer's form, a JSON-RPC error, a  *)
(* stream that ends without the result, a result of another kind.  The       *)
(* server may have acted on it all the same.                               *)
ExchangeFailed(p, acted) ==
    /\ call[p].at = "send"
    /\ session' = [session EXCEPT ![p] =
                     CASE acted /\ call[p].step = "initialize" -> TRUE
                       [] acted /\ call[p].step = "delete" -> FALSE
                       [] OTHER -> @]
    /\ fault' = [fault EXCEPT ![p] = @ \cup {call[p].step}]
    /\ call' = [call EXCEPT ![p] = StepFailed(@, "other")]
    /\ UNCHANGED <<now, cached, holder, client>>

(* Nothing of a call survives it but the session its server may have: the    *)
(* model does not follow that any further.                                 *)
Forget(p) ==
    /\ call' = [call EXCEPT ![p] = Idle]
    /\ session' = [session EXCEPT ![p] = FALSE]
    /\ fault' = [fault EXCEPT ![p] = {}]

(* The caller takes the result.                                            *)
TakeResult(p) ==
    /\ call[p].step = "done"
    /\ Forget(p)
    /\ UNCHANGED <<now, cached, holder, client>>

(* The caller's future is dropped, wherever it waits: its task was cancelled, *)
(* its cycle ran out of time.                                              *)
DropCall(p) ==
    /\ Forget(p)
    /\ holder' = IF holder = p THEN NoToken ELSE holder
    /\ UNCHANGED <<now, cached, client>>

Tick ==
    /\ now < MaxNow
    /\ now' = now + 1
    /\ UNCHANGED <<cached, holder, client, call, session, fault>>

McpStep(p) ==
    \/ TakeToken(p)
    \/ \E lifetime \in Lifetime, readable \in BOOLEAN : ReceiveToken(p, lifetime, readable)
    \/ \E kind \in {"connection_failed", "other"} : LoseToken(p, kind)
    \/ UseClient(p)
    \/ \E named \in BOOLEAN : InitializeAnswered(p, named)
    \/ NotifyAnswered(p)
    \/ RequestAnswered(p)
    \/ DeleteAnswered(p)
    \/ \E acted \in BOOLEAN : ExchangeFailed(p, acted)

(***************************************************************************)
(* Properties.                                                             *)
(***************************************************************************)

(* A request to GitHub that is made within the skew of getting its client     *)
(* carries a token that has not expired, whichever caller fetched it and      *)
(* whichever client was kept in the meantime.                               *)
RequestsCarryLiveTokens ==
    \A p \in Caller :
        /\ call[p].at = "send" /\ call[p].github
        /\ now <= call[p].got + REFRESH_SKEW
        => now < call[p].token.expires

(* A call that comes to its end leaves its session open at the server only    *)
(* when an exchange about the session itself went wrong, be it the token for  *)
(* it: a request that fails does not leave its session behind.              *)
SessionsAreClosed ==
    \A p \in Caller :
        session[p] /\ call[p].step = "done"
        => fault[p] \cap {"initialize", "notify", "delete"} # {}
=============================================================================
