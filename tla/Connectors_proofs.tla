-------------------------- MODULE Connectors_proofs -------------------------
(***************************************************************************)
(* What holds of the connectors of any number of runs, for any lifetime of   *)
(* the tokens that TokenAssumption allows: requests to GitHub carry tokens    *)
(* that live, and a call closes the session it opened.                      *)
(*                                                                         *)
(* Both follow from one inductive invariant, which says of each call by       *)
(* itself what its token, its session and its mishaps have to do with how far *)
(* it has come, and of the cached token that it is replaced in time.         *)
(***************************************************************************)
EXTENDS Connectors, TLAPS

Exchanges == {"initialize", "notify", "request", "delete"}
SessionExchanges == {"initialize", "notify", "delete"}
CallType == [step : Steps, at : {"none", "lock", "fetch", "client", "send"},
             github : BOOLEAN, token : {NoToken} \cup Token, got : Nat,
             learnt : BOOLEAN, result : Results]

(* A call waits only for an exchange; from the moment it has a token to the   *)
(* request that carries it, the token outlives the skew; and a session that   *)
(* is open is known and will be deleted, unless something went wrong.        *)
Sound(c, open, failed) ==
    /\ c.at # "none" => c.step \in Exchanges
    /\ c.at = "client" \/ (c.at = "send" /\ c.github) =>
          /\ c.token \in Token
          /\ c.got + REFRESH_SKEW < c.token.expires
    /\ open => \/ c.learnt /\ c.step \in {"notify", "request", "delete"}
               \/ failed \cap SessionExchanges # {}

(* The cached token is replaced while it still outlives the skew.            *)
CacheSound ==
    cached # NoToken => cached.refresh_at + REFRESH_SKEW <= cached.token.expires

McpInv ==
    /\ McpTypeOK
    /\ CacheSound
    /\ \A p \in Caller : Sound(call[p], session[p], fault[p])

(***************************************************************************)
(* One call's step.                                                        *)
(***************************************************************************)

(* What the helpers that move a call on leave in its fields.                *)
LEMMA UnauthorizedFields ==
    ASSUME NEW c \in CallType
    PROVE  /\ Unauthorized(c) \in CallType
           /\ \A f \in {"step", "at", "github", "learnt", "result"} : Unauthorized(c)[f] = c[f]
BY DEF Unauthorized, CallType

LEMMA MovedFields ==
    ASSUME NEW c \in CallType, NEW step \in Steps
    PROVE  /\ Moved(c, step) \in CallType
           /\ Moved(c, step).step = step
           /\ Moved(c, step).at = IF c.github THEN "lock" ELSE "send"
           /\ Moved(c, step).github = c.github
           /\ Moved(c, step).learnt = c.learnt
<1> DEFINE u == Unauthorized(c)
<1>1. u \in CallType /\ u.github = c.github /\ u.learnt = c.learnt
  BY UnauthorizedFields
<1>2. Moved(c, step) = [u EXCEPT !.step = step, !.at = IF c.github THEN "lock" ELSE "send"]
  BY DEF Moved
<1> HIDE DEF u
<1> QED  BY <1>1, <1>2 DEF CallType

LEMMA EndedFields ==
    ASSUME NEW c \in CallType, NEW result \in Results
    PROVE  /\ Ended(c, result) \in CallType
           /\ Ended(c, result).step = "done"
           /\ Ended(c, result).at = "none"
<1> DEFINE u == Unauthorized(c)
<1>1. u \in CallType
  BY UnauthorizedFields
<1>2. Ended(c, result) = [u EXCEPT !.step = "done", !.at = "none", !.result = result]
  BY DEF Ended
<1> HIDE DEF u
<1> QED  BY <1>1, <1>2 DEF CallType, Steps

(* A call that has moved on waits for an exchange and has no token yet, so    *)
(* that only its session has to be accounted for; the same for its end.      *)
LEMMA MovedIsSound ==
    ASSUME NEW c \in CallType, NEW step \in Exchanges, NEW open, NEW failed,
           open => \/ c.learnt /\ step \in {"notify", "request", "delete"}
                   \/ failed \cap SessionExchanges # {}
    PROVE  Moved(c, step) \in CallType /\ Sound(Moved(c, step), open, failed)
<1>1. step \in Steps
  BY DEF Exchanges, Steps
<1> QED  BY <1>1, MovedFields DEF Sound

LEMMA EndedIsSound ==
    ASSUME NEW c \in CallType, NEW result \in Results, NEW open, NEW failed,
           open => failed \cap SessionExchanges # {}
    PROVE  Ended(c, result) \in CallType /\ Sound(Ended(c, result), open, failed)
BY EndedFields DEF Sound

(* The end of a request, whatever it yielded: with a session, its deletion.  *)
LEMMA AfterRequestIsSound ==
    ASSUME NEW c \in CallType, NEW result \in Results, NEW open, NEW failed,
           Sound(c, open, failed), c.step = "request"
    PROVE  AfterRequest(c, result) \in CallType /\ Sound(AfterRequest(c, result), open, failed)
<1>1. CASE c.learnt
  <2> DEFINE m == Moved(c, "delete")
  <2>1. m \in CallType /\ Sound(m, open, failed)
    BY <1>1, MovedIsSound DEF Exchanges
  <2>2. AfterRequest(c, result) = [m EXCEPT !.result = result]
    BY <1>1 DEF AfterRequest
  <2> HIDE DEF m
  <2> QED  BY <2>1, <2>2 DEF CallType, Sound
<1>2. CASE ~c.learnt
  BY <1>2, EndedIsSound DEF AfterRequest, Sound
<1> QED  BY <1>1, <1>2

(* What StepFailed makes of a call that waited for an exchange, with the     *)
(* exchange on record, is sound whatever the server made of it.             *)
LEMMA FailedStepIsSound ==
    ASSUME NEW c \in CallType, NEW open, NEW failed, NEW kind \in Results, NEW still_open,
           Sound(c, open, failed), c.at # "none",
           still_open => open \/ c.step = "initialize"
    PROVE  /\ StepFailed(c, kind) \in CallType
           /\ Sound(StepFailed(c, kind), still_open, failed \cup {c.step})
<1>1. c.result \in Results
  BY DEF CallType
<1>2. CASE c.step \in {"initialize", "notify"}
  <2>1. StepFailed(c, kind) = Ended(c, kind)
    BY <1>2 DEF StepFailed
  <2>2. (failed \cup {c.step}) \cap SessionExchanges # {}
    BY <1>2 DEF SessionExchanges
  <2> QED  BY <2>1, <2>2, EndedIsSound
<1>3. CASE c.step = "delete"
  <2>1. StepFailed(c, kind) = Ended(c, c.result)
    BY <1>3 DEF StepFailed
  <2>2. (failed \cup {c.step}) \cap SessionExchanges # {}
    BY <1>3 DEF SessionExchanges
  <2> QED  BY <1>1, <2>1, <2>2, EndedIsSound
<1>4. CASE c.step = "request"
  <2>1. StepFailed(c, kind) = AfterRequest(c, kind)
    BY <1>4 DEF StepFailed
  <2>2. Sound(c, still_open, failed \cup {c.step})
    BY <1>4 DEF Sound
  <2> QED  BY <1>4, <2>1, <2>2, AfterRequestIsSound
<1> QED  BY <1>2, <1>3, <1>4 DEF Sound, Exchanges

(* The invariant is kept by a step that replaces one call soundly and leaves  *)
(* the others with theirs.                                                 *)
LEMMA OtherCallsAreUntouched ==
    ASSUME McpInv, NEW p \in Caller, NEW c \in CallType,
           NEW open \in BOOLEAN, NEW failed \in SUBSET Steps,
           Sound(c, open, failed),
           call' = [call EXCEPT ![p] = c],
           session' = [session EXCEPT ![p] = open],
           fault' = [fault EXCEPT ![p] = failed]
    PROVE  /\ call' \in [Caller -> CallType]
           /\ session' \in [Caller -> BOOLEAN]
           /\ fault' \in [Caller -> SUBSET Steps]
           /\ \A q \in Caller : Sound(call'[q], session'[q], fault'[q])
<1>1. /\ call \in [Caller -> CallType]
      /\ session \in [Caller -> BOOLEAN]
      /\ fault \in [Caller -> SUBSET Steps]
  BY DEF McpInv, McpTypeOK, CallType
<1>2. ASSUME NEW q \in Caller
      PROVE  Sound(call'[q], session'[q], fault'[q])
  <2>1. CASE q = p
    BY <1>1, <2>1
  <2>2. CASE q # p
    <3>1. call'[q] = call[q] /\ session'[q] = session[q] /\ fault'[q] = fault[q]
      BY <1>1, <2>2
    <3> QED  BY <3>1 DEF McpInv
  <2> QED  BY <2>1, <2>2
<1> QED  BY <1>1, <1>2
(***************************************************************************)
(* The actions of McpClient.                                               *)
(***************************************************************************)

LEMMA McpInitInv == McpInit => McpInv
BY TokenAssumption DEF McpInit, McpInv, McpTypeOK, CacheSound, Sound, Idle, Steps, Results

LEMMA McpStutter == McpInv /\ UNCHANGED mcpVars => McpInv'
BY DEF mcpVars, McpInv, McpTypeOK, CacheSound

LEMMA TickInv == McpInv /\ Tick => McpInv'
BY TokenAssumption DEF Tick, McpInv, McpTypeOK, CacheSound

(* What becomes of one call, soundly, while the others stay as they are.      *)
Becomes(p, c, open, failed) ==
    /\ c \in CallType /\ open \in BOOLEAN /\ failed \in SUBSET Steps
    /\ Sound(c, open, failed)
    /\ call' = [call EXCEPT ![p] = c]
    /\ session' = [session EXCEPT ![p] = open]
    /\ fault' = [fault EXCEPT ![p] = failed]

(* What the provider and the client keep, and share.                        *)
SharedSound ==
    /\ cached \in {NoToken} \cup [token : Token, refresh_at : Int]
    /\ CacheSound
    /\ holder \in Caller \cup {NoToken}
    /\ client \in {NoToken} \cup Token

(* Of a step of one call it is enough to know these two.                    *)
LEMMA OneCallInv ==
    ASSUME McpInv, NEW p \in Caller, NEW c, NEW open, NEW failed,
           Becomes(p, c, open, failed), SharedSound', now' = now
    PROVE  McpInv'
<1>1. /\ call' \in [Caller -> CallType]
      /\ session' \in [Caller -> BOOLEAN]
      /\ fault' \in [Caller -> SUBSET Steps]
      /\ \A q \in Caller : Sound(call'[q], session'[q], fault'[q])
  BY OtherCallsAreUntouched DEF Becomes
<1>2. now' \in 0..MaxNow
  BY DEF McpInv, McpTypeOK
<1> QED  BY <1>1, <1>2 DEF McpInv, McpTypeOK, CallType, SharedSound

(* Where the call's session and faults are as they were.                    *)
LEMMA CallOnlyInv ==
    ASSUME McpInv, NEW p \in Caller, NEW c \in CallType,
           Sound(c, session[p], fault[p]),
           call' = [call EXCEPT ![p] = c],
           UNCHANGED <<now, session, fault>>,
           cached' \in {NoToken} \cup [token : Token, refresh_at : Int],
           CacheSound',
           holder' \in Caller \cup {NoToken},
           client' \in {NoToken} \cup Token
    PROVE  McpInv'
<1>1. session[p] \in BOOLEAN /\ fault[p] \in SUBSET Steps
  BY DEF McpInv, McpTypeOK
<1>2. /\ session' = [session EXCEPT ![p] = session[p]]
      /\ fault' = [fault EXCEPT ![p] = fault[p]]
  BY DEF McpInv, McpTypeOK
<1> DEFINE open == session[p]
           failed == fault[p]
<1>3. /\ open \in BOOLEAN /\ failed \in SUBSET Steps
      /\ Sound(c, open, failed)
      /\ session' = [session EXCEPT ![p] = open]
      /\ fault' = [fault EXCEPT ![p] = failed]
  BY <1>1, <1>2
<1>4. Becomes(p, c, open, failed) /\ SharedSound' /\ now' = now
  BY <1>3 DEF Becomes, SharedSound
<1> HIDE DEF open, failed
<1> QED  BY <1>4, OneCallInv

(* What the invariant says of one call, and of what is shared.               *)
LEMMA InvParts ==
    ASSUME McpInv, NEW p \in Caller
    PROVE  /\ call[p] \in CallType /\ session[p] \in BOOLEAN /\ fault[p] \in SUBSET Steps
           /\ Sound(call[p], session[p], fault[p])
           /\ cached \in {NoToken} \cup [token : Token, refresh_at : Int]
           /\ holder \in Caller \cup {NoToken}
           /\ client \in {NoToken} \cup Token
           /\ now \in Nat
BY TokenAssumption DEF McpInv, McpTypeOK, CallType

LEMMA StartCallInv ==
    ASSUME McpInv, NEW p \in Caller, NEW github \in BOOLEAN, StartCall(p, github)
    PROVE  McpInv'
<1> DEFINE i == [Idle EXCEPT !.github = github]
           c == Moved(i, "initialize")
<1>1. i \in CallType
  BY DEF Idle, CallType, Steps, Results
<1>2. session[p] => fault[p] \cap SessionExchanges # {}
  BY InvParts DEF StartCall, Sound
<1>3. c \in CallType /\ Sound(c, session[p], fault[p])
  BY <1>1, <1>2, MovedIsSound DEF Exchanges
<1>4. /\ call' = [call EXCEPT ![p] = c]
      /\ UNCHANGED <<now, cached, holder, client, session, fault>>
  BY DEF StartCall
<1>5. CacheSound'
  BY <1>4 DEF McpInv, CacheSound
<1> HIDE DEF c
<1> QED  BY <1>3, <1>4, <1>5, InvParts, CallOnlyInv

(* A token that is handed out outlives the skew.                            *)
LEMMA HandOutInv ==
    ASSUME McpInv, NEW p \in Caller, NEW token \in Token,
           call[p].at \in {"lock", "fetch"}, HandOut(p, token),
           now + REFRESH_SKEW < token.expires,
           UNCHANGED <<now, client, session, fault>>,
           cached' \in {NoToken} \cup [token : Token, refresh_at : Int],
           CacheSound',
           holder' \in Caller \cup {NoToken}
    PROVE  McpInv'
<1> DEFINE c == [call[p] EXCEPT !.at = "client", !.token = token, !.got = now]
<1>1. /\ call[p] \in CallType /\ Sound(call[p], session[p], fault[p])
      /\ now \in Nat /\ client \in {NoToken} \cup Token
  BY InvParts
<1>2. c \in CallType
  BY <1>1 DEF CallType
<1>3. /\ c.step = call[p].step /\ c.learnt = call[p].learnt
      /\ c.at = "client" /\ c.token = token /\ c.got = now
  BY <1>1 DEF CallType
<1> HIDE DEF c
<1>4. Sound(c, session[p], fault[p])
  BY <1>1, <1>3 DEF Sound
<1>5. call' = [call EXCEPT ![p] = c]
  BY DEF HandOut, c
<1> QED  BY <1>1, <1>2, <1>4, <1>5, CallOnlyInv

LEMMA TakeTokenInv ==
    ASSUME McpInv, NEW p \in Caller, TakeToken(p)
    PROVE  McpInv'
<1>1. /\ cached \in {NoToken} \cup [token : Token, refresh_at : Int]
      /\ holder \in Caller \cup {NoToken} /\ client \in {NoToken} \cup Token /\ now \in Nat
  BY InvParts
<1>2. CacheSound'
  BY DEF TakeToken, McpInv, CacheSound
<1>3. CASE Fresh /\ HandOut(p, cached.token) /\ UNCHANGED holder
  <2>1. cached \in [token : Token, refresh_at : Int]
    BY <1>1, <1>3 DEF Fresh
  <2>2. cached.token \in Token
    BY <2>1
  <2>3. now + REFRESH_SKEW < cached.token.expires
    BY <1>1, <1>3, <2>1, TokenAssumption DEF Fresh, McpInv, CacheSound, Token
  <2> QED  BY <1>1, <1>2, <1>3, <2>2, <2>3, HandOutInv DEF TakeToken
<1>4. CASE ~Fresh /\ holder' = p /\ call' = [call EXCEPT ![p].at = "fetch"]
  <2> DEFINE c == [call[p] EXCEPT !.at = "fetch"]
  <2>1. call[p] \in CallType /\ Sound(call[p], session[p], fault[p]) /\ call[p].at = "lock"
    BY InvParts DEF TakeToken
  <2>2. c \in CallType /\ Sound(c, session[p], fault[p])
    BY <2>1 DEF CallType, Sound
  <2>3. call' = [call EXCEPT ![p] = c]
    BY <1>4
  <2> HIDE DEF c
  <2> QED  BY <1>1, <1>2, <1>4, <2>2, <2>3, CallOnlyInv DEF TakeToken
<1> QED  BY <1>3, <1>4 DEF TakeToken

LEMMA ReceiveTokenInv ==
    ASSUME McpInv, NEW p \in Caller, NEW lifetime \in Lifetime, NEW readable \in BOOLEAN,
           ReceiveToken(p, lifetime, readable)
    PROVE  McpInv'
<1> DEFINE token == [issued |-> now, expires |-> now + lifetime]
           refresh_at == RefreshAt(IF readable THEN token.expires ELSE now + FALLBACK)
<1>1. now \in Nat /\ lifetime \in Nat /\ REFRESH_SKEW < lifetime /\ FALLBACK <= lifetime
      /\ REFRESH_SKEW \in Nat /\ FALLBACK \in Nat
  BY InvParts, TokenAssumption
<1>2. token \in Token /\ token.expires = now + lifetime
  BY <1>1 DEF Token
<1>3. refresh_at \in Int /\ refresh_at + REFRESH_SKEW <= now + lifetime
  BY <1>1 DEF RefreshAt
<1>4. /\ call[p].at = "fetch" /\ holder' = NoToken /\ HandOut(p, token)
      /\ cached' = [token |-> token, refresh_at |-> refresh_at]
      /\ UNCHANGED <<now, client, session, fault>>
  BY DEF ReceiveToken
<1> HIDE DEF token, refresh_at
<1>5. cached' \in [token : Token, refresh_at : Int] /\ CacheSound'
  BY <1>2, <1>3, <1>4 DEF CacheSound
<1> QED  BY <1>1, <1>2, <1>4, <1>5, HandOutInv

LEMMA LoseTokenInv ==
    ASSUME McpInv, NEW p \in Caller, NEW kind, LoseToken(p, kind)
    PROVE  McpInv'
<1> DEFINE c == StepFailed(call[p], kind)
           failed == fault[p] \cup {call[p].step}
<1>1. /\ call[p] \in CallType /\ session[p] \in BOOLEAN /\ fault[p] \in SUBSET Steps
      /\ Sound(call[p], session[p], fault[p]) /\ call[p].at = "fetch"
      /\ cached \in {NoToken} \cup [token : Token, refresh_at : Int]
      /\ client \in {NoToken} \cup Token /\ kind \in Results
  BY InvParts DEF LoseToken, Results
<1>2. c \in CallType /\ Sound(c, session[p], failed)
  BY <1>1, FailedStepIsSound
<1>3. failed \in SUBSET Steps
  BY <1>1 DEF CallType
<1>4. /\ call' = [call EXCEPT ![p] = c] /\ fault' = [fault EXCEPT ![p] = failed]
      /\ holder' = NoToken /\ UNCHANGED <<now, cached, client, session>>
  BY DEF LoseToken
<1> DEFINE open == session[p]
<1>5. /\ session' = [session EXCEPT ![p] = open]
      /\ CacheSound'
      /\ cached' \in {NoToken} \cup [token : Token, refresh_at : Int]
      /\ holder' \in Caller \cup {NoToken}
      /\ client' \in {NoToken} \cup Token
      /\ now' = now /\ open \in BOOLEAN
  BY <1>1, <1>4 DEF McpInv, McpTypeOK, CacheSound
<1>6. Sound(c, open, failed)
  BY <1>2
<1> HIDE DEF c, failed, open
<1>7. Becomes(p, c, open, failed) /\ SharedSound'
  BY <1>2, <1>3, <1>4, <1>5, <1>6 DEF Becomes, SharedSound
<1> QED  BY <1>5, <1>7, OneCallInv

LEMMA UseClientInv ==
    ASSUME McpInv, NEW p \in Caller, UseClient(p)
    PROVE  McpInv'
<1> DEFINE c == [call[p] EXCEPT !.at = "send", !.token = call[p].token]
<1>1. /\ call[p] \in CallType /\ Sound(call[p], session[p], fault[p]) /\ call[p].at = "client"
      /\ cached \in {NoToken} \cup [token : Token, refresh_at : Int]
      /\ holder \in Caller \cup {NoToken}
  BY InvParts DEF UseClient
<1>2. call[p].token \in Token
  BY <1>1 DEF Sound
<1>3. /\ client' = call[p].token /\ UNCHANGED <<now, cached, holder, session, fault>>
      /\ call' = [call EXCEPT ![p] = c]
  BY DEF UseClient, KeptClient
<1>4. c \in CallType /\ Sound(c, session[p], fault[p])
  BY <1>1 DEF CallType, Sound
<1>5. CacheSound'
  BY <1>3 DEF McpInv, CacheSound
<1> HIDE DEF c
<1> QED  BY <1>1, <1>2, <1>3, <1>4, <1>5, CallOnlyInv

LEMMA InitializeAnsweredInv ==
    ASSUME McpInv, NEW p \in Caller, NEW named \in BOOLEAN, InitializeAnswered(p, named)
    PROVE  McpInv'
<1> DEFINE m == Moved(call[p], "notify")
           c == [m EXCEPT !.learnt = named]
           failed == fault[p]
<1>1. call[p] \in CallType
  BY InvParts
<1>2. m \in CallType /\ Sound(m, FALSE, failed)
  BY <1>1, MovedIsSound DEF Exchanges
<1>3. m.step = "notify"
  BY <1>1, MovedFields DEF Steps
<1> HIDE DEF m
<1>4. c \in CallType /\ Sound(c, named, failed)
  BY <1>2, <1>3 DEF CallType, Sound
<1>5. call' = [call EXCEPT ![p] = c]
  BY DEF InitializeAnswered, m
<1>6. /\ session' = [session EXCEPT ![p] = named]
      /\ fault' = [fault EXCEPT ![p] = failed] /\ failed \in SUBSET Steps
      /\ now' = now
      /\ cached' \in {NoToken} \cup [token : Token, refresh_at : Int]
      /\ CacheSound'
      /\ holder' \in Caller \cup {NoToken}
      /\ client' \in {NoToken} \cup Token
  BY DEF InitializeAnswered, McpInv, McpTypeOK, CacheSound
<1> HIDE DEF c, failed
<1>7. Becomes(p, c, named, failed) /\ SharedSound'
  BY <1>4, <1>5, <1>6 DEF Becomes, SharedSound
<1> QED  BY <1>6, <1>7, OneCallInv

LEMMA NotifyAnsweredInv ==
    ASSUME McpInv, NEW p \in Caller, NotifyAnswered(p)
    PROVE  McpInv'
<1> DEFINE c == Moved(call[p], "request")
<1>1. call[p] \in CallType /\ Sound(call[p], session[p], fault[p]) /\ call[p].step = "notify"
  BY InvParts DEF NotifyAnswered
<1>2. c \in CallType /\ Sound(c, session[p], fault[p])
  BY <1>1, MovedIsSound DEF Exchanges, Sound
<1>3. /\ call' = [call EXCEPT ![p] = c]
      /\ UNCHANGED <<now, cached, holder, client, session, fault>>
  BY DEF NotifyAnswered
<1>4. CacheSound'
  BY <1>3 DEF McpInv, CacheSound
<1> HIDE DEF c
<1> QED  BY <1>2, <1>3, <1>4, InvParts, CallOnlyInv

LEMMA RequestAnsweredInv ==
    ASSUME McpInv, NEW p \in Caller, RequestAnswered(p)
    PROVE  McpInv'
<1> DEFINE c == AfterRequest(call[p], "ok")
<1>1. call[p] \in CallType /\ Sound(call[p], session[p], fault[p]) /\ call[p].step = "request"
  BY InvParts DEF RequestAnswered
<1>2. c \in CallType /\ Sound(c, session[p], fault[p])
  BY <1>1, AfterRequestIsSound DEF Results
<1>3. /\ call' = [call EXCEPT ![p] = c]
      /\ UNCHANGED <<now, cached, holder, client, session, fault>>
  BY DEF RequestAnswered
<1>4. CacheSound'
  BY <1>3 DEF McpInv, CacheSound
<1> HIDE DEF c
<1> QED  BY <1>2, <1>3, <1>4, InvParts, CallOnlyInv

LEMMA DeleteAnsweredInv ==
    ASSUME McpInv, NEW p \in Caller, DeleteAnswered(p)
    PROVE  McpInv'
<1> DEFINE c == Ended(call[p], call[p].result)
           failed == fault[p]
<1>1. call[p] \in CallType /\ call[p].result \in Results
  BY InvParts DEF CallType
<1>2. c \in CallType /\ Sound(c, FALSE, failed)
  BY <1>1, EndedIsSound
<1>3. /\ call' = [call EXCEPT ![p] = c]
      /\ session' = [session EXCEPT ![p] = FALSE]
      /\ fault' = [fault EXCEPT ![p] = failed] /\ failed \in SUBSET Steps
      /\ now' = now
      /\ cached' \in {NoToken} \cup [token : Token, refresh_at : Int]
      /\ CacheSound'
      /\ holder' \in Caller \cup {NoToken}
      /\ client' \in {NoToken} \cup Token
  BY DEF DeleteAnswered, McpInv, McpTypeOK, CacheSound
<1> HIDE DEF c, failed
<1>4. Becomes(p, c, FALSE, failed) /\ SharedSound'
  BY <1>2, <1>3 DEF Becomes, SharedSound
<1> QED  BY <1>3, <1>4, OneCallInv

LEMMA ExchangeFailedInv ==
    ASSUME McpInv, NEW p \in Caller, NEW acted \in BOOLEAN, ExchangeFailed(p, acted)
    PROVE  McpInv'
<1> DEFINE c == StepFailed(call[p], "other")
           failed == fault[p] \cup {call[p].step}
           open == CASE acted /\ call[p].step = "initialize" -> TRUE
                     [] acted /\ call[p].step = "delete" -> FALSE
                     [] OTHER -> session[p]
<1>1. /\ call[p] \in CallType /\ session[p] \in BOOLEAN /\ fault[p] \in SUBSET Steps
      /\ Sound(call[p], session[p], fault[p]) /\ call[p].at = "send"
  BY InvParts DEF ExchangeFailed
<1>2. open \in BOOLEAN /\ (open => session[p] \/ call[p].step = "initialize")
  BY <1>1
<1>3. failed \in SUBSET Steps
  BY <1>1 DEF CallType
<1>4. /\ call' = [call EXCEPT ![p] = c]
      /\ fault' = [fault EXCEPT ![p] = failed]
      /\ UNCHANGED <<now, cached, holder, client>>
  BY DEF ExchangeFailed
<1>5. session' = [session EXCEPT ![p] = open]
  BY DEF ExchangeFailed, McpInv, McpTypeOK
<1>6. /\ cached' \in {NoToken} \cup [token : Token, refresh_at : Int]
      /\ CacheSound'
      /\ holder' \in Caller \cup {NoToken}
      /\ client' \in {NoToken} \cup Token
      /\ now' = now
  BY <1>4 DEF McpInv, McpTypeOK, CacheSound
<1> HIDE DEF open
<1>7. c \in CallType /\ Sound(c, open, failed)
  BY <1>1, <1>2, FailedStepIsSound DEF Results
<1> HIDE DEF c, failed
<1>8. Becomes(p, c, open, failed) /\ SharedSound'
  BY <1>2, <1>3, <1>4, <1>5, <1>6, <1>7 DEF Becomes, SharedSound
<1> QED  BY <1>6, <1>8, OneCallInv

LEMMA ForgetInv ==
    ASSUME McpInv, NEW p \in Caller, Forget(p),
           UNCHANGED <<now, cached, client>>,
           holder' \in Caller \cup {NoToken}
    PROVE  McpInv'
<1>1. Idle \in CallType /\ Sound(Idle, FALSE, {})
  BY DEF Idle, CallType, Steps, Results, Sound
<1>2. /\ call' = [call EXCEPT ![p] = Idle]
      /\ session' = [session EXCEPT ![p] = FALSE]
      /\ fault' = [fault EXCEPT ![p] = {}]
  BY DEF Forget
<1>3. /\ cached' \in {NoToken} \cup [token : Token, refresh_at : Int]
      /\ CacheSound'
      /\ client' \in {NoToken} \cup Token
      /\ now' = now
  BY DEF McpInv, McpTypeOK, CacheSound
<1>4. Becomes(p, Idle, FALSE, {}) /\ SharedSound'
  BY <1>1, <1>2, <1>3 DEF Becomes, SharedSound
<1> QED  BY <1>3, <1>4, OneCallInv

LEMMA TakeResultInv ==
    ASSUME McpInv, NEW p \in Caller, TakeResult(p)
    PROVE  McpInv'
<1>1. holder' \in Caller \cup {NoToken}
  BY InvParts DEF TakeResult
<1> QED  BY <1>1, ForgetInv DEF TakeResult

LEMMA DropCallInv ==
    ASSUME McpInv, NEW p \in Caller, DropCall(p)
    PROVE  McpInv'
<1>1. holder' \in Caller \cup {NoToken}
  BY InvParts DEF DropCall
<1> QED  BY <1>1, ForgetInv DEF DropCall

LEMMA McpStepInv ==
    ASSUME McpInv, NEW p \in Caller, McpStep(p)
    PROVE  McpInv'
BY TakeTokenInv, ReceiveTokenInv, LoseTokenInv, UseClientInv, InitializeAnsweredInv,
   NotifyAnsweredInv, RequestAnsweredInv, DeleteAnsweredInv, ExchangeFailedInv DEF McpStep


(***************************************************************************)
(* What is forwarded stays in scope.                                       *)
(***************************************************************************)

(* A tool that a sub-agent was given is in its source's catalog.             *)
LEMMA ResolvedToolsAreAllowed ==
    ASSUME NEW listings, NEW source \in Source \ {"esa"}, NEW name,
           <<source, name>> \in ResolvedTools(listings, FALSE, {name}),
           source \in DOMAIN listings
    PROVE  name \in Allowlist(source) \cup (IF source = "github" THEN {READ_FILE} ELSE {})
<1>1. name \in CatalogEntries(source, listings[source])
  BY DEF ResolvedTools, SelectedFrom, Source
<1>2. CASE source = "github"
  BY <1>1, <1>2 DEF CatalogEntries
<1>3. CASE source \in {"datadog", "jira"}
  BY <1>1, <1>3 DEF CatalogEntries
<1> QED  BY <1>2, <1>3 DEF Source

(* The two lists of names that scope_policy.rs and tools.rs keep between them *)
(* name every tool that a sub-agent may be given.                           *)
LEMMA GitHubToolsAreScoped ==
    /\ GITHUB_SUB_AGENT_TOOLS \cup {READ_FILE} \subseteq
          SEARCH_QUERY_TOOL_NAMES \cup OWNER_SCOPED_TOOL_NAMES
    /\ SEARCH_QUERY_TOOL_NAMES \cap OWNER_SCOPED_TOOL_NAMES = {}
    /\ GET_FILE_CONTENTS \notin SEARCH_QUERY_TOOL_NAMES
BY DEF GITHUB_SUB_AGENT_TOOLS, SEARCH_QUERY_TOOL_NAMES, OWNER_SCOPED_TOOL_NAMES, READ_FILE,
   GET_FILE_CONTENTS

(* GithubScopePolicy lets a query pass only if it names the organization by   *)
(* org:, and no other account so; then GitHub looks where the query says, and *)
(* not everywhere.  What it names by user: or repo: comes on top.            *)
LEMMA ValidQueriesReachTheOrganization ==
    ASSUME NEW query, ValidateQuery(query)
    PROVE  /\ Organization \in Reach(query)
           /\ Reach(query) \subseteq {Organization} \cup Named(query, {"user", "repo"})
<1>1. Named(query, {"org"}) = {Organization}
  <2>1. Named(query, {"org"}) = ExtractOrgQualifiers(query)
    BY DEF Named, ExtractOrgQualifiers
  <2> QED  BY <2>1 DEF ValidateQuery, Organization
<1>2. Named(query, {"org", "user", "repo"}) =
        Named(query, {"org"}) \cup Named(query, {"user", "repo"})
  BY DEF Named
<1>3. Reach(query) = {Organization} \cup Named(query, {"user", "repo"})
  BY <1>1, <1>2 DEF Reach
<1> QED  BY <1>3

LEMMA GitHubCallsStayInScope ==
    ASSUME NEW name \in GITHUB_SUB_AGENT_TOOLS \cup {READ_FILE}, NEW args,
           GitHubCall(name, args) # None
    PROVE  InScope([source |-> "github", call |-> GitHubCall(name, args)])
<1>1. ValidateScope(name, args)
  BY DEF GitHubCall
<1>2. CASE name = READ_FILE
  <2> DEFINE sent == [query |-> None, owner |-> args.owner, cloudId |-> None]
  <2>1. GitHubCall(name, args) = [tool |-> GET_FILE_CONTENTS, args |-> sent]
    BY <1>1, <1>2 DEF GitHubCall
  <2>2. sent.owner # None /\ Lower[sent.owner] = Organization
    BY <1>1, <1>2 DEF ValidateScope, ValidateOwner, OWNER_SCOPED_TOOL_NAMES, Organization
  <2> HIDE DEF sent
  <2> QED  BY <2>1, <2>2, GitHubToolsAreScoped DEF InScope
<1>3. CASE name # READ_FILE
  <2>1. GitHubCall(name, args) = [tool |-> name, args |-> args]
    BY <1>1, <1>3 DEF GitHubCall
  <2>2. CASE name \in SEARCH_QUERY_TOOL_NAMES
    <3>1. ValidateQuery(args.query)
      BY <1>1, <2>2 DEF ValidateScope
    <3>2. /\ Organization \in Reach(args.query)
          /\ Reach(args.query) \subseteq
                {Organization} \cup Named(args.query, {"user", "repo"})
      BY <3>1, ValidQueriesReachTheOrganization
    <3> QED  BY <1>3, <2>1, <2>2, <3>2 DEF InScope
  <2>3. CASE name \notin SEARCH_QUERY_TOOL_NAMES
    <3>1. args.owner # None /\ Lower[args.owner] = Organization
      BY <1>1, <2>3, GitHubToolsAreScoped DEF ValidateScope, ValidateOwner, Organization
    <3> QED  BY <1>3, <2>1, <2>3, <3>1 DEF InScope
  <2> QED  BY <2>2, <2>3
<1> QED  BY <1>2, <1>3

LEMMA ForwardedCallsStayInScope ==
    ASSUME NEW listings, NEW source \in Source \ {"esa"}, NEW name, NEW args \in Arguments,
           source \in DOMAIN listings,
           <<source, name>> \in ResolvedTools(listings, FALSE, {name}),
           ForwardedCall(source, name, args) # None
    PROVE  InScope([source |-> source, call |-> ForwardedCall(source, name, args)])
<1>1. name \in Allowlist(source) \cup (IF source = "github" THEN {READ_FILE} ELSE {})
  BY ResolvedToolsAreAllowed
<1>2. CASE source = "github"
  <2>1. ForwardedCall(source, name, args) = GitHubCall(name, args)
    BY <1>2 DEF ForwardedCall
  <2>2. name \in GITHUB_SUB_AGENT_TOOLS \cup {READ_FILE}
    BY <1>1, <1>2 DEF Allowlist
  <2> QED  BY <1>2, <2>1, <2>2, GitHubCallsStayInScope
<1>3. CASE source = "jira"
  <2> DEFINE sent == [args EXCEPT !.cloudId = Site]
  <2>1. ForwardedCall(source, name, args) = [tool |-> name, args |-> sent]
    BY <1>3 DEF ForwardedCall, JiraCall
  <2>2. sent.cloudId = Site
    BY ArgumentsAssumption
  <2>3. name \in JIRA_SUB_AGENT_TOOLS
    BY <1>1, <1>3 DEF Allowlist
  <2> HIDE DEF sent
  <2> QED  BY <1>3, <2>1, <2>2, <2>3 DEF InScope
<1>4. CASE source = "datadog"
  <2>1. ForwardedCall(source, name, args) = [tool |-> name, args |-> args]
    BY <1>4 DEF ForwardedCall
  <2>2. name \in DATADOG_SUB_AGENT_TOOLS
    BY <1>1, <1>4 DEF Allowlist
  <2> QED  BY <1>4, <2>1, <2>2 DEF InScope
<1> QED  BY <1>2, <1>3, <1>4 DEF Source

(***************************************************************************)
(* The composition.                                                        *)
(***************************************************************************)

RunInv ==
    /\ phase \in [Caller -> Phases]
    /\ DOMAIN listed = Caller
    /\ \A p \in Caller : DOMAIN listed[p] \subseteq Source
    /\ DOMAIN asked = Caller
    /\ CallsStayInScope

ConnectorInv == McpInv /\ RunInv

LEMMA ConnectorInitInv == Init => ConnectorInv
<1> SUFFICES ASSUME Init PROVE ConnectorInv
  OBVIOUS
<1>1. McpInv
  BY McpInitInv DEF Init
<1>2. RunInv
  BY DEF Init, RunInv, CallsStayInScope, Phases
<1> QED  BY <1>1, <1>2 DEF ConnectorInv

(* What the invariant needs of a step of a run, besides the step of its call. *)
LEMMA PreparedStaysTyped ==
    ASSUME RunInv, NEW p \in Caller, NEW source \in Source, NEW listing,
           WithPrepared(p, source, listing)
    PROVE  DOMAIN listed' = Caller /\ \A q \in Caller : DOMAIN listed'[q] \subseteq Source
<1> DEFINE new == [s \in DOMAIN listed[p] \cup {source} |->
                      IF s = source THEN listing ELSE listed[p][s]]
<1>1. DOMAIN new \subseteq Source
  BY DEF RunInv
<1>2. listed' = [listed EXCEPT ![p] = new]
  BY DEF WithPrepared
<1> HIDE DEF new
<1> QED  BY <1>1, <1>2 DEF RunInv

LEMMA ReleasedStaysTyped ==
    ASSUME RunInv, NEW p \in Caller, Released(p)
    PROVE  DOMAIN listed' = Caller /\ \A q \in Caller : DOMAIN listed'[q] \subseteq Source
<1>1. DOMAIN << >> \subseteq Source
  OBVIOUS
<1> QED  BY <1>1 DEF RunInv, Released

LEMMA AnsweredStaysInScope ==
    ASSUME RunInv, NEW p \in Caller, asked' = [asked EXCEPT ![p] = None]
    PROVE  DOMAIN asked' = Caller /\ CallsStayInScope'
BY DEF RunInv, CallsStayInScope

LEMMA UnaskedStaysInScope ==
    ASSUME RunInv, UNCHANGED asked
    PROVE  DOMAIN asked' = Caller /\ CallsStayInScope'
BY DEF RunInv, CallsStayInScope

LEMMA RunStep ==
    ASSUME ConnectorInv, NEW p \in Caller,
           \/ StartRun(p) \/ Connect(p) \/ PrepareEsa(p) \/ ConnectSucceeds(p)
           \/ ConnectFails(p) \/ DatadogDiagnosed(p) \/ AllPrepared(p) \/ CallTool(p)
           \/ ToolReturns(p) \/ EndRun(p) \/ DropRun(p) \/ Progress(p)
    PROVE  ConnectorInv'
<1> USE DEF ConnectorInv
<1>1. ASSUME UNCHANGED runVars, McpInv'
      PROVE  ConnectorInv'
  BY <1>1 DEF runVars, RunInv, CallsStayInScope
<1>2. CASE StartRun(p)
  <2>1. McpInv'
    BY <1>2, McpStutter DEF StartRun
  <2>2. phase' \in [Caller -> Phases] /\ UNCHANGED <<listed, asked>>
    BY <1>2 DEF StartRun, RunInv, Phases
  <2> QED  BY <2>1, <2>2, UnaskedStaysInScope DEF RunInv
<1>3. CASE Connect(p)
  <2>1. PICK source \in Source \ {"esa"} : StartCall(p, source = "github")
    BY <1>3 DEF Connect
  <2>2. McpInv'
    BY <2>1, StartCallInv
  <2> QED  BY <1>1, <1>3, <2>2 DEF Connect
<1>4. CASE PrepareEsa(p)
  <2>1. McpInv' /\ UNCHANGED <<phase, asked>>
    BY <1>4, McpStutter DEF PrepareEsa
  <2>2. "esa" \in Source
    BY DEF Source
  <2>3. DOMAIN listed' = Caller /\ \A q \in Caller : DOMAIN listed'[q] \subseteq Source
    BY <1>4, <2>2, PreparedStaysTyped DEF PrepareEsa
  <2> QED  BY <2>1, <2>3, UnaskedStaysInScope DEF RunInv
<1>5. CASE ConnectSucceeds(p)
  <2>1. McpInv' /\ UNCHANGED asked
    BY <1>5, TakeResultInv DEF ConnectSucceeds
  <2>2. PICK source \in Source : \E listing \in Listings[source] :
           IF HasRequiredTools(source, listing)
           THEN WithPrepared(p, source, listing) /\ UNCHANGED phase
           ELSE phase' = [phase EXCEPT ![p] = "failed"] /\ Released(p)
    BY <1>5 DEF ConnectSucceeds
  <2>3. PICK listing \in Listings[source] :
           IF HasRequiredTools(source, listing)
           THEN WithPrepared(p, source, listing) /\ UNCHANGED phase
           ELSE phase' = [phase EXCEPT ![p] = "failed"] /\ Released(p)
    BY <2>2
  <2>4. phase' \in [Caller -> Phases]
    BY <2>3 DEF RunInv, Phases
  <2>5. DOMAIN listed' = Caller /\ \A q \in Caller : DOMAIN listed'[q] \subseteq Source
    BY <2>3, PreparedStaysTyped, ReleasedStaysTyped
  <2> QED  BY <2>1, <2>4, <2>5, UnaskedStaysInScope DEF RunInv
<1>6. CASE ConnectFails(p)
  <2>1. McpInv' /\ UNCHANGED asked
    BY <1>6, TakeResultInv DEF ConnectFails
  <2>2. phase' \in [Caller -> Phases]
    BY <1>6 DEF ConnectFails, PhaseAfterFailure, RunInv, Phases
  <2>3. DOMAIN listed' = Caller /\ \A q \in Caller : DOMAIN listed'[q] \subseteq Source
    BY <1>6, ReleasedStaysTyped DEF ConnectFails
  <2> QED  BY <2>1, <2>2, <2>3, UnaskedStaysInScope DEF RunInv
<1>7. CASE DatadogDiagnosed(p)
  <2>1. McpInv' /\ UNCHANGED <<listed, asked>>
    BY <1>7, McpStutter DEF DatadogDiagnosed
  <2>2. phase' \in [Caller -> Phases]
    BY <1>7 DEF DatadogDiagnosed, RunInv, Phases
  <2> QED  BY <2>1, <2>2, UnaskedStaysInScope DEF RunInv
<1>8. CASE AllPrepared(p)
  <2>1. McpInv' /\ UNCHANGED <<listed, asked>>
    BY <1>8, McpStutter DEF AllPrepared
  <2>2. phase' \in [Caller -> Phases]
    BY <1>8 DEF AllPrepared, RunInv, Phases
  <2> QED  BY <2>1, <2>2, UnaskedStaysInScope DEF RunInv
<1>9. CASE CallTool(p)
  <2>1. PICK source \in DOMAIN listed[p] \ {"esa"}, name \in ToolName, args \in Arguments :
           /\ <<source, name>> \in ResolvedTools(listed[p], FALSE, {name})
           /\ ForwardedCall(source, name, args) # None
           /\ asked' = [asked EXCEPT ![p] =
                           [source |-> source, call |-> ForwardedCall(source, name, args)]]
           /\ StartCall(p, source = "github")
    BY <1>9 DEF CallTool
  <2>2. source \in Source \ {"esa"}
    BY <2>1 DEF RunInv
  <2>3. McpInv'
    BY <2>1, StartCallInv
  <2> DEFINE request == [source |-> source, call |-> ForwardedCall(source, name, args)]
  <2>4. InScope(request)
    BY <2>1, <2>2, ForwardedCallsStayInScope
  <2>5. asked' = [asked EXCEPT ![p] = request]
    BY <2>1
  <2> HIDE DEF request
  <2>6. DOMAIN asked' = Caller /\ CallsStayInScope'
    BY <2>4, <2>5 DEF RunInv, CallsStayInScope, InScope
  <2>7. UNCHANGED <<phase, listed>>
    BY <1>9 DEF CallTool
  <2> QED  BY <2>3, <2>6, <2>7 DEF RunInv
<1>10. CASE ToolReturns(p)
  <2>1. McpInv' /\ UNCHANGED <<phase, listed>>
    BY <1>10, TakeResultInv DEF ToolReturns
  <2>2. DOMAIN asked' = Caller /\ CallsStayInScope'
    BY <1>10, AnsweredStaysInScope DEF ToolReturns
  <2> QED  BY <2>1, <2>2 DEF RunInv
<1>11. CASE EndRun(p)
  <2>1. McpInv' /\ UNCHANGED asked
    BY <1>11, McpStutter DEF EndRun
  <2>2. phase' \in [Caller -> Phases]
    BY <1>11 DEF EndRun, RunInv, Phases
  <2>3. DOMAIN listed' = Caller /\ \A q \in Caller : DOMAIN listed'[q] \subseteq Source
    BY <1>11, ReleasedStaysTyped DEF EndRun
  <2> QED  BY <2>1, <2>2, <2>3, UnaskedStaysInScope DEF RunInv
<1>12. CASE DropRun(p)
  <2>1. McpInv'
    BY <1>12, DropCallInv DEF DropRun
  <2>2. phase' \in [Caller -> Phases]
    BY <1>12 DEF DropRun, RunInv, Phases
  <2>3. DOMAIN listed' = Caller /\ \A q \in Caller : DOMAIN listed'[q] \subseteq Source
    BY <1>12, ReleasedStaysTyped DEF DropRun
  <2>4. DOMAIN asked' = Caller /\ CallsStayInScope'
    BY <1>12, AnsweredStaysInScope DEF DropRun
  <2> QED  BY <2>1, <2>2, <2>3, <2>4 DEF RunInv
<1>13. CASE Progress(p)
  BY <1>1, <1>13, McpStepInv DEF Progress
<1> QED  BY <1>2, <1>3, <1>4, <1>5, <1>6, <1>7, <1>8, <1>9, <1>10, <1>11, <1>12, <1>13

LEMMA ConnectorStepInv == ConnectorInv /\ [Next]_vars => ConnectorInv'
<1> SUFFICES ASSUME ConnectorInv, [Next]_vars PROVE ConnectorInv'
  OBVIOUS
<1>1. ASSUME UNCHANGED runVars, McpInv'
      PROVE  ConnectorInv'
  BY <1>1 DEF ConnectorInv, runVars, RunInv, CallsStayInScope
<1>2. CASE UNCHANGED vars
  BY <1>1, <1>2, McpStutter DEF vars, ConnectorInv
<1>3. CASE Tick /\ UNCHANGED runVars
  BY <1>1, <1>3, TickInv DEF ConnectorInv
<1>4. CASE \E p \in Caller :
           \/ StartRun(p) \/ Connect(p) \/ PrepareEsa(p) \/ ConnectSucceeds(p)
           \/ ConnectFails(p) \/ DatadogDiagnosed(p) \/ AllPrepared(p) \/ CallTool(p)
           \/ ToolReturns(p) \/ EndRun(p) \/ DropRun(p) \/ Progress(p)
  BY <1>4, RunStep
<1> QED  BY <1>2, <1>3, <1>4 DEF Next

(***************************************************************************)
(* The theorems.                                                           *)
(***************************************************************************)

(* A request to GitHub made within the skew of getting its client carries a   *)
(* token that lives: the provider of app_token.rs replaces tokens in time,    *)
(* whoever fetched them, for every number of runs and every clock.           *)
THEOREM GitHubTokensLive == Spec => []RequestsCarryLiveTokens
<1>1. ConnectorInv => RequestsCarryLiveTokens
  <2> SUFFICES ASSUME ConnectorInv, NEW p \in Caller,
                      call[p].at = "send", call[p].github,
                      now <= call[p].got + REFRESH_SKEW
               PROVE  now < call[p].token.expires
    BY DEF RequestsCarryLiveTokens
  <2>1. /\ call[p] \in CallType /\ Sound(call[p], session[p], fault[p]) /\ now \in Nat
    BY InvParts DEF ConnectorInv
  <2>2. call[p].token \in Token /\ call[p].got + REFRESH_SKEW < call[p].token.expires
    BY <2>1 DEF Sound
  <2>3. call[p].got \in Nat /\ call[p].token.expires \in Nat /\ REFRESH_SKEW \in Nat
    BY <2>1, <2>2, TokenAssumption DEF CallType, Token
  <2> QED  BY <2>1, <2>2, <2>3
<1> QED  BY <1>1, ConnectorInitInv, ConnectorStepInv, PTL DEF Spec

(* A call of mcp_streamable_http.rs that is over has closed its session,      *)
(* unless an exchange about the session itself failed.                      *)
THEOREM CallsCloseTheirSessions == Spec => []SessionsAreClosed
<1>1. ConnectorInv => SessionsAreClosed
  BY DEF ConnectorInv, McpInv, Sound, SessionsAreClosed, SessionExchanges
<1> QED  BY <1>1, ConnectorInitInv, ConnectorStepInv, PTL DEF Spec

(* No call of an agent (mcp/*/tools.rs) reaches a server that is not of a tool *)
(* of its allowlist; none asks JIRA for another site, or GitHub to read from   *)
(* another owner; and a search looks in the organization, and nowhere else     *)
(* than in accounts it names by user: or repo:.  For any listing, any tool     *)
(* name and any arguments a model may give.  That a search names no such       *)
(* account is not checked by the code, and not claimed here.                   *)
THEOREM ForwardedCallsAreInScope == Spec => []CallsStayInScope
<1>1. ConnectorInv => CallsStayInScope
  BY DEF ConnectorInv, RunInv
<1> QED  BY <1>1, ConnectorInitInv, ConnectorStepInv, PTL DEF Spec
=============================================================================
