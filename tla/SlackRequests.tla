---------------------------- MODULE SlackRequests ---------------------------
(***************************************************************************)
(* What the HTTP endpoint makes of a request before a handler sees it        *)
(* (runtime/app.rs): its signature                                         *)
(* (inbound/slack/slack_signature_verifier.rs) and the click that a request   *)
(* for an interaction carries (slack_interaction_parser.rs, of Socket Mode     *)
(* too).  And what the judge of a post is taken to have said                 *)
(* (outbound/auto_response_judge.rs).                                       *)
(***************************************************************************)
EXTENDS Integers, Sequences, SequencesExt

CONSTANTS None,
          SigningSecret,           \* the signing secret
          MaxAge,                  \* allowed_timestamp_age_seconds
          MAX_REQUEST_BODY_BYTES,
          Hmac                     \* Hmac[<<secret, timestamp, body>>]: a sequence of bytes

Ok == 200
BadRequest == 400
Unauthorized == 401

(***************************************************************************)
(* Signatures.                                                             *)
(***************************************************************************)

(* A header is None or a text; the empty one is refused like a missing one.   *)
ReadRequiredHeader(header) == IF header = << >> THEN None ELSE header

(* decode_hex, of digits 0..15: two to a byte, and anything else is no digit. *)
DecodeHex(digits) ==
    IF Len(digits) % 2 = 1 \/ \E i \in DOMAIN digits : digits[i] \notin 0..15 THEN None
    ELSE [b \in 1..(Len(digits) \div 2) |-> 16 * digits[2 * b - 1] + digits[2 * b]]

(* parse_signature_header: the version stands before the digits. *)
ParseSignature(signature) ==
    IF signature[1] # "v0=" THEN None ELSE DecodeHex(Tail(signature))

Abs(n) == IF n < 0 THEN -n ELSE n

(* verify_with_timestamp: a timestamp is <<its number>>, <<None>> when it is no   *)
(* number; it may be as far ahead of the clock as behind it.                *)
Verify(request, now) ==
    LET timestamp == ReadRequiredHeader(request.timestamp)
        signature == ReadRequiredHeader(request.signature)
    IN  /\ timestamp # None /\ signature # None
        /\ ParseSignature(signature) # None
        /\ timestamp[1] # None
        /\ Abs(now - timestamp[1]) <= MaxAge
        /\ ParseSignature(signature) = Hmac[<<SigningSecret, timestamp[1], request.body>>]

(* verify_slack_signature_middleware: None when the handler is next. *)
Refusal(request, now) ==
    CASE request.bytes > MAX_REQUEST_BODY_BYTES -> BadRequest
      [] request.bytes <= MAX_REQUEST_BODY_BYTES /\ ~Verify(request, now) -> Unauthorized
      [] OTHER -> None

(***************************************************************************)
(* Interactions.                                                           *)
(***************************************************************************)

(* Of the actions of a click the first that cancels a task counts.  An action *)
(* to cancel without a value fails the whole payload.                       *)
CancelActions(actions) == SelectSeq(actions, LAMBDA action : action.action_id = "cancel_task")

IsWellformed(payload) ==
    payload.type = "block_actions" =>
        /\ payload.user # None /\ payload.channel # None /\ payload.ts # None /\ payload.actions # None
        /\ \A i \in DOMAIN CancelActions(payload.actions) :
              CancelActions(payload.actions)[i].value # None

(* From<SlackBlockActionsPayload>: a click on a message outside of a thread    *)
(* belongs to the thread of that message.  None: the payload is ignored.      *)
ParseInteraction(payload) ==
    IF payload.type # "block_actions" \/ CancelActions(payload.actions) = << >> THEN None
    ELSE [job_id |-> CancelActions(payload.actions)[1].value,
          user_id |-> payload.user, channel |-> payload.channel, message_ts |-> payload.ts,
          thread_ts |-> IF payload.thread_ts = None THEN payload.ts ELSE payload.thread_ts]

(* handle_slack_interactions: the click is handled beside the answer.  clicks: *)
(* what is spawned.                                                        *)
HandleInteraction(payload) ==
    IF ~IsWellformed(payload) THEN [status |-> BadRequest, clicks |-> {}]
    ELSE [status |-> Ok, clicks |-> {ParseInteraction(payload)} \ {None}]

(* "interactive" of handle_text_message: the envelope is acknowledged before   *)
(* the payload is looked at.                                               *)
HandleSocketInteraction(payload) ==
    [status |-> Ok, clicks |-> HandleInteraction(payload).clicks]

(***************************************************************************)
(* The judge.                                                              *)
(***************************************************************************)

(* AutoResponseJudgeAdapter::judge: None is an error.  An answer that is no      *)
(* decision counts as one not to respond.                                   *)
Judged(result) ==
    CASE result.kind = "decision" ->
            [respond |-> result.respond, reason |-> IF result.reason = << >> THEN None ELSE result.reason]
      [] result.kind = "completion_error" -> None
      [] OTHER -> [respond |-> FALSE, reason |-> None]
=============================================================================
