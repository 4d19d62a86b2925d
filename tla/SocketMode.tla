---------------------------- MODULE SocketMode ------------------------------
(***************************************************************************)
(* The WebSocket to Slack (runtime/socket_mode.rs): asking for an address,   *)
(* connecting, the pings that tell a dead connection from a silent one, and *)
(* connecting again, at once or after a backoff.  Time is in units of five   *)
(* seconds, and the loop that owns the connection is never late by a whole   *)
(* unit.  The far end (external) may close the connection, refuse it for     *)
(* good, or vanish without a word.                                          *)
(***************************************************************************)
EXTENDS Integers

CLIENT_PING_INTERVAL == 2

(* Mutant: a pong may take longer than the time to the next ping. *)
CLIENT_PONG_TIMEOUT_LENIENT == 3

CLIENT_PONG_TIMEOUT == 1

MaxBackoffExponent == 5  \* failures beyond it wait no longer

NoDeadline == -1

VARIABLES link,    \* what the client is at
          shutdown \* the watch channel: a signal to stop was caught

socketVars == <<link, shutdown>>

LinkState == {"off", "backoff", "requesting", "connecting", "open", "ended", "disabled"}

(* failures: consecutive_failures, as far as the backoff tells them apart.  *)
(* untilPing: to the next tick of ping_ticker; pongDue: to the deadline of   *)
(* the health state; alive: the far end is there.                            *)
Link == [state : LinkState, failures : 0..MaxBackoffExponent,
         untilPing : 0..CLIENT_PING_INTERVAL,
         pongDue : {NoDeadline} \cup (0..CLIENT_PONG_TIMEOUT), alive : BOOLEAN]

Off == [state |-> "off", failures |-> 0, untilPing |-> 0, pongDue |-> NoDeadline, alive |-> FALSE]

SocketInit == link = Off /\ shutdown = FALSE

(* The top of the loop of SocketModeClient::run. *)
NextRound(failures) ==
    [Off EXCEPT !.failures = failures,
                !.state = IF shutdown THEN "ended"
                          ELSE IF failures > 0 THEN "backoff" ELSE "requesting"]

OneMore(failures) == IF failures < MaxBackoffExponent THEN failures + 1 ELSE failures

Again == link' = NextRound(0) /\ UNCHANGED shutdown
AgainAfterFailure == link' = NextRound(OneMore(link.failures)) /\ UNCHANGED shutdown

StartClient == link' = NextRound(0)

(* The delay, 2^failures seconds, is over; a signal can cut it short. *)
BackoffEnds ==
    /\ link.state = "backoff"
    /\ link' = [link EXCEPT !.state = "requesting"]
    /\ UNCHANGED shutdown

(* apps.connections.open: an address, which ends the series of failures, or *)
(* none.                                                                    *)
RequestWssUrl ==
    /\ link.state = "requesting"
    /\ \/ link' = [link EXCEPT !.state = "connecting", !.failures = 0] /\ UNCHANGED shutdown
       \/ AgainAfterFailure

(* connect_async; the first tick of the ping ticker is due at once. *)
Connect ==
    /\ link.state = "connecting"
    /\ \/ link' = [link EXCEPT !.state = "open", !.alive = TRUE] /\ UNCHANGED shutdown
       \/ AgainAfterFailure

(* SocketHealthState::on_ping_sent: the deadline moves on with every ping. *)
OnPingSent(health) ==
    [health EXCEPT !.untilPing = CLIENT_PING_INTERVAL, !.pongDue = CLIENT_PONG_TIMEOUT]

SendPing ==
    /\ link.state = "open"
    /\ link.untilPing = 0
    /\ \/ link' = OnPingSent(link) /\ UNCHANGED shutdown
       \/ AgainAfterFailure

OnPongReceived ==
    /\ link.state = "open"
    /\ link.alive
    /\ link.pongDue # NoDeadline
    /\ link' = [link EXCEPT !.pongDue = NoDeadline]
    /\ UNCHANGED shutdown

PongTimeout ==
    /\ link.state = "open"
    /\ link.pongDue = 0
    /\ AgainAfterFailure

(* Five seconds go by, when neither timer is due. *)
Tick ==
    /\ link.state = "open"
    /\ link.untilPing > 0 /\ link.pongDue # 0
    /\ link' = [link EXCEPT !.untilPing = @ - 1,
                            !.pongDue = IF @ = NoDeadline THEN @ ELSE @ - 1]
    /\ UNCHANGED shutdown

(* A Close, the end of the stream, or a disconnect other than link_disabled. *)
SlackRefresh ==
    /\ link.state = "open" /\ link.alive
    /\ Again

(* A disconnect with the reason link_disabled ends the process. *)
LinkDisabled ==
    /\ link.state = "open" /\ link.alive
    /\ link' = [Off EXCEPT !.state = "disabled"]
    /\ UNCHANGED shutdown

(* An error of the WebSocket, or a text that is not JSON. *)
WebSocketError ==
    /\ link.state = "open"
    /\ AgainAfterFailure

(* External: nothing is heard of the far end any more. *)
PeerVanishes ==
    /\ link.state = "open" /\ link.alive
    /\ link' = [link EXCEPT !.alive = FALSE]
    /\ UNCHANGED shutdown

(* shutdown_signal; the client sees it where it waits for it as well. *)
ShutdownSignal ==
    /\ ~shutdown
    /\ shutdown' = TRUE
    /\ UNCHANGED link

SeeShutdown ==
    /\ link.state \in {"backoff", "open"}
    /\ shutdown
    /\ link' = [Off EXCEPT !.state = "ended"]
    /\ UNCHANGED shutdown

ClientStep ==
    \/ BackoffEnds \/ RequestWssUrl \/ Connect
    \/ SendPing \/ OnPongReceived \/ PongTimeout \/ Tick
    \/ SlackRefresh \/ LinkDisabled \/ WebSocketError \/ PeerVanishes
    \/ SeeShutdown

(* The loop runs: its timers fire and are served. *)
ClientFairness ==
    /\ WF_socketVars(BackoffEnds)
    /\ WF_socketVars(SendPing)
    /\ WF_socketVars(PongTimeout)
    /\ WF_socketVars(Tick)
=============================================================================
