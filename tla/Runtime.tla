------------------------------- MODULE Runtime ------------------------------
(***************************************************************************)
(* The life of the process (runtime/main.rs, app.rs, bootstrap/): the       *)
(* configuration is loaded, the parts are built from it, the workers and    *)
(* the scheduler start, and Slack is served, over HTTP or Socket Mode,      *)
(* until a signal or a failure ends it.  While it serves, one post is made  *)
(* and goes through the ingress.                                            *)
(***************************************************************************)
EXTENDS AppConfig, Ingress, SocketMode

CONSTANTS File,         \* configuration files the process may find
          Env           \* environments it may be started in

ASSUME RuntimeAssumption == File \subseteq FileConfigs /\ Env \subseteq Environment

VARIABLES phase,        \* how far the process is
          file, env,    \* what it loads, until it has
          config,       \* the settings, until the parts are built
          deps          \* the parts, from then on

startVars == <<phase, file, env, config, deps>>
vars == <<startVars, ingressVars, socketVars>>

Phase == {"loading", "bootstrapping", "ready", "serving", "stopped", "failed"}

(* auto_response: the patterns of each channel entry with a policy, or {}    *)
(* where there is no gate.                                                  *)
Deps == [mode : {"http", "socket"}, verifier : BOOLEAN, mention : SUBSET Pattern,
         actors : Opt(SlackAuthorizationActors), auto_response : SUBSET SUBSET Pattern,
         scheduler : BOOLEAN, channels : Seq(SlackChannelFileConfig)]

Init == /\ phase = "loading"
        /\ file \in File
        /\ env \in Env
        /\ config = None /\ deps = None
        /\ IngressInit
        /\ SocketInit

(***************************************************************************)
(* Startup.                                                                *)
(***************************************************************************)

Fail == /\ phase' = "failed"
        /\ file' = None /\ env' = None /\ config' = None
        /\ UNCHANGED <<deps, ingressVars, socketVars>>

(* load_app_config and init_json_logger: the file may not be there. *)
Load ==
    /\ phase = "loading"
    /\ LET result == LoadAppConfig(file, env)
       IN  \/ /\ result.ok
              /\ phase' = "bootstrapping"
              /\ config' = result.config
              /\ file' = None /\ env' = None
              /\ UNCHANGED <<deps, ingressVars, socketVars>>
           \/ Fail

(* bedrock_mantle_backend: lead and sub-agent speak the same API. *)
BackendBuilds(lead, subAgent) ==
    lead.provider = "bedrock_mantle" =>
        MantleFamily(lead.model) # None /\ MantleFamily(lead.model) = MantleFamily(subAgent.model)

(* create_auto_response_judge_port *)
JudgeBuilds(judge) ==
    judge # None /\ judge.provider = "bedrock_mantle" => MantleFamily(judge.model) # None

(* The patterns of each channel entry with the setting. *)
Names(channels, setting) ==
    {ToSet(channels[i].names) : i \in {k \in DOMAIN channels : channels[k][setting]}}

(* build_slack_auto_response_gate: a judge and a channel to judge for. *)
AutoResponseGate(c) ==
    IF c.judge = None THEN {} ELSE Names(c.channels, "auto_response")

(* build_objective_scheduler *)
BuildsScheduler(c) == c.objectives # << >> /\ c.work_state # None

(* The channels are kept for what is asked of the parts. *)
PartsOf(c) ==
    [mode |-> c.mode,
     verifier |-> c.mode = "http" /\ c.signing_secret,
     mention |-> UNION Names(c.channels, "mention"),
     actors |-> c.actors,
     auto_response |-> AutoResponseGate(c),
     scheduler |-> BuildsScheduler(c),
     channels |-> c.channels]

(* build_runtime_deps: any request or client may fail on the way. *)
BuildRuntimeDeps ==
    /\ phase = "bootstrapping"
    /\ \/ /\ BackendBuilds(config.lead, config.sub_agent)
          /\ JudgeBuilds(config.judge)
          /\ deps' = PartsOf(config)
          /\ phase' = "ready"
          /\ config' = None
          /\ UNCHANGED <<file, env, ingressVars, socketVars>>
       \/ Fail

(* The workers and the scheduler run.  run_http_server needs the verifier   *)
(* and the port; run_socket_mode just starts its client.                    *)
Serve ==
    /\ phase = "ready"
    /\ \/ /\ deps.mode = "http" => deps.verifier
          /\ phase' = "serving"
          /\ IF deps.mode = "socket" THEN StartClient ELSE UNCHANGED link
          /\ UNCHANGED <<file, env, config, deps, ingressVars, shutdown>>
       \/ deps.mode = "http" /\ Fail

(***************************************************************************)
(* Serving.                                                                *)
(***************************************************************************)

Serving == phase = "serving"

(* External: a post is made in Slack. *)
MakePost ==
    /\ Serving /\ ~shutdown
    /\ post = None
    /\ post' \in Posts
    /\ UNCHANGED <<startVars, handler, tasks, socketVars>>

(* handle_slack_events, behind verify_slack_signature_middleware: a request *)
(* that is older than five minutes is refused, and Slack sends it again;     *)
(* another is handled before it is answered.                                *)
ReceiveRequest(h) ==
    /\ Serving /\ deps.mode = "http" /\ ~shutdown
    /\ Undelivered(h)
    /\ StartHandler(deps, h) \/ DropEvent(h)
    /\ UNCHANGED <<startVars, socketVars>>

(* handle_text_message: an envelope is acknowledged, and then handled by a  *)
(* task of its own; if it cannot be acknowledged, the connection is given up.*)
ReceiveEnvelope(h) ==
    /\ Serving /\ link.state = "open" /\ link.alive
    /\ Undelivered(h)
    /\ \/ StartHandler(deps, h) /\ UNCHANGED socketVars
       \/ DropEvent(h) /\ AgainAfterFailure
    /\ UNCHANGED startVars

(* External: Slack waits three seconds for the answer to a request and then  *)
(* hangs up; the server lets go of the handler wherever it was.              *)
HangUp(h) ==
    /\ Serving /\ deps.mode = "http"
    /\ UnderWay(h)
    /\ DropEvent(h)
    /\ UNCHANGED <<startVars, socketVars>>

HandleStep(h) ==
    /\ Serving
    /\ Handle(deps, h)
    /\ UNCHANGED <<startVars, socketVars>>

SocketStep ==
    /\ Serving
    /\ ClientStep
    /\ UNCHANGED <<startVars, ingressVars>>

Signal ==
    /\ Serving
    /\ ShutdownSignal
    /\ UNCHANGED <<startVars, ingressVars>>

(* The server is left: over HTTP the requests under way are answered first,  *)
(* over Socket Mode the tasks under way are abandoned.                      *)
Stop ==
    /\ Serving
    /\ IF deps.mode = "http"
       THEN /\ shutdown /\ \A h \in Handler : ~UnderWay(h)
            /\ phase' = "stopped"
       ELSE /\ link.state \in {"ended", "disabled"}
            /\ phase' = IF link.state = "ended" THEN "stopped" ELSE "failed"
    /\ UNCHANGED <<file, env, config, deps, ingressVars, socketVars>>

Next == \/ Load \/ BuildRuntimeDeps \/ Serve
        \/ MakePost
        \/ \E h \in Handler : ReceiveRequest(h) \/ ReceiveEnvelope(h) \/ HangUp(h) \/ HandleStep(h)
        \/ SocketStep \/ Signal \/ Stop

Spec == Init /\ [][Next]_vars /\ ClientFairness

(***************************************************************************)
(* Properties.                                                             *)
(***************************************************************************)

(* Every part has its type: the file of its sections, the settings, the     *)
(* handlers and the link; a group that is looked up is one of the list.      *)
RuntimeTypeOK ==
    /\ phase \in Phase
    /\ file \in Opt(FileConfigs) /\ env \in Opt(Environment)
    /\ deps \in Opt(Deps)
    /\ link \in Link /\ shutdown \in BOOLEAN
    /\ post \in Opt(Posts) /\ tasks \subseteq Handler
    /\ \A h \in Handler :
          /\ handler[h].stage \in Stage
          /\ handler[h].stage = "group" => handler[h].group \in DOMAIN deps.actors.user_group_ids

(* Only the variables that settings in use name decide whether the process  *)
(* starts and with what: another connection's, judge's or mode's is never    *)
(* missed (github_connection.rs: "a connection that nothing selects never   *)
(* blocks startup").  And none of those in use is missing when it starts.    *)
OnlySelectedSecretsMatter ==
    phase = "loading" /\ Parses(file) =>
        LET result == LoadAppConfig(file, env)
        IN  /\ \A v \in EnvVar \ SelectedSecrets(file), value \in {"unset", "secret"} :
                  LoadAppConfig(file, [env EXCEPT ![v] = value]) = result
            /\ result.ok => \A v \in SelectedSecrets(file) : env[v] \in {"secret", "xapp"}

(* What is built is what was asked for: a scheduler for objectives, at most  *)
(* one of which, an enabled one, takes over unlinked work; a gate for auto   *)
(* responses wherever a channel asks for them; a verifier for HTTP, without  *)
(* which it would not serve; and a way to search the web.                    *)
BuiltAsConfigured ==
    [][phase = "bootstrapping" /\ phase' = "ready" =>
         LET takers == {i \in DOMAIN config.objectives : config.objectives[i].takes_unlinked_work}
         IN  /\ deps'.scheduler <=> config.objectives # << >>
             /\ Cardinality(takers) <= 1
             /\ \A i \in takers : config.objectives[i].enabled
             /\ deps'.auto_response # {} <=> AutoResponds(config.channels)
             /\ deps'.verifier <=> deps'.mode = "http"
             /\ config.web_search # None \/ SearchesNatively(config.lead)]_vars

(* A task is only queued for someone the settings let ask, in a public       *)
(* channel whose settings have such a message answered, and never for Reili *)
(* itself.                                                                  *)
TasksAreEntitled == \A h \in tasks : Entitled(deps, post, h[1])

(* A connection whose far end has vanished is given up, and another one is   *)
(* asked for, unless the process stops.                                     *)
DeadLinkIsReplaced ==
    (link.state = "open" /\ ~link.alive) ~> (link.state \in {"requesting", "ended"})

(* A post is not handled twice (slack_event_parser.rs:97).  Refuted: a post  *)
(* with a mention and a file comes as an app_mention and as a file_shared.   *)
HandledOnce == \A g, h \in tasks : g = h
=============================================================================
