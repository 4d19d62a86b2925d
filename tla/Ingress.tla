------------------------------ MODULE Ingress -------------------------------
(***************************************************************************)
(* What becomes of a post in Slack on its way to a task: the events Slack   *)
(* sends for it (external), their parsing (inbound/slack/                   *)
(* slack_event_parser.rs), the message of a shared file                     *)
(* (slack_file_shared_message_adapter.rs), the router and the two gates     *)
(* (application/ingress/router.rs, authorization.rs, auto_response.rs), and *)
(* the handler that queues the task (enqueue.rs).  Every await is a step;    *)
(* a gate is given deps, what bootstrap made of the settings.               *)
(***************************************************************************)
EXTENDS FileConfig

CONSTANTS Bot,          \* the user that Reili posts as
          Channel,
          ChannelName,  \* ChannelName[c]: the name of channel c, as a sequence
          Private,      \* the private channels
          Members,      \* Members[g]: the members of user group g
          Posts,        \* posts that are made
          MaxRepeats,   \* bound: deliveries of one event
          MaxDeliveries \* bound: deliveries of all events of a post

Kind == {"message", "app_mention", "file_shared"}
Handler == Kind \X (1..MaxRepeats)

(* author: None when Slack names no user, as for the posts of some bots;    *)
(* blank: neither text nor attachments; subtype: any that Slack sets but     *)
(* that of a shared file.                                                   *)
Post == [author : User \cup {Bot, None}, bot : BOOLEAN, mentions : BOOLEAN, file : BOOLEAN,
         blank : BOOLEAN, subtype : BOOLEAN, channel : Channel]

ASSUME IngressAssumption == /\ Bot \notin User /\ None # Bot
                            /\ Posts \subseteq Post /\ None \notin Posts
                            /\ Pattern \subseteq Seq(STRING)
                            /\ ChannelName \in [Channel -> Seq(STRING)]
                            /\ \A p \in Posts : (p.mentions => ~p.blank) /\ (p.author = Bot => ~p.file)

VARIABLES post,     \* the post, once it is made
          handler,  \* handler[h]: where the handling of an event is
          tasks     \* the events that a task was queued for

ingressVars == <<post, handler, tasks>>

Stage == {"none", "file", "channel", "group", "judge", "deny", "control", "refuse", "enqueue",
          "react", "done"}
Idle == [stage |-> "none", trigger |-> None, group |-> 0]

IngressInit == /\ post = None
               /\ handler = [h \in Handler |-> Idle]
               /\ tasks = {}

(***************************************************************************)
(* Channel name patterns.                                                  *)
(***************************************************************************)

(* The parts of a pattern between its wildcards, those that are not empty,   *)
(* each by where it begins and ends.                                        *)
Parts(pattern) ==
    {part \in [from : DOMAIN pattern, to : DOMAIN pattern] :
        /\ part.from <= part.to
        /\ \A i \in part.from..part.to : pattern[i] # "*"
        /\ part.from = 1 \/ pattern[part.from - 1] = "*"
        /\ part.to = Len(pattern) \/ pattern[part.to + 1] = "*"}

Width(part) == part.to - part.from + 1

OccursAt(pattern, part, value, k) ==
    /\ k + Width(part) - 1 <= Len(value)
    /\ \A i \in part.from..part.to : value[k + i - part.from] = pattern[i]

(* Where a part may be found: past the parts before it, found at at.         *)
Remaining(pattern, part, value, at) ==
    {k \in 1..Len(value) :
        /\ OccursAt(pattern, part, value, k)
        /\ \A other \in Parts(pattern) : other.to < part.from => at[other] + Width(other) <= k}

(* Each part is looked for in what is left after the one before, and taken   *)
(* where it is found first; one that no wildcard precedes, at the start.     *)
WildcardMatch(pattern, value) ==
    IF ~Contains(pattern, "*") THEN pattern = value
    ELSE \E at \in [Parts(pattern) -> 1..Len(value)] :
           \A part \in Parts(pattern) :
             LET places == Remaining(pattern, part, value, at) IN
             /\ at[part] \in places
             /\ part.from = 1 => at[part] = 1
             /\ \A k \in places : at[part] <= k
             /\ part.to = Len(pattern) => OccursAt(pattern, part, value, Len(value) - Width(part) + 1)

(* Reference: a wildcard stands for any sequence of characters; the text     *)
(* goes on at next[w] after what the wildcard w stands for.                  *)
Wildcards(pattern) == {w \in DOMAIN pattern : pattern[w] = "*"}

Place(pattern, next, i) ==
    LET before == {w \in Wildcards(pattern) : w < i} IN
    IF before = {} THEN i ELSE next[Max(before)] + i - Max(before) - 1

Glob(pattern, value) ==
    \E next \in [Wildcards(pattern) -> 1..(Len(value) + 1)] :
      /\ \A w \in Wildcards(pattern) : Place(pattern, next, w) <= next[w]
      /\ \A i \in DOMAIN pattern \ Wildcards(pattern) :
            /\ Place(pattern, next, i) <= Len(value)
            /\ value[Place(pattern, next, i)] = pattern[i]
      /\ Place(pattern, next, Len(pattern) + 1) = Len(value) + 1

(* Which of several patterns matches tells nothing more: they are a set. *)
MatchesAny(patterns, name) == \E pattern \in patterns : WildcardMatch(pattern, name)

(***************************************************************************)
(* Authorization (core/messaging/slack/authorization.rs).                  *)
(***************************************************************************)

(* Mutant: an empty list of groups is looked up as well. *)
GroupsDecideWithNone(actors, p) ==
    /\ actors # None
    /\ actors.user_ids # None => p.author \notin actors.user_ids
    /\ ~(actors.allow_bot /\ p.bot)
    /\ actors.user_group_ids # None

(* Lookups of the members of the groups are spared when they decide         *)
(* nothing.                                                                 *)
GroupsDecide(actors, p) ==
    /\ actors # None
    /\ actors.user_ids # None => p.author \notin actors.user_ids
    /\ ~(actors.allow_bot /\ p.bot)
    /\ actors.user_group_ids \notin {None, << >>}

(* SlackAuthorizationPolicy::decide, of the actor: matching are the groups  *)
(* found to have the actor as a member.                                     *)
ActorAllowed(actors, p, matching) ==
    \/ actors = None
    \/ actors.user_ids # None /\ p.author \in actors.user_ids
    \/ actors.user_group_ids # None /\ matching \cap ToSet(actors.user_group_ids) # {}
    \/ actors.allow_bot /\ p.bot

(* Mutant: no pattern at all allows every channel. *)
ChannelAllowedByDefault(patterns, name) == patterns = {} \/ MatchesAny(patterns, name)

(* ... and of the channel: no pattern at all denies every channel. *)
ChannelAllowed(patterns, name) == MatchesAny(patterns, name)

(* SlackAutoResponseGate::matching_policy: is there one? *)
AutoResponsePolicyMatches(policies, name) ==
    \E patterns \in policies : MatchesAny(patterns, name)

(***************************************************************************)
(* Events.                                                                 *)
(***************************************************************************)

(* The events the app subscribes to that Slack sends for a post (external). *)
EventsOf(p) ==
    (IF p.channel \in Private THEN {} ELSE {"message"}) \cup
    (IF p.mentions THEN {"app_mention"} ELSE {}) \cup
    (IF p.file THEN {"file_shared"} ELSE {})

(* parse_slack_event: the trigger of the message, or what else becomes of   *)
(* the event.  Slack sets a subtype on the message of a post with a file.    *)
ParseSlackEvent(p, kind) ==
    LET hidden == p.subtype \/ p.file \/ p.mentions
        silent == p.author \in {None, Bot} \/ (p.blank /\ ~p.file)
    IN  IF kind = "file_shared" THEN "FileShared"
        ELSE IF silent \/ (kind = "message" /\ hidden) THEN "Ignored"
        ELSE IF kind = "message" THEN "Message" ELSE "AppMention"

To(h, stage) == handler' = [handler EXCEPT ![h].stage = stage]
Finish(h) == To(h, "done")

(* SlackInboundRouter: where the handling of a message begins. *)
Route(deps, trigger) ==
    [stage |-> IF trigger = "Message" /\ deps.auto_response = {} THEN "done" ELSE "channel",
     trigger |-> trigger, group |-> 0]

(* The event is parsed and its handler begins. *)
StartHandler(deps, h) ==
    LET parsed == ParseSlackEvent(post, h[1])
    IN  /\ handler' = [handler EXCEPT ![h] =
               CASE parsed = "Ignored" -> [Idle EXCEPT !.stage = "done"]
                 [] parsed = "FileShared" -> [Idle EXCEPT !.stage = "file"]
                 [] OTHER -> Route(deps, parsed)]
        /\ UNCHANGED <<post, tasks>>

(* Slack delivers an event once, and again when it was not acknowledged in  *)
(* time; deliveries of one event are numbered.                              *)
Undelivered(h) ==
    /\ post # None
    /\ h[1] \in EventsOf(post)
    /\ handler[h].stage = "none"
    /\ \A n \in 1..(h[2] - 1) : handler[<<h[1], n>>].stage # "none"
    /\ Cardinality({g \in Handler : handler[g].stage # "none"}) < MaxDeliveries

(* An event whose acknowledgement could not be sent is not handled. *)
DropEvent(h) == Finish(h) /\ UNCHANGED <<post, tasks>>

(***************************************************************************)
(* Handling.                                                               *)
(***************************************************************************)

(* files.info; a post of which nothing is known any more is let go. *)
FetchSharedFileMessage(deps, h) ==
    /\ handler[h].stage = "file"
    /\ \/ handler' = [handler EXCEPT ![h] = Route(deps, "Message")]
       \/ Finish(h)
    /\ UNCHANGED <<post, tasks>>

(* A mention is refused in the thread; other messages are just dropped. *)
Refused(h) == To(h, IF handler[h].trigger = "AppMention" THEN "deny" ELSE "done")

(* The decision, when matching are the groups the actor was found in. *)
Decided(deps, h, matching) ==
    LET name == ChannelName[post.channel]
        mention == handler[h].trigger = "AppMention"
    IN  IF /\ mention => ChannelAllowed(deps.mention, name)
           /\ ActorAllowed(deps.actors, post, matching)
        THEN To(h, IF mention THEN "control" ELSE "judge")
        ELSE Refused(h)

(* conversations.info, and what follows from it: private channels are out, *)
(* an auto response needs a policy, and groups are looked up if they decide. *)
LookupChannelInfo(deps, h) ==
    /\ handler[h].stage = "channel"
    /\ \/ Refused(h)
       \/ IF post.channel \in Private THEN Refused(h)
          ELSE CASE handler[h].trigger = "Message" /\
                    ~AutoResponsePolicyMatches(deps.auto_response, ChannelName[post.channel]) ->
                      Finish(h)
                 [] OTHER ->
                      IF GroupsDecide(deps.actors, post)
                      THEN handler' = [handler EXCEPT ![h].stage = "group", ![h].group = 1]
                      ELSE Decided(deps, h, {})
    /\ UNCHANGED <<post, tasks>>

(* usergroups.users.list, one group after the other until one has the      *)
(* actor; a failure refuses the message.                                    *)
ListUserGroupMembers(deps, h) ==
    LET groups == deps.actors.user_group_ids
        i == handler[h].group
    IN  /\ handler[h].stage = "group"
        /\ \/ Refused(h)
           \/ CASE post.author \in Members[groups[i]] -> Decided(deps, h, {groups[i]})
                [] post.author \notin Members[groups[i]] /\ i < Len(groups) ->
                     handler' = [handler EXCEPT ![h].group = i + 1]
                [] OTHER -> Decided(deps, h, {})
        /\ UNCHANGED <<post, tasks>>

(* The notice of the refusal; its failure is only logged. *)
DenyMention(h) ==
    /\ handler[h].stage = "deny"
    /\ Finish(h)
    /\ UNCHANGED <<post, tasks>>

(* The thread, without which it does, and the verdict of the model. *)
Judge(h) ==
    /\ handler[h].stage = "judge"
    /\ To(h, "control") \/ Finish(h)
    /\ UNCHANGED <<post, tasks>>

(* The control message comes before the task; without it there is none, and *)
(* the thread is told.                                                      *)
PostTaskControlMessage(h) ==
    /\ handler[h].stage = "control"
    /\ To(h, "enqueue") \/ To(h, "refuse")
    /\ UNCHANGED <<post, tasks>>

ReplyFailedToStart(h) ==
    /\ handler[h].stage = "refuse"
    /\ Finish(h)
    /\ UNCHANGED <<post, tasks>>

EnqueueJob(h) ==
    /\ handler[h].stage = "enqueue"
    /\ tasks' = tasks \cup {h}
    /\ To(h, "react")
    /\ UNCHANGED post

(* The reaction; its failure is only logged. *)
AddQueueAcceptedReaction(h) ==
    /\ handler[h].stage = "react"
    /\ Finish(h)
    /\ UNCHANGED <<post, tasks>>

Handle(deps, h) ==
    \/ FetchSharedFileMessage(deps, h)
    \/ LookupChannelInfo(deps, h)
    \/ ListUserGroupMembers(deps, h)
    \/ DenyMention(h)
    \/ Judge(h)
    \/ PostTaskControlMessage(h)
    \/ ReplyFailedToStart(h)
    \/ EnqueueJob(h)
    \/ AddQueueAcceptedReaction(h)

UnderWay(h) == handler[h].stage \notin {"none", "done"}

(***************************************************************************)
(* What the ingress promises.                                              *)
(***************************************************************************)

(* Someone the settings let ask, told without the shortcuts of the lookup. *)
MayAsk(actors, p) ==
    \/ actors = None
    \/ actors.user_ids # None /\ p.author \in actors.user_ids
    \/ actors.user_group_ids # None /\ \E g \in ToSet(actors.user_group_ids) : p.author \in Members[g]
    \/ actors.allow_bot /\ p.bot

(* A place where the settings have such a message answered. *)
IsAnsweredIn(channels, setting, name) ==
    \E i \in DOMAIN channels : /\ channels[i][setting]
                               /\ \E j \in DOMAIN channels[i].names : Glob(channels[i].names[j], name)

Entitled(deps, p, kind) ==
    /\ p.channel \notin Private
    /\ p.author # Bot
    /\ MayAsk(deps.actors, p)
    /\ IsAnsweredIn(deps.channels, IF kind = "app_mention" THEN "mention" ELSE "auto_response",
                    ChannelName[p.channel])
=============================================================================
