---------------------------- MODULE Runtime_proofs --------------------------
(***************************************************************************)
(* What the process makes of its settings, and whom it works for, for      *)
(* every configuration file, environment and post.                         *)
(*                                                                         *)
(* A task is queued steps after the settings were asked whether its author *)
(* may ask for it; HandlersOK carries the answer through the handler: from *)
(* the parsing of the event who wrote it, from the channel's name that it  *)
(* is one to answer in, from the groups that the author is one who may ask.*)
(* StartOK says what the parts keep of the settings, and, until they are     *)
(* built, that the settings are those of a file that nothing was wrong with.*)
(***************************************************************************)
EXTENDS Runtime, WellFoundedInduction, SequenceTheorems, FiniteSetTheorems, TLAPS

(* The settings that the parts are built from, and the parts that were.      *)
SettingsOK(c) ==
  /\ c.mode \in {"http", "socket"}
  /\ c.signing_secret \in BOOLEAN
  /\ c.actors \in Opt(SlackAuthorizationActors)
  /\ c.channels \in Seq(SlackChannelFileConfig)

(* The settings c are those of the file f, which nothing was wrong with.       *)
Accepted(f, e, c) ==
  /\ Parses(f) /\ Failures(Checks(f, e)) = {}
  /\ c = ResolveAppConfig(f)

PartsOK(d) ==
  /\ d \in Deps
  /\ d.mention = UNION Names(d.channels, "mention")
  /\ d.auto_response \in {{}, Names(d.channels, "auto_response")}

Quiet == tasks = {} /\ \A h \in Handler : handler[h].stage = "none"

StartOK ==
  /\ phase \in Phase
  /\ file \in Opt(FileConfigs) /\ env \in Opt(Environment)
  /\ phase = "loading" => file \in FileConfigs /\ env \in Environment
  /\ phase = "bootstrapping" => \E f \in FileConfigs, e \in Environment : Accepted(f, e, config)
  /\ deps = None \/ PartsOK(deps)
  /\ phase \in {"ready", "serving", "stopped"} => PartsOK(deps)
  /\ phase \in {"loading", "bootstrapping", "ready"} => Quiet

Handling == [stage : Stage, trigger : {None, "Message", "AppMention"}, group : Nat]

(* The stages in which the message is known, and those the gates let it into.  *)
Routed == {"channel", "group", "judge", "control", "enqueue"}
Passed == {"judge", "control", "enqueue"}

(* The place is one where the settings have such a message answered.           *)
Answers(d, p, kind) ==
  IF kind = "app_mention" THEN ChannelAllowed(d.mention, ChannelName[p.channel])
  ELSE AutoResponsePolicyMatches(d.auto_response, ChannelName[p.channel])

(* What the settings ask of a post before a task is made of it.               *)
Granted(d, p, kind) ==
  /\ p.channel \notin Private
  /\ p.author # Bot
  /\ Answers(d, p, kind)
  /\ MayAsk(d.actors, p)

(* What holds of the handling r of an event of that kind.                    *)
HandlingOK(d, p, kind, r) ==
  /\ r.stage # "none" => PartsOK(d) /\ p \in Posts /\ kind \in EventsOf(p)
  /\ r.stage = "file" => kind = "file_shared"
  /\ r.stage \in Routed =>
       /\ p.author # Bot
       /\ r.trigger = IF kind = "app_mention" THEN "AppMention" ELSE "Message"
  /\ r.stage = "group" =>
       /\ p.channel \notin Private
       /\ kind # "app_mention" => Answers(d, p, kind)
       /\ GroupsDecide(d.actors, p)
       /\ r.group \in DOMAIN d.actors.user_group_ids
  /\ r.stage \in Passed => Granted(d, p, kind)

HandlersOK ==
  /\ handler \in [Handler -> Handling]
  /\ \A h \in Handler : HandlingOK(deps, post, h[1], handler[h])

TasksOK ==
  /\ tasks \subseteq Handler
  /\ tasks # {} => post \in Posts /\ PartsOK(deps)
  /\ \A h \in tasks : Granted(deps, post, h[1])

LinkOK == link \in Link /\ shutdown \in BOOLEAN

RuntimeInv ==
  /\ StartOK
  /\ post \in Opt(Posts)
  /\ HandlersOK
  /\ TasksOK
  /\ LinkOK

-----------------------------------------------------------------------------
(* The connection to Slack. *)
LEMMA LinkFields ==
  ASSUME NEW r
  PROVE  r \in Link <=>
           /\ r = [state |-> r.state, failures |-> r.failures, untilPing |-> r.untilPing,
                   pongDue |-> r.pongDue, alive |-> r.alive]
           /\ r.state \in LinkState
           /\ r.failures \in 0..MaxBackoffExponent
           /\ r.untilPing \in 0..CLIENT_PING_INTERVAL
           /\ r.pongDue \in {NoDeadline} \cup (0..CLIENT_PONG_TIMEOUT)
           /\ r.alive \in BOOLEAN
BY DEF Link

LEMMA LinkRecords ==
  ASSUME NEW s \in LinkState, NEW f \in 0..MaxBackoffExponent,
         NEW u \in 0..CLIENT_PING_INTERVAL,
         NEW p \in {NoDeadline} \cup (0..CLIENT_PONG_TIMEOUT), NEW a \in BOOLEAN
  PROVE  [state |-> s, failures |-> f, untilPing |-> u, pongDue |-> p, alive |-> a] \in Link
BY DEF Link

LEMMA LinkUpdates ==
  ASSUME NEW r \in Link
  PROVE  /\ \A s \in LinkState : [r EXCEPT !.state = s] \in Link
         /\ \A f \in 0..MaxBackoffExponent : [r EXCEPT !.failures = f] \in Link
         /\ \A u \in 0..CLIENT_PING_INTERVAL : [r EXCEPT !.untilPing = u] \in Link
         /\ \A p \in {NoDeadline} \cup (0..CLIENT_PONG_TIMEOUT) :
              [r EXCEPT !.pongDue = p] \in Link
         /\ \A a \in BOOLEAN : [r EXCEPT !.alive = a] \in Link
<1>1. \A s \in LinkState : [r EXCEPT !.state = s] \in Link
  BY DEF Link
<1>2. \A f \in 0..MaxBackoffExponent : [r EXCEPT !.failures = f] \in Link
  BY DEF Link
<1>3. \A u \in 0..CLIENT_PING_INTERVAL : [r EXCEPT !.untilPing = u] \in Link
  BY DEF Link
<1>4. \A p \in {NoDeadline} \cup (0..CLIENT_PONG_TIMEOUT) : [r EXCEPT !.pongDue = p] \in Link
  BY DEF Link
<1>5. \A a \in BOOLEAN : [r EXCEPT !.alive = a] \in Link
  BY DEF Link
<1> QED  BY <1>1, <1>2, <1>3, <1>4, <1>5

LEMMA OffIsALink == Off \in Link
<1>1. /\ "off" \in LinkState /\ 0 \in 0..CLIENT_PING_INTERVAL
      /\ 0 \in 0..MaxBackoffExponent
  BY DEF LinkState, CLIENT_PING_INTERVAL, MaxBackoffExponent
<1> QED  BY <1>1, LinkRecords DEF Off

LEMMA NextRoundIsALink ==
  ASSUME NEW n \in 0..MaxBackoffExponent
  PROVE  NextRound(n) \in Link
<1> DEFINE s == IF shutdown THEN "ended" ELSE IF n > 0 THEN "backoff" ELSE "requesting"
<1>1. s \in LinkState
  BY DEF LinkState
<1>2. NextRound(n) = [[Off EXCEPT !.failures = n] EXCEPT !.state = s]
  BY DEF NextRound
<1> HIDE DEF s
<1>3. [Off EXCEPT !.failures = n] \in Link
  BY OffIsALink, LinkUpdates
<1>4. QED
  BY <1>1, <1>2, <1>3, LinkUpdates

LEMMA ClientKeepsTypes ==
  ASSUME LinkOK,
         \/ ClientStep \/ AgainAfterFailure \/ ShutdownSignal
         \/ (StartClient /\ UNCHANGED shutdown)
  PROVE  LinkOK'
<1>0. link \in Link /\ shutdown \in BOOLEAN
  BY DEF LinkOK
<1>1. /\ link.failures \in 0..MaxBackoffExponent
      /\ link.untilPing \in 0..CLIENT_PING_INTERVAL
      /\ link.pongDue \in {NoDeadline} \cup (0..CLIENT_PONG_TIMEOUT)
  BY <1>0, LinkFields
<1>2. 0 \in 0..MaxBackoffExponent /\ OneMore(link.failures) \in 0..MaxBackoffExponent
  BY <1>1 DEF OneMore, MaxBackoffExponent
<1>3. AgainAfterFailure \/ Again \/ (StartClient /\ UNCHANGED shutdown) => LinkOK'
  BY <1>0, <1>2, NextRoundIsALink DEF AgainAfterFailure, Again, StartClient, LinkOK
<1>4. {"requesting", "connecting", "open", "ended", "disabled"} \subseteq LinkState
  BY DEF LinkState
<1>5. CASE BackoffEnds \/ PeerVanishes
  BY <1>0, <1>4, <1>5, LinkUpdates DEF BackoffEnds, PeerVanishes, LinkOK
<1>6. CASE RequestWssUrl
  <2>1. [link EXCEPT !.state = "connecting"] \in Link
    BY <1>0, <1>4, LinkUpdates
  <2>2. [[link EXCEPT !.state = "connecting"] EXCEPT !.failures = 0] \in Link
    BY <1>2, <2>1, LinkUpdates
  <2>3. [link EXCEPT !.state = "connecting", !.failures = 0] \in Link
    BY <2>2
  <2> QED  BY <1>0, <1>3, <1>6, <2>3 DEF RequestWssUrl, LinkOK
<1>7. CASE Connect
  <2>1. [link EXCEPT !.state = "open"] \in Link
    BY <1>0, <1>4, LinkUpdates
  <2>2. [[link EXCEPT !.state = "open"] EXCEPT !.alive = TRUE] \in Link
    BY <2>1, LinkUpdates
  <2>3. [link EXCEPT !.state = "open", !.alive = TRUE] \in Link
    BY <2>2
  <2> QED  BY <1>0, <1>3, <1>7, <2>3 DEF Connect, LinkOK
<1>8. CASE SendPing
  <2>0. CLIENT_PING_INTERVAL \in 0..CLIENT_PING_INTERVAL
    BY DEF CLIENT_PING_INTERVAL
  <2>1. [link EXCEPT !.untilPing = CLIENT_PING_INTERVAL] \in Link
    BY <1>0, <2>0, LinkUpdates
  <2>2. CLIENT_PONG_TIMEOUT \in {NoDeadline} \cup (0..CLIENT_PONG_TIMEOUT)
    BY DEF CLIENT_PONG_TIMEOUT
  <2>3. [[link EXCEPT !.untilPing = CLIENT_PING_INTERVAL]
              EXCEPT !.pongDue = CLIENT_PONG_TIMEOUT] \in Link
    BY <2>1, <2>2, LinkUpdates
  <2>4. OnPingSent(link) \in Link
    BY <2>3 DEF OnPingSent
  <2> QED  BY <1>0, <1>3, <1>8, <2>4 DEF SendPing, LinkOK
<1>9. CASE OnPongReceived \/ PongTimeout
  BY <1>0, <1>3, <1>9, LinkUpdates DEF OnPongReceived, PongTimeout, LinkOK
<1>10. CASE Tick
  <2> DEFINE due == IF link.pongDue = NoDeadline THEN link.pongDue ELSE link.pongDue - 1
  <2>1. link.untilPing - 1 \in 0..CLIENT_PING_INTERVAL
    BY <1>1, <1>10 DEF Tick, CLIENT_PING_INTERVAL
  <2>2. due \in {NoDeadline} \cup (0..CLIENT_PONG_TIMEOUT)
    BY <1>1, <1>10 DEF Tick, CLIENT_PONG_TIMEOUT, NoDeadline
  <2>3. [link EXCEPT !.untilPing = link.untilPing - 1] \in Link
    BY <1>0, <2>1, LinkUpdates
  <2>4. link' = [[link EXCEPT !.untilPing = link.untilPing - 1] EXCEPT !.pongDue = due]
    BY <1>10 DEF Tick
  <2> HIDE DEF due
  <2>5. link' \in Link
    BY <2>2, <2>3, <2>4, LinkUpdates
  <2> QED  BY <1>0, <1>10, <2>5 DEF Tick, LinkOK
<1>11. CASE LinkDisabled \/ SeeShutdown
  BY <1>0, <1>4, <1>11, OffIsALink, LinkUpdates DEF LinkDisabled, SeeShutdown, LinkOK
<1>12. CASE ShutdownSignal
  BY <1>0, <1>12 DEF ShutdownSignal, LinkOK
<1>13. CASE SlackRefresh \/ WebSocketError
  BY <1>3, <1>13 DEF SlackRefresh, WebSocketError
<1> QED
  BY <1>3, <1>5, <1>6, <1>7, <1>8, <1>9, <1>10, <1>11, <1>12, <1>13 DEF ClientStep

-----------------------------------------------------------------------------
(* The gates: what the settings say, in the words of Entitled. *)
LEMMA ParsedEvents ==
  ASSUME NEW p \in Posts, NEW kind \in EventsOf(p)
  PROVE  /\ kind \in Kind
         /\ kind = "file_shared" => p.author # Bot
         /\ ParseSlackEvent(p, kind) = "FileShared" => kind = "file_shared"
         /\ ParseSlackEvent(p, kind) \in {"FileShared", "Ignored", "Message", "AppMention"}
         /\ ParseSlackEvent(p, kind) \in {"Message", "AppMention"} =>
              /\ p.author # Bot
              /\ ParseSlackEvent(p, kind) = "AppMention" <=> kind = "app_mention"
<1>1. kind \in Kind /\ (kind = "file_shared" => p.file)
  BY DEF EventsOf, Kind
<1>2. kind = "file_shared" => p.author # Bot
  BY <1>1, IngressAssumption
<1>3. \/ ParseSlackEvent(p, kind) = "FileShared" /\ kind = "file_shared"
      \/ ParseSlackEvent(p, kind) = "Ignored"
      \/ ParseSlackEvent(p, kind) = "Message" /\ kind = "message" /\ p.author # Bot
      \/ ParseSlackEvent(p, kind) = "AppMention" /\ kind = "app_mention" /\ p.author # Bot
  BY <1>1, Zenon DEF ParseSlackEvent, Kind
<1> QED  BY <1>1, <1>2, <1>3

-----------------------------------------------------------------------------
(* Patterns: what the code matches, the reference does. *)
LEMMA SmallestExists ==
    ASSUME NEW T \in SUBSET Nat, T # {}
    PROVE  \E m \in T : \A n \in T : m <= n
<1>1. \E m \in T : \A n \in T : ~(<<n, m>> \in OpToRel(<, Nat))
  BY NatLessThanWellFounded, WFMin, Zenon
<1>2. PICK m \in T : \A n \in T : ~(<<n, m>> \in OpToRel(<, Nat))
  BY <1>1
<1>3. \A n \in T : ~(n < m)
  BY <1>2 DEF OpToRel
<1>4. QED
  BY <1>3


(* A character that is not a wildcard is in a part.                           *)
LEMMA PartAround ==
  ASSUME NEW pattern \in Seq(STRING), NEW i \in DOMAIN pattern, pattern[i] # "*"
  PROVE  \E part \in Parts(pattern) : part.from <= i /\ i <= part.to
<1> DEFINE len == Len(pattern)
           Down == {n \in Nat : n <= i /\ (n = i \/ pattern[i - n] = "*")}
           Up == {n \in Nat : n > i /\ n <= len + 1 /\ (n = len + 1 \/ pattern[n] = "*")}
<1>1. len \in Nat /\ DOMAIN pattern = 1..len /\ i \in 1..len
  OBVIOUS
<1>2. PICK d \in Down : \A n \in Down : d <= n
  <2>1. Down \in SUBSET Nat /\ i \in Down
    BY <1>1
  <2> QED
    <3> HIDE DEF Down
    <3> QED  BY <2>1, SmallestExists
<1>3. PICK u \in Up : \A n \in Up : u <= n
  <2>1. Up \in SUBSET Nat /\ len + 1 \in Up
    BY <1>1
  <2> QED
    <3> HIDE DEF Up
    <3> QED  BY <2>1, SmallestExists
<1>4. d \in 1..i
  BY <1>1, <1>2
<1> DEFINE part == [from |-> i - d + 1, to |-> u - 1]
<1>5. /\ part.from \in 1..i /\ part.to \in i..len
      /\ part \in [from : DOMAIN pattern, to : DOMAIN pattern]
  BY <1>1, <1>3, <1>4
<1>6. \A j \in part.from..part.to : pattern[j] # "*"
  <2> SUFFICES ASSUME NEW j \in part.from..part.to, pattern[j] = "*"
               PROVE  FALSE
    OBVIOUS
  <2>1. CASE j <= i
    <3>1. i - j \in Down
      BY <1>1, <1>4, <2>1
    <3> QED  BY <1>1, <1>2, <1>4, <2>1, <3>1
  <2>2. CASE j > i
    <3>1. j \in Up
      BY <1>1, <1>3, <2>2
    <3> QED  BY <1>1, <1>3, <2>2, <3>1
  <2> QED  BY <1>1, <1>4, <1>5, <2>1, <2>2
<1>7. part.from = 1 \/ pattern[part.from - 1] = "*"
  BY <1>1, <1>2, <1>4
<1>8. part.to = len \/ pattern[part.to + 1] = "*"
  BY <1>1, <1>3
<1>9. part \in Parts(pattern)
  BY <1>1, <1>5, <1>6, <1>7, <1>8 DEF Parts
<1> QED  BY <1>1, <1>5, <1>9

(* Parts do not overlap.                                                     *)
LEMMA PartsApart ==
  ASSUME NEW pattern \in Seq(STRING), NEW v \in Parts(pattern), NEW w \in Parts(pattern)
  PROVE  v = w \/ v.to < w.from \/ w.to < v.from
<1>1. /\ Len(pattern) \in Nat
      /\ v.from \in 1..Len(pattern) /\ v.to \in v.from..Len(pattern)
      /\ w.from \in 1..Len(pattern) /\ w.to \in w.from..Len(pattern)
      /\ v = [from |-> v.from, to |-> v.to] /\ w = [from |-> w.from, to |-> w.to]
  BY DEF Parts
<1> SUFFICES ASSUME v.from <= w.to, w.from <= v.to
             PROVE  v = w
  BY <1>1
<1>2. v.from = w.from
  <2>1. CASE v.from < w.from
    <3>1. w.from - 1 \in v.from..v.to /\ w.from # 1
      BY <1>1, <2>1
    <3> QED  BY <3>1 DEF Parts
  <2>2. CASE w.from < v.from
    <3>1. v.from - 1 \in w.from..w.to /\ v.from # 1
      BY <1>1, <2>2
    <3> QED  BY <3>1 DEF Parts
  <2> QED  BY <1>1, <2>1, <2>2
<1>3. v.to = w.to
  <2>1. CASE v.to < w.to
    <3>1. v.to + 1 \in w.from..w.to /\ v.to # Len(pattern)
      BY <1>1, <2>1
    <3> QED  BY <3>1 DEF Parts
  <2>2. CASE w.to < v.to
    <3>1. w.to + 1 \in v.from..v.to /\ w.to # Len(pattern)
      BY <1>1, <2>2
    <3> QED  BY <3>1 DEF Parts
  <2> QED  BY <1>1, <2>1, <2>2
<1> QED  BY <1>1, <1>2, <1>3

(* Where a character goes: after the last wildcard before it.                  *)
LEMMA PlaceAfterWildcard ==
  ASSUME NEW pattern \in Seq(STRING), NEW next, NEW i \in Nat, NEW w \in Wildcards(pattern),
         w < i, \A j \in (w + 1)..(i - 1) : j \notin Wildcards(pattern)
  PROVE  Place(pattern, next, i) = next[w] + i - w - 1
<1> DEFINE before == {v \in Wildcards(pattern) : v < i}
<1>1. w \in before /\ \A v \in before : v \in Nat /\ v <= w
  BY DEF Wildcards
<1>2. Max(before) = w
  <2>1. \A x \in before : (\A y \in before : x >= y) <=> x = w
    BY <1>1
  <2>2. (CHOOSE x \in before : \A y \in before : x >= y) = w
    <3> HIDE DEF before
    <3> QED  BY <1>1, <2>1
  <2> QED  BY <2>2 DEF Max
<1> QED  BY <1>1, <1>2 DEF Place

LEMMA PlaceAtStart ==
  ASSUME NEW pattern \in Seq(STRING), NEW next, NEW i, {w \in Wildcards(pattern) : w < i} = {}
  PROVE  Place(pattern, next, i) = i
BY DEF Place


(* A match of the code is one of the reference: a wildcard stands for the text
   up to where the next part was found, or for the last part, to where the
   value ends with it; the part was found no later than that. *)
LEMMA WildcardMatchIsGlob ==
  ASSUME NEW pattern \in Seq(STRING), NEW value \in Seq(STRING), WildcardMatch(pattern, value)
  PROVE  Glob(pattern, value)
<1> DEFINE len == Len(pattern)
           n == Len(value)
           wild == Wildcards(pattern)
           P == Parts(pattern)
<1>1. /\ len \in Nat /\ n \in Nat /\ DOMAIN pattern = 1..len
      /\ wild \subseteq 1..len
      /\ \A i \in 1..len : i \in wild <=> pattern[i] = "*"
  BY DEF Wildcards
<1>2. CASE ~Contains(pattern, "*")
  <2>1. pattern = value
    BY <1>2 DEF WildcardMatch
  <2>2. wild = {}
    BY <1>1, <1>2 DEF Contains
  <2> DEFINE next == [w \in wild |-> 1]
  <2>3. next \in [wild -> 1..(n + 1)]
    BY <2>2
  <2>4. \A i \in DOMAIN pattern : Place(pattern, next, i) = i
    BY <2>2 DEF Place
  <2>5. Place(pattern, next, len + 1) = len + 1
    BY <2>2 DEF Place
  <2> HIDE DEF next
  <2>6. /\ \A w \in wild : Place(pattern, next, w) <= next[w]
        /\ \A i \in DOMAIN pattern \ wild : /\ Place(pattern, next, i) <= n
                                            /\ value[Place(pattern, next, i)] = pattern[i]
        /\ Place(pattern, next, len + 1) = n + 1
    BY <1>1, <2>1, <2>2, <2>4, <2>5
  <2> QED  BY <2>3, <2>6 DEF Glob
<1>3. CASE Contains(pattern, "*")
  <2>1. PICK at \in [P -> 1..n] :
          \A w \in P :
            LET places == Remaining(pattern, w, value, at) IN
            /\ at[w] \in places
            /\ w.from = 1 => at[w] = 1
            /\ \A k \in places : at[w] <= k
            /\ w.to = len => OccursAt(pattern, w, value, n - Width(w) + 1)
    BY <1>3 DEF WildcardMatch
  <2>2. \A w \in P : /\ w.from \in 1..len /\ w.to \in w.from..len /\ Width(w) = w.to - w.from + 1
                     /\ \A i \in w.from..w.to : i \notin wild
                     /\ w.from # 1 => w.from - 1 \in wild
                     /\ w.to # len => w.to + 1 \in wild
    BY <1>1 DEF Parts, Width
  <2>3. \E i \in 1..len : i \in wild
    BY <1>1, <1>3 DEF Contains
  <2> DEFINE spot == [w \in P |-> IF w.to = len THEN n - Width(w) + 1 ELSE at[w]]
  <2>4. \A w \in P : /\ at[w] \in 1..n /\ OccursAt(pattern, w, value, at[w])
                     /\ at[w] + Width(w) - 1 <= n
                     /\ \A v \in P : v.to < w.from => at[v] + Width(v) <= at[w]
    BY <2>1 DEF Remaining, OccursAt
  <2>5. \A w \in P : /\ spot[w] \in 1..n /\ at[w] <= spot[w]
                     /\ OccursAt(pattern, w, value, spot[w])
                     /\ w.to # len => spot[w] = at[w]
                     /\ w.to = len => spot[w] + Width(w) = n + 1
    BY <1>1, <2>1, <2>2, <2>4
  <2>a. \A w \in P : /\ w.from \in Nat /\ w.to \in Nat /\ Width(w) \in Nat \ {0}
                     /\ at[w] \in Nat /\ spot[w] \in Nat
    BY <1>1, <2>2, <2>4, <2>5
  <2>6. \A w \in P : w.from = 1 => spot[w] = 1
    <3> SUFFICES ASSUME NEW w \in P, w.from = 1
                 PROVE  w.to # len
      BY <2>1, <2>5
    <3> QED  BY <2>2, <2>3
  <2> HIDE DEF spot
  <2> DEFINE After(s) == {w \in P : w.from > s}
             First(s) == CHOOSE w \in After(s) : \A v \in After(s) : w.from <= v.from
             next == [s \in wild |-> IF After(s) = {} THEN n + 1 ELSE spot[First(s)]]
  <2>7. ASSUME NEW s \in wild, After(s) # {}
        PROVE  First(s) \in After(s) /\ \A v \in After(s) : First(s).from <= v.from
    <3> DEFINE begins == {w.from : w \in After(s)}
    <3>1. begins \in SUBSET Nat /\ begins # {}
      BY <2>7, <2>a
    <3>2. PICK m \in begins : \A b \in begins : m <= b
      <4> HIDE DEF begins
      <4> QED  BY <3>1, SmallestExists
    <3>3. \E w \in After(s) : \A v \in After(s) : w.from <= v.from
      BY <3>2
    <3> HIDE DEF After
    <3> QED  BY <3>3
  <2>8. next \in [wild -> 1..(n + 1)]
    <3> SUFFICES ASSUME NEW s \in wild
                 PROVE  (IF After(s) = {} THEN n + 1 ELSE spot[First(s)]) \in 1..(n + 1)
      OBVIOUS
    <3>1. After(s) # {} => First(s) \in P
      BY <2>7
    <3> HIDE DEF First, After
    <3> QED  BY <1>1, <2>5, <3>1
  <2>9. ASSUME NEW w \in P, NEW s \in wild, w.from = s + 1
        PROVE  next[s] = spot[w]
    <3>1. w \in After(s)
      BY <1>1, <2>2, <2>9
    <3>2. First(s) \in P /\ First(s).from = w.from
      <4>1. First(s) \in P /\ First(s).from > s /\ First(s).from <= w.from
        BY <2>7, <3>1
      <4> QED  BY <1>1, <2>2, <2>9, <4>1
    <3>3. First(s) = w
      <4> HIDE DEF First
      <4> QED  BY <2>2, <3>2, PartsApart
    <3> QED  BY <3>1, <3>3
  <2>10. \A s \in wild : next[s] = IF After(s) = {} THEN n + 1 ELSE spot[First(s)]
    OBVIOUS
  <2> HIDE DEF next
  <2>11. ASSUME NEW w \in P, NEW i \in w.from..(w.to + 1)
         PROVE  Place(pattern, next, i) = spot[w] + i - w.from
    <3>1. w.from \in 1..len /\ w.to \in w.from..len /\ i \in Nat
      BY <1>1, <2>2
    <3>2. CASE w.from = 1
      <4>1. {x \in wild : x < i} = {}
        BY <1>1, <2>2, <3>1, <3>2
      <4>2. Place(pattern, next, i) = i
        BY <4>1, PlaceAtStart
      <4> QED  BY <2>6, <3>1, <3>2, <4>2
    <3>3. CASE w.from # 1
      <4>1. w.from - 1 \in wild /\ w.from - 1 < i
        BY <2>2, <3>1, <3>3
      <4>2. \A j \in (w.from - 1 + 1)..(i - 1) : j \notin wild
        BY <2>2, <3>1
      <4>3. Place(pattern, next, i) = next[w.from - 1] + i - (w.from - 1) - 1
        BY <3>1, <4>1, <4>2, PlaceAfterWildcard
      <4>4. next[w.from - 1] = spot[w]
        BY <2>9, <3>1, <4>1
      <4>5. spot[w] \in Nat
        BY <1>1, <2>5
      <4> QED  BY <3>1, <4>3, <4>4, <4>5
    <3> QED  BY <3>2, <3>3
  <2>12. ASSUME NEW s \in wild
         PROVE  Place(pattern, next, s) <= next[s]
    <3>1. s \in 1..len /\ next[s] \in 1..(n + 1)
      BY <1>1, <2>8
    <3>2. CASE s = 1
      <4>1. {x \in wild : x < s} = {}
        BY <1>1, <3>2
      <4> QED  BY <3>1, <3>2, <4>1, PlaceAtStart
    <3>3. CASE s # 1 /\ s - 1 \in wild
      <4>1. Place(pattern, next, s) = next[s - 1] + s - (s - 1) - 1
        <5>1. s \in Nat /\ s - 1 < s /\ \A j \in (s - 1 + 1)..(s - 1) : j \notin wild
          BY <3>1
        <5> QED  BY <3>3, <5>1, PlaceAfterWildcard
      <4>2. After(s - 1) = After(s)
        BY <1>1, <2>2, <3>1
      <4>3. next[s - 1] = next[s]
        <5> HIDE DEF After
        <5> QED  BY <2>10, <3>3, <4>2
      <4> QED  BY <1>1, <3>1, <4>1, <4>3
    <3>4. CASE s # 1 /\ s - 1 \notin wild
      <4>1. PICK v \in P : v.from <= s - 1 /\ s - 1 <= v.to
        <5>1. s - 1 \in 1..len
          BY <1>1, <3>1, <3>4
        <5>2. s - 1 \in DOMAIN pattern /\ pattern[s - 1] # "*"
          BY <1>1, <3>4, <5>1
        <5>3. \E part \in Parts(pattern) : part.from <= s - 1 /\ s - 1 <= part.to
          BY <5>2, PartAround
        <5> QED  BY <5>3, Zenon
      <4>2. v.to = s - 1 /\ v.from \in 1..len /\ v.to \in v.from..len /\ v.to # len
        BY <1>1, <2>2, <3>1, <4>1
      <4>3. Place(pattern, next, s) = at[v] + Width(v)
        <5>0. s \in v.from..(v.to + 1)
          BY <3>1, <4>2
        <5>1. Place(pattern, next, s) = spot[v] + s - v.from
          BY <2>11, <5>0
        <5>2. spot[v] = at[v] /\ Width(v) = v.to - v.from + 1
          BY <2>2, <2>5, <4>2
        <5> QED  BY <2>a, <3>1, <4>2, <5>1, <5>2
      <4>4. CASE After(s) = {}
        <5>1. next[s] = n + 1
          BY <2>10, <4>4
        <5>2. at[v] + Width(v) - 1 <= n
          BY <2>4
        <5> QED  BY <1>1, <2>a, <4>3, <5>1, <5>2
      <4>5. CASE After(s) # {}
        <5>1. First(s) \in P /\ First(s).from > s
          BY <2>7, <4>5
        <5>2. next[s] = spot[First(s)]
          BY <2>10, <4>5
        <5> HIDE DEF First
        <5>3. v.to < First(s).from
          BY <1>1, <2>2, <3>1, <4>2, <5>1
        <5>4. at[v] + Width(v) <= at[First(s)] /\ at[First(s)] <= spot[First(s)]
          BY <2>4, <2>5, <5>1, <5>3
        <5>5. at[v] \in Nat /\ Width(v) \in Nat /\ at[First(s)] \in Nat /\ spot[First(s)] \in Nat
          BY <1>1, <2>2, <2>4, <2>5, <4>2, <5>1
        <5> QED  BY <4>3, <5>2, <5>4, <5>5
      <4> QED  BY <4>4, <4>5
    <3> QED  BY <3>2, <3>3, <3>4
  <2>13. ASSUME NEW i \in DOMAIN pattern \ wild
         PROVE  /\ Place(pattern, next, i) <= n
                /\ value[Place(pattern, next, i)] = pattern[i]
    <3>1. PICK w \in P : w.from <= i /\ i <= w.to
      BY <1>1, PartAround
    <3>2. i \in w.from..w.to /\ w.from \in 1..len /\ w.to \in w.from..len
      BY <1>1, <2>2, <3>1
    <3>3. Place(pattern, next, i) = spot[w] + i - w.from
      BY <2>11, <3>2
    <3>4. /\ spot[w] \in Nat /\ spot[w] + Width(w) - 1 <= n
          /\ value[spot[w] + i - w.from] = pattern[i]
      BY <1>1, <2>5, <3>2 DEF OccursAt
    <3> QED  BY <1>1, <2>2, <3>2, <3>3, <3>4
  <2>14. Place(pattern, next, len + 1) = n + 1
    <3>1. len \in 1..len
      BY <1>1, <2>3
    <3>2. CASE len \in wild
      <4>1. Place(pattern, next, len + 1) = next[len] + (len + 1) - len - 1
        <5>1. len + 1 \in Nat /\ len < len + 1 /\ \A j \in (len + 1)..(len + 1 - 1) : j \notin wild
          BY <1>1
        <5> QED  BY <3>2, <5>1, PlaceAfterWildcard
      <4>2. After(len) = {}
        BY <1>1, <2>2
      <4>3. next[len] = n + 1
        BY <2>10, <3>2, <4>2
      <4> QED  BY <1>1, <4>1, <4>3
    <3>3. CASE len \notin wild
      <4>1. PICK w \in P : w.from <= len /\ len <= w.to
        BY <1>1, <3>1, <3>3, PartAround
      <4>2. w.to = len /\ w.from \in 1..len
        BY <1>1, <2>2, <4>1
      <4>3. len + 1 \in w.from..(w.to + 1)
        BY <1>1, <4>2
      <4>4. Place(pattern, next, len + 1) = spot[w] + (len + 1) - w.from
        BY <2>11, <4>3
      <4>5. spot[w] + Width(w) = n + 1 /\ Width(w) = w.to - w.from + 1
        BY <2>2, <2>5, <4>2
      <4> QED  BY <1>1, <2>a, <4>2, <4>4, <4>5
    <3> QED  BY <3>2, <3>3
  <2> HIDE DEF After, First
  <2> QED  BY <2>8, <2>12, <2>13, <2>14 DEF Glob
<1> QED  BY <1>2, <1>3

-----------------------------------------------------------------------------
LEMMA PlacesOfPosts ==
  ASSUME NEW p \in Posts
  PROVE  ChannelName[p.channel] \in Seq(STRING)
BY IngressAssumption DEF Post

LEMMA PlacesWithAnswers ==
  ASSUME NEW d, PartsOK(d), NEW p \in Posts, NEW kind, Answers(d, p, kind)
  PROVE  IsAnsweredIn(d.channels, IF kind = "app_mention" THEN "mention" ELSE "auto_response",
                      ChannelName[p.channel])
<1> DEFINE setting == IF kind = "app_mention" THEN "mention" ELSE "auto_response"
           name == ChannelName[p.channel]
<1>1. PICK names \in Names(d.channels, setting) :
        \E pattern \in names : WildcardMatch(pattern, name)
  BY DEF Answers, PartsOK, ChannelAllowed, AutoResponsePolicyMatches, MatchesAny
<1>2. PICK i \in DOMAIN d.channels : d.channels[i][setting] /\ names = ToSet(d.channels[i].names)
  BY <1>1 DEF Names
<1>3. PICK j \in DOMAIN d.channels[i].names : WildcardMatch(d.channels[i].names[j], name)
  BY <1>1, <1>2 DEF ToSet
<1>4. d.channels[i].names[j] \in Pattern
  <2>1. d.channels \in Seq(SlackChannelFileConfig)
    BY DEF PartsOK, Deps
  <2>2. d.channels[i] \in SlackChannelFileConfig
    BY <1>2, <2>1
  <2>3. d.channels[i].names \in Seq(Pattern)
    BY <2>2 DEF SlackChannelFileConfig
  <2> QED  BY <1>3, <2>3
<1>5. Glob(d.channels[i].names[j], name)
  <2>1. d.channels[i].names[j] \in Seq(STRING)
    BY <1>4, IngressAssumption
  <2> QED  BY <1>3, <2>1, PlacesOfPosts, WildcardMatchIsGlob
<1> HIDE DEF setting, name
<1>6. IsAnsweredIn(d.channels, setting, name)
  BY <1>2, <1>3, <1>5 DEF IsAnsweredIn
<1> QED  BY <1>6 DEF setting, name

LEMMA ActorsMayAsk ==
  ASSUME NEW actors, NEW p, NEW matching, ActorAllowed(actors, p, matching),
         \A g \in matching : p.author \in Members[g]
  PROVE  MayAsk(actors, p)
BY DEF ActorAllowed, MayAsk

LEMMA DecidedIsGranted ==
  ASSUME NEW d, NEW p, NEW kind,
         p.channel \notin Private, p.author # Bot, Answers(d, p, kind),
         NEW matching, ActorAllowed(d.actors, p, matching),
         \A g \in matching : p.author \in Members[g]
  PROVE  Granted(d, p, kind)
BY ActorsMayAsk DEF Granted

LEMMA GrantedIsEntitled ==
  ASSUME NEW d, PartsOK(d), NEW p \in Posts, NEW kind, Granted(d, p, kind)
  PROVE  Entitled(d, p, kind)
BY PlacesWithAnswers DEF Granted, Entitled
-----------------------------------------------------------------------------
(* The handler of an event. *)
LEMMA AnyStage ==
  ASSUME NEW r \in Handling, NEW s \in Stage
  PROVE  /\ [r EXCEPT !.stage = s] \in Handling
         /\ [r EXCEPT !.stage = s].stage = s
         /\ [r EXCEPT !.stage = s].trigger = r.trigger
         /\ [r EXCEPT !.stage = s].group = r.group
BY DEF Handling

LEMMA ToStage ==
  ASSUME handler \in [Handler -> Handling], NEW h \in Handler, NEW s, To(h, s)
  PROVE  handler' = [handler EXCEPT ![h] = [handler[h] EXCEPT !.stage = s]]
BY DEF To

(* What is let go of, or has queued its task, promises nothing more.          *)
LEMMA LeavingStages ==
  ASSUME NEW d, NEW p, NEW kind, NEW r \in Handling,
         PartsOK(d), p \in Posts, kind \in EventsOf(p),
         NEW s \in {"deny", "refuse", "react", "done"}
  PROVE  /\ [r EXCEPT !.stage = s] \in Handling
         /\ HandlingOK(d, p, kind, [r EXCEPT !.stage = s])
<1>1. s \in Stage
  BY DEF Stage
<1>2. [r EXCEPT !.stage = s] \in Handling /\ [r EXCEPT !.stage = s].stage = s
  BY <1>1, AnyStage
<1>3. s \notin Routed \cup Passed \cup {"file", "group", "none"}
  BY DEF Routed, Passed
<1> QED  BY <1>2, <1>3 DEF HandlingOK

LEMMA RoutedMessages ==
  ASSUME NEW d, NEW p \in Posts, NEW kind \in EventsOf(p), PartsOK(d), p.author # Bot
  PROVE  LET trigger == IF kind = "app_mention" THEN "AppMention" ELSE "Message"
         IN  Route(d, trigger) \in Handling /\ HandlingOK(d, p, kind, Route(d, trigger))
<1> DEFINE trigger == IF kind = "app_mention" THEN "AppMention" ELSE "Message"
<1>1. /\ Route(d, trigger).stage \in {"done", "channel"}
      /\ Route(d, trigger).trigger = trigger
  BY DEF Route
<1>2. Route(d, trigger) \in Handling
  BY DEF Route, Handling, Stage
<1> HIDE DEF trigger
<1>3. HandlingOK(d, p, kind, Route(d, trigger))
  BY <1>1 DEF HandlingOK, Routed, Passed, trigger
<1> QED  BY <1>2, <1>3 DEF trigger


(* A step of the handling of h, the others' being left alone. *)
Moves(h) ==
  \E r \in Handling :
    /\ handler' = [handler EXCEPT ![h] = r]
    /\ HandlingOK(deps, post, h[1], r)

LEMMA HandlersMove ==
  ASSUME HandlersOK, NEW h \in Handler, Moves(h), UNCHANGED <<deps, post>>
  PROVE  HandlersOK'
BY DEF HandlersOK, Moves

LEMMA HandlerKind ==
  ASSUME NEW h \in Handler
  PROVE  h[1] \in Kind
BY DEF Handler

LEMMA HandlingUnderWay ==
  ASSUME HandlersOK, NEW h \in Handler, handler[h].stage # "none"
  PROVE  /\ PartsOK(deps) /\ post \in Posts /\ h[1] \in EventsOf(post)
         /\ handler[h] \in Handling
         /\ HandlingOK(deps, post, h[1], handler[h])
BY DEF HandlersOK, HandlingOK

LEMMA LetGo ==
  ASSUME HandlersOK, NEW h \in Handler,
         PartsOK(deps), post \in Posts, h[1] \in EventsOf(post),
         NEW s \in {"deny", "refuse", "react", "done"}, To(h, s)
  PROVE  Moves(h)
<1>1. handler \in [Handler -> Handling] /\ handler[h] \in Handling
  BY DEF HandlersOK
<1> DEFINE r == [handler[h] EXCEPT !.stage = s]
<1>2. r \in Handling /\ HandlingOK(deps, post, h[1], r)
  BY <1>1, LeavingStages
<1>3. handler' = [handler EXCEPT ![h] = r]
  BY <1>1, ToStage
<1> HIDE DEF r
<1> QED  BY <1>2, <1>3 DEF Moves

LEMMA PassOn ==
  ASSUME HandlersOK, NEW h \in Handler, handler[h].stage \in Passed \cup {"channel", "group"},
         Granted(deps, post, h[1]), NEW s \in Passed, To(h, s)
  PROVE  Moves(h)
<1> DEFINE r == [handler[h] EXCEPT !.stage = s]
<1>1. handler \in [Handler -> Handling]
  BY DEF HandlersOK
<1>2. "none" \notin Passed \cup {"channel", "group"} /\ s \in Stage
      /\ s \notin {"none", "file", "group"}
  BY DEF Passed, Stage
<1>3. /\ PartsOK(deps) /\ post \in Posts /\ h[1] \in EventsOf(post)
      /\ handler[h] \in Handling
      /\ HandlingOK(deps, post, h[1], handler[h])
  BY <1>2, HandlingUnderWay
<1>4. r \in Handling /\ r.stage = s /\ r.trigger = handler[h].trigger
  BY <1>2, <1>3, AnyStage
<1> HIDE DEF r
<1>5. handler[h].stage \in Routed
  BY DEF Routed, Passed
<1>6. HandlingOK(deps, post, h[1], r)
  BY <1>2, <1>3, <1>4, <1>5 DEF HandlingOK
<1>7. handler' = [handler EXCEPT ![h] = r]
  BY <1>1, ToStage DEF r
<1> QED  BY <1>4, <1>6, <1>7 DEF Moves

LEMMA RefusedMoves ==
  ASSUME HandlersOK, NEW h \in Handler, handler[h].stage # "none", Refused(h)
  PROVE  Moves(h)
<1> DEFINE s == IF handler[h].trigger = "AppMention" THEN "deny" ELSE "done"
<1>1. s \in {"deny", "refuse", "react", "done"} /\ To(h, s)
  BY DEF Refused
<1> HIDE DEF s
<1> QED  BY <1>1, LetGo, HandlingUnderWay

LEMMA DecidedMoves ==
  ASSUME HandlersOK, NEW h \in Handler,
         handler[h].stage \in {"channel", "group"},
         post.channel \notin Private,
         h[1] # "app_mention" => Answers(deps, post, h[1]),
         NEW matching, \A g \in matching : post.author \in Members[g],
         Decided(deps, h, matching)
  PROVE  Moves(h)
<1>1. /\ PartsOK(deps) /\ post \in Posts
      /\ HandlingOK(deps, post, h[1], handler[h])
  BY HandlingUnderWay
<1>2. /\ post.author # Bot
      /\ handler[h].trigger = "AppMention" <=> h[1] = "app_mention"
  BY <1>1 DEF HandlingOK, Routed
<1>3. CASE Refused(h)
  BY <1>3, RefusedMoves
<1>4. CASE ~Refused(h)
  <2>1. /\ h[1] = "app_mention" => ChannelAllowed(deps.mention, ChannelName[post.channel])
        /\ ActorAllowed(deps.actors, post, matching)
        /\ \E s \in {"control", "judge"} : To(h, s)
    BY <1>2, <1>4 DEF Decided
  <2>2. Answers(deps, post, h[1])
    BY <2>1 DEF Answers
  <2>3. Granted(deps, post, h[1])
    BY <1>1, <1>2, <2>1, <2>2, DecidedIsGranted
  <2> QED  BY <2>1, <2>3, PassOn DEF Passed
<1> QED  BY <1>3, <1>4


LEMMA StartHandlerMoves ==
  ASSUME HandlersOK, NEW h \in Handler,
         PartsOK(deps), post \in Posts, h[1] \in EventsOf(post), StartHandler(deps, h)
  PROVE  Moves(h)
<1> DEFINE parsed == ParseSlackEvent(post, h[1])
           r == CASE parsed = "Ignored" -> [Idle EXCEPT !.stage = "done"]
                  [] parsed = "FileShared" -> [Idle EXCEPT !.stage = "file"]
                  [] OTHER -> Route(deps, parsed)
<1>1. handler' = [handler EXCEPT ![h] = r]
  BY DEF StartHandler
<1>2. Idle \in Handling
  BY DEF Idle, Handling, Stage
<1>3. CASE parsed = "Ignored"
  <2>1. r = [Idle EXCEPT !.stage = "done"]
    BY <1>3
  <2> HIDE DEF r, parsed
  <2> QED  BY <1>1, <1>2, <2>1, LeavingStages DEF Moves
<1>4. CASE parsed = "FileShared"
  <2>1. r = [Idle EXCEPT !.stage = "file"]
    BY <1>4
  <2>2. h[1] = "file_shared"
    BY <1>4, ParsedEvents
  <2> HIDE DEF r, parsed
  <2>3. "file" \in Stage /\ "file" \notin Routed \cup Passed \cup {"none", "group"}
    BY DEF Stage, Routed, Passed
  <2>4. r \in Handling /\ r.stage = "file"
    BY <1>2, <2>1, <2>3, AnyStage
  <2>5. HandlingOK(deps, post, h[1], r)
    BY <2>2, <2>3, <2>4 DEF HandlingOK
  <2> QED  BY <1>1, <2>4, <2>5 DEF Moves
<1>5. CASE parsed \in {"Message", "AppMention"}
  <2>1. r = Route(deps, parsed)
    BY <1>5
  <2>2. post.author # Bot
        /\ parsed = IF h[1] = "app_mention" THEN "AppMention" ELSE "Message"
    BY <1>5, ParsedEvents
  <2> HIDE DEF r, parsed
  <2> QED  BY <1>1, <2>1, <2>2, RoutedMessages DEF Moves
<1> QED  BY <1>3, <1>4, <1>5, ParsedEvents

LEMMA FetchSharedFileMessageMoves ==
  ASSUME HandlersOK, NEW h \in Handler, FetchSharedFileMessage(deps, h)
  PROVE  Moves(h)
<1>1. handler[h].stage = "file"
  BY DEF FetchSharedFileMessage
<1>2. /\ PartsOK(deps) /\ post \in Posts /\ h[1] \in EventsOf(post)
      /\ HandlingOK(deps, post, h[1], handler[h])
  BY <1>1, HandlingUnderWay
<1>3. h[1] = "file_shared" /\ post.author # Bot
  BY <1>1, <1>2, ParsedEvents DEF HandlingOK
<1>4. CASE handler' = [handler EXCEPT ![h] = Route(deps, "Message")]
  BY <1>2, <1>3, <1>4, RoutedMessages DEF Moves
<1>5. CASE Finish(h)
  BY <1>2, <1>5, LetGo DEF Finish
<1> QED  BY <1>4, <1>5 DEF FetchSharedFileMessage

LEMMA LookupChannelInfoMoves ==
  ASSUME HandlersOK, NEW h \in Handler, LookupChannelInfo(deps, h)
  PROVE  Moves(h)
<1>1. handler[h].stage = "channel"
  BY DEF LookupChannelInfo
<1>2. /\ PartsOK(deps) /\ post \in Posts /\ h[1] \in EventsOf(post)
      /\ handler[h] \in Handling
      /\ HandlingOK(deps, post, h[1], handler[h])
  BY <1>1, HandlingUnderWay
<1>3. /\ post.author # Bot
      /\ handler[h].trigger = IF h[1] = "app_mention" THEN "AppMention" ELSE "Message"
  BY <1>1, <1>2 DEF HandlingOK, Routed
<1> DEFINE unanswered ==
      /\ handler[h].trigger = "Message"
      /\ ~AutoResponsePolicyMatches(deps.auto_response, ChannelName[post.channel])
<1>4. CASE Refused(h)
  BY <1>1, <1>4, RefusedMoves
<1>5. CASE Finish(h)
  BY <1>2, <1>5, LetGo DEF Finish
<1>6. CASE ~Refused(h) /\ ~Finish(h)
  <2>1. /\ post.channel \notin Private
        /\ ~unanswered
        /\ IF GroupsDecide(deps.actors, post)
           THEN handler' = [handler EXCEPT ![h].stage = "group", ![h].group = 1]
           ELSE Decided(deps, h, {})
    BY <1>6 DEF LookupChannelInfo
  <2>2. h[1] # "app_mention" => Answers(deps, post, h[1])
    BY <1>3, <2>1 DEF Answers
  <2>3. CASE Decided(deps, h, {})
    BY <1>1, <2>1, <2>2, <2>3, DecidedMoves
  <2>4. CASE /\ GroupsDecide(deps.actors, post)
             /\ handler' = [handler EXCEPT ![h].stage = "group", ![h].group = 1]
    <3> DEFINE s == [handler[h] EXCEPT !.stage = "group"]
               r == [s EXCEPT !.group = 1]
    <3>1. handler' = [handler EXCEPT ![h] = r]
      BY <2>4 DEF HandlersOK
    <3>2. "group" \in Stage /\ "group" \in Routed /\ "group" \notin Passed \cup {"none", "file"}
      BY DEF Stage, Routed, Passed
    <3>3. s \in Handling /\ s.stage = "group" /\ s.trigger = handler[h].trigger
      BY <1>2, <3>2, AnyStage
    <3> HIDE DEF s
    <3>4. r \in Handling /\ r.stage = "group" /\ r.trigger = handler[h].trigger /\ r.group = 1
      BY <3>3 DEF Handling
    <3> HIDE DEF r
    <3>5. 1 \in DOMAIN deps.actors.user_group_ids
      <4>1. /\ deps.actors \in SlackAuthorizationActors
            /\ deps.actors.user_group_ids \notin {None, << >>}
        BY <1>2, <2>4 DEF PartsOK, Deps, Opt, GroupsDecide
      <4>2. deps.actors.user_group_ids \in Seq(Group)
        BY <4>1 DEF SlackAuthorizationActors, Opt
      <4> QED  BY <4>1, <4>2
    <3>6. HandlingOK(deps, post, h[1], r)
      BY <1>2, <1>3, <2>1, <2>2, <2>4, <3>2, <3>4, <3>5 DEF HandlingOK
    <3> QED  BY <3>1, <3>4, <3>6 DEF Moves
  <2> QED  BY <2>1, <2>3, <2>4
<1> QED  BY <1>4, <1>5, <1>6

LEMMA ListUserGroupMembersMoves ==
  ASSUME HandlersOK, NEW h \in Handler, ListUserGroupMembers(deps, h)
  PROVE  Moves(h)
<1> DEFINE groups == deps.actors.user_group_ids
           i == handler[h].group
<1>1. handler[h].stage = "group"
  BY DEF ListUserGroupMembers
<1>2. /\ PartsOK(deps) /\ post \in Posts /\ h[1] \in EventsOf(post)
      /\ handler[h] \in Handling
      /\ HandlingOK(deps, post, h[1], handler[h])
  BY <1>1, HandlingUnderWay
<1>3. /\ post.channel \notin Private
      /\ h[1] # "app_mention" => Answers(deps, post, h[1])
      /\ GroupsDecide(deps.actors, post)
      /\ i \in DOMAIN groups
  BY <1>1, <1>2 DEF HandlingOK
<1>4. CASE Refused(h)
  BY <1>1, <1>4, RefusedMoves
<1>5. CASE Decided(deps, h, {groups[i]}) /\ post.author \in Members[groups[i]]
  BY <1>1, <1>3, <1>5, DecidedMoves
<1>6. CASE Decided(deps, h, {})
  BY <1>1, <1>3, <1>6, DecidedMoves
<1>7. CASE i < Len(groups) /\ handler' = [handler EXCEPT ![h].group = i + 1]
  <2> DEFINE r == [handler[h] EXCEPT !.group = i + 1]
  <2>1. handler' = [handler EXCEPT ![h] = r]
    BY <1>7 DEF HandlersOK
  <2>2. groups \in Seq(Group)
    <3>1. deps.actors \in SlackAuthorizationActors /\ groups # None
      BY <1>2, <1>3 DEF PartsOK, Deps, Opt, GroupsDecide
    <3> QED  BY <3>1 DEF SlackAuthorizationActors, Opt
  <2>3. i + 1 \in DOMAIN groups /\ i \in Nat /\ i + 1 \in Nat
    BY <1>3, <1>7, <2>2
  <2>4. /\ r \in Handling /\ r.stage = "group"
        /\ r.trigger = handler[h].trigger /\ r.group = i + 1
    BY <1>1, <1>2, <2>3 DEF Handling
  <2> HIDE DEF r
  <2>5. "group" \in Routed /\ "group" \notin Passed \cup {"none", "file"}
    BY DEF Routed, Passed
  <2>6. HandlingOK(deps, post, h[1], r)
    BY <1>1, <1>2, <1>3, <2>3, <2>4, <2>5 DEF HandlingOK
  <2> QED  BY <2>1, <2>4, <2>6 DEF Moves
<1> QED  BY <1>4, <1>5, <1>6, <1>7 DEF ListUserGroupMembers

LEMMA LaterStagesMove ==
  ASSUME HandlersOK, NEW h \in Handler,
         \/ DenyMention(h) \/ Judge(h) \/ PostTaskControlMessage(h) \/ ReplyFailedToStart(h)
         \/ EnqueueJob(h) \/ AddQueueAcceptedReaction(h)
  PROVE  Moves(h)
<1>1. handler[h].stage # "none"
  BY DEF DenyMention, Judge, PostTaskControlMessage, ReplyFailedToStart, EnqueueJob,
     AddQueueAcceptedReaction
<1>2. /\ PartsOK(deps) /\ post \in Posts /\ h[1] \in EventsOf(post)
      /\ HandlingOK(deps, post, h[1], handler[h])
  BY <1>1, HandlingUnderWay
<1>3. CASE \E s \in {"deny", "refuse", "react", "done"} : To(h, s)
  BY <1>2, <1>3, LetGo
<1>4. CASE /\ handler[h].stage \in {"judge", "control"}
           /\ \E s \in {"control", "enqueue"} : To(h, s)
  <2>1. handler[h].stage \in Passed /\ {"control", "enqueue"} \subseteq Passed
    BY <1>4 DEF Passed
  <2>2. Granted(deps, post, h[1])
    BY <1>2, <2>1 DEF HandlingOK
  <2> QED  BY <1>4, <2>1, <2>2, PassOn
<1> QED
  BY <1>3, <1>4 DEF DenyMention, Judge, PostTaskControlMessage, ReplyFailedToStart,
     EnqueueJob, AddQueueAcceptedReaction, Finish


LEMMA HandleMoves ==
  ASSUME HandlersOK, TasksOK, NEW h \in Handler, Handle(deps, h),
         UNCHANGED deps
  PROVE  HandlersOK' /\ TasksOK' /\ UNCHANGED post
<1>1. UNCHANGED post
  BY DEF Handle, FetchSharedFileMessage, LookupChannelInfo, ListUserGroupMembers, DenyMention,
     Judge, PostTaskControlMessage, ReplyFailedToStart, EnqueueJob, AddQueueAcceptedReaction
<1>2. Moves(h)
  BY FetchSharedFileMessageMoves, LookupChannelInfoMoves, ListUserGroupMembersMoves,
     LaterStagesMove DEF Handle
<1>3. HandlersOK'
  BY <1>1, <1>2, HandlersMove
<1>4. \/ UNCHANGED tasks
      \/ handler[h].stage = "enqueue" /\ tasks' = tasks \cup {h}
  BY DEF Handle, FetchSharedFileMessage, LookupChannelInfo, ListUserGroupMembers, DenyMention,
     Judge, PostTaskControlMessage, ReplyFailedToStart, EnqueueJob, AddQueueAcceptedReaction
<1>5. CASE UNCHANGED tasks
  BY <1>1, <1>3, <1>5 DEF TasksOK
<1>6. CASE handler[h].stage = "enqueue" /\ tasks' = tasks \cup {h}
  <2>1. PartsOK(deps) /\ post \in Posts /\ HandlingOK(deps, post, h[1], handler[h])
    BY <1>6, HandlingUnderWay
  <2>2. Granted(deps, post, h[1])
    BY <1>6, <2>1 DEF HandlingOK, Passed
  <2> QED  BY <1>1, <1>3, <1>6, <2>1, <2>2 DEF TasksOK
<1> QED  BY <1>1, <1>3, <1>4, <1>5, <1>6
-----------------------------------------------------------------------------
(* Startup: what the parts are made of. *)
LEMMA SettingsOfAFile ==
  ASSUME NEW f \in FileConfigs
  PROVE  SettingsOK(ResolveAppConfig(f))
<1>1. f.slack \in SlackFileConfig
  BY DEF FileConfigs
<1>2. /\ f.slack.socket_mode \in BOOLEAN
      /\ f.slack.channels \in Seq(SlackChannelFileConfig)
      /\ f.slack.actors \in Opt(SlackAuthorizationActors)
  BY <1>1 DEF SlackFileConfig
<1>3. ResolveActors(f.slack.actors) \in Opt(SlackAuthorizationActors)
  BY <1>2 DEF ResolveActors, Opt
<1>4. /\ ResolveAppConfig(f).mode = IF f.slack.socket_mode THEN "socket" ELSE "http"
      /\ ResolveAppConfig(f).signing_secret = ~f.slack.socket_mode
      /\ ResolveAppConfig(f).actors = ResolveActors(f.slack.actors)
      /\ ResolveAppConfig(f).channels = f.slack.channels
  BY DEF ResolveAppConfig
<1> QED  BY <1>2, <1>3, <1>4 DEF SettingsOK

LEMMA LoadedSettings ==
  ASSUME NEW f, NEW e, LoadAppConfig(f, e).ok
  PROVE  Accepted(f, e, LoadAppConfig(f, e).config)
<1>1. \/ \E field : LoadAppConfig(f, e) = Failed(field)
      \/ /\ Parses(f) /\ Failures(Checks(f, e)) = {}
         /\ LoadAppConfig(f, e) = Loaded(ResolveAppConfig(f))
  BY DEF LoadAppConfig
<1>2. \A field : ~Failed(field).ok
  BY DEF Failed
<1> QED  BY <1>1, <1>2 DEF Loaded, Accepted

LEMMA PartsOfSettings ==
  ASSUME NEW c, SettingsOK(c)
  PROVE  PartsOK(PartsOf(c))
<1> DEFINE d == PartsOf(c)
<1>1. /\ d.mode = c.mode /\ d.verifier = (c.mode = "http" /\ c.signing_secret)
      /\ d.mention = UNION Names(c.channels, "mention") /\ d.actors = c.actors
      /\ d.auto_response = AutoResponseGate(c) /\ d.scheduler = BuildsScheduler(c)
      /\ d.channels = c.channels
  BY DEF PartsOf
<1>2. \A setting : Names(c.channels, setting) \in SUBSET SUBSET Pattern
  <2> SUFFICES ASSUME NEW i \in DOMAIN c.channels
               PROVE  ToSet(c.channels[i].names) \subseteq Pattern
    BY DEF Names
  <2>1. c.channels[i] \in SlackChannelFileConfig
    BY DEF SettingsOK
  <2>2. c.channels[i].names \in Seq(Pattern)
    BY <2>1 DEF SlackChannelFileConfig
  <2> QED  BY <2>2 DEF ToSet
<1>3. AutoResponseGate(c) \in {{}, Names(c.channels, "auto_response")}
  BY DEF AutoResponseGate
<1>4. d \in Deps
  <2>1. /\ d.mode \in {"http", "socket"} /\ d.verifier \in BOOLEAN
        /\ d.mention \in SUBSET Pattern /\ d.actors \in Opt(SlackAuthorizationActors)
        /\ d.auto_response \in SUBSET SUBSET Pattern /\ d.scheduler \in BOOLEAN
        /\ d.channels \in Seq(SlackChannelFileConfig)
    BY <1>1, <1>2, <1>3 DEF SettingsOK, BuildsScheduler
  <2>2. d = [mode |-> d.mode, verifier |-> d.verifier, mention |-> d.mention,
             actors |-> d.actors, auto_response |-> d.auto_response,
             scheduler |-> d.scheduler, channels |-> d.channels]
    BY DEF PartsOf
  <2> HIDE DEF d
  <2> QED  BY <2>1, <2>2 DEF Deps
<1> HIDE DEF d
<1>5. PartsOK(d)
  BY <1>1, <1>3, <1>4 DEF PartsOK
<1> QED  BY <1>5 DEF d

-----------------------------------------------------------------------------
(* The steps of the process. *)
LEMMA RuntimeInitInv == Init => RuntimeInv
<1> SUFFICES ASSUME Init PROVE RuntimeInv
  OBVIOUS
<1> USE DEF Init, IngressInit, SocketInit
<1>1. Idle \in Handling /\ Idle.stage = "none"
  BY DEF Idle, Handling, Stage
<1>2. Quiet
  BY <1>1 DEF Quiet
<1>3. StartOK
  BY <1>2, RuntimeAssumption DEF StartOK, Phase, Opt
<1>4. HandlersOK
  <2>1. \A h \in Handler : HandlingOK(deps, post, h[1], handler[h])
    BY <1>1 DEF HandlingOK, Routed, Passed
  <2> QED  BY <1>1, <2>1 DEF HandlersOK
<1>5. TasksOK
  BY DEF TasksOK
<1>6. LinkOK
  BY OffIsALink DEF LinkOK
<1> QED  BY <1>3, <1>4, <1>5, <1>6 DEF RuntimeInv, Opt

(* Nothing was handled yet, and nothing is by the step.                      *)
LEMMA QuietSteps ==
  ASSUME Quiet, HandlersOK, UNCHANGED <<ingressVars>>
  PROVE  Quiet' /\ HandlersOK' /\ TasksOK' /\ UNCHANGED post
<1> USE DEF ingressVars
<1>1. Quiet' /\ UNCHANGED post
  BY DEF Quiet
<1>2. HandlersOK'
  <2>1. \A h \in Handler : HandlingOK(deps', post', h[1], handler'[h])
    BY DEF Quiet, HandlingOK, Routed, Passed
  <2> QED  BY <2>1 DEF HandlersOK
<1> QED  BY <1>1, <1>2 DEF Quiet, TasksOK

LEMMA FailSteps ==
  ASSUME RuntimeInv, Fail
  PROVE  RuntimeInv'
<1>1. /\ UNCHANGED <<deps, post, handler, tasks, link, shutdown>>
      /\ phase' = "failed" /\ file' = None /\ env' = None
  BY DEF Fail, ingressVars, socketVars
<1>2. StartOK'
  BY <1>1 DEF RuntimeInv, StartOK, Phase, Opt
<1>3. HandlersOK' /\ TasksOK' /\ LinkOK'
  BY <1>1 DEF RuntimeInv, HandlersOK, TasksOK, LinkOK
<1> QED  BY <1>1, <1>2, <1>3 DEF RuntimeInv

LEMMA LoadSteps ==
  ASSUME RuntimeInv, Load
  PROVE  RuntimeInv'
<1>1. CASE Fail
  BY <1>1, FailSteps
<1>2. CASE ~Fail
  <2>1. /\ phase = "loading" /\ phase' = "bootstrapping"
        /\ LoadAppConfig(file, env).ok
        /\ config' = LoadAppConfig(file, env).config
        /\ file' = None /\ env' = None
        /\ UNCHANGED <<deps, ingressVars, socketVars>>
    BY <1>2 DEF Load
  <2>2. file \in FileConfigs /\ env \in Environment /\ Quiet
    BY <2>1 DEF RuntimeInv, StartOK
  <2>3. Accepted(file, env, config')
    BY <2>1, LoadedSettings
  <2>4. Quiet' /\ HandlersOK' /\ TasksOK' /\ UNCHANGED post
    BY <2>1, <2>2, QuietSteps DEF RuntimeInv
  <2>5. StartOK'
    BY <2>1, <2>2, <2>3, <2>4 DEF RuntimeInv, StartOK, Phase, Opt
  <2>6. LinkOK'
    BY <2>1 DEF RuntimeInv, LinkOK, socketVars
  <2> QED  BY <2>4, <2>5, <2>6 DEF RuntimeInv
<1> QED  BY <1>1, <1>2

LEMMA BuildSteps ==
  ASSUME RuntimeInv, BuildRuntimeDeps
  PROVE  RuntimeInv'
<1>1. CASE Fail
  BY <1>1, FailSteps
<1>2. CASE ~Fail
  <2>1. /\ phase = "bootstrapping" /\ phase' = "ready"
        /\ deps' = PartsOf(config)
        /\ UNCHANGED <<file, env, ingressVars, socketVars>>
    BY <1>2 DEF BuildRuntimeDeps
  <2>2. SettingsOK(config) /\ Quiet
    BY <2>1, SettingsOfAFile DEF RuntimeInv, StartOK, Accepted
  <2>3. PartsOK(deps')
    BY <2>1, <2>2, PartsOfSettings
  <2>4. Quiet' /\ HandlersOK' /\ TasksOK' /\ UNCHANGED post
    BY <2>1, <2>2, QuietSteps DEF RuntimeInv
  <2>5. StartOK'
    BY <2>1, <2>3, <2>4 DEF RuntimeInv, StartOK, Phase
  <2>6. LinkOK'
    BY <2>1 DEF RuntimeInv, LinkOK, socketVars
  <2> QED  BY <2>4, <2>5, <2>6 DEF RuntimeInv
<1> QED  BY <1>1, <1>2

LEMMA ServeSteps ==
  ASSUME RuntimeInv, Serve
  PROVE  RuntimeInv'
<1>1. CASE Fail
  BY <1>1, FailSteps
<1>2. CASE ~Fail
  <2>1. /\ phase = "ready" /\ phase' = "serving"
        /\ (StartClient /\ UNCHANGED shutdown) \/ UNCHANGED <<link, shutdown>>
        /\ UNCHANGED <<file, env, deps, ingressVars>>
    BY <1>2 DEF Serve
  <2>2. Quiet
    BY <2>1 DEF RuntimeInv, StartOK
  <2>3. Quiet' /\ HandlersOK' /\ TasksOK' /\ UNCHANGED post
    BY <2>1, <2>2, QuietSteps DEF RuntimeInv
  <2>4. StartOK'
    BY <2>1, <2>3 DEF RuntimeInv, StartOK, Phase
  <2>5. LinkOK'
    BY <2>1, ClientKeepsTypes DEF RuntimeInv, LinkOK
  <2> QED  BY <2>3, <2>4, <2>5 DEF RuntimeInv
<1> QED  BY <1>1, <1>2

(* The steps while it serves leave the settings alone.                       *)
LEMMA ServingSteps ==
  ASSUME RuntimeInv, Serving, UNCHANGED startVars
  PROVE  StartOK' /\ PartsOK(deps) /\ UNCHANGED deps
BY DEF RuntimeInv, StartOK, Serving, startVars

LEMMA MakePostSteps ==
  ASSUME RuntimeInv, MakePost
  PROVE  RuntimeInv'
<1>1. /\ Serving /\ post = None /\ post' \in Posts
      /\ UNCHANGED <<startVars, handler, tasks, link, shutdown>>
  BY DEF MakePost, socketVars
<1>2. StartOK'
  BY <1>1, ServingSteps
<1>3. \A h \in Handler : handler[h].stage = "none"
  BY <1>1, IngressAssumption, HandlingUnderWay DEF RuntimeInv
<1>4. HandlersOK'
  <2>1. \A h \in Handler : HandlingOK(deps', post', h[1], handler'[h])
    BY <1>1, <1>3 DEF HandlingOK, Routed, Passed
  <2> QED  BY <1>1, <2>1 DEF HandlersOK, RuntimeInv
<1>5. TasksOK'
  BY <1>1, IngressAssumption DEF RuntimeInv, TasksOK
<1>6. LinkOK'
  BY <1>1 DEF RuntimeInv, LinkOK
<1> QED  BY <1>1, <1>2, <1>4, <1>5, <1>6 DEF RuntimeInv, Opt

LEMMA DroppedEvents ==
  ASSUME HandlersOK, NEW h \in Handler,
         PartsOK(deps), post \in Posts, h[1] \in EventsOf(post), DropEvent(h)
  PROVE  Moves(h) /\ UNCHANGED <<post, tasks>>
BY LetGo DEF DropEvent, Finish

LEMMA DeliverySteps ==
  ASSUME RuntimeInv, NEW h \in Handler, ReceiveRequest(h) \/ ReceiveEnvelope(h)
  PROVE  RuntimeInv'
<1>1. /\ Serving /\ Undelivered(h) /\ UNCHANGED startVars
      /\ StartHandler(deps, h) \/ DropEvent(h)
      /\ UNCHANGED socketVars \/ AgainAfterFailure
  BY DEF ReceiveRequest, ReceiveEnvelope
<1>2. StartOK' /\ PartsOK(deps) /\ UNCHANGED deps
  BY <1>1, ServingSteps
<1>3. post \in Posts /\ h[1] \in EventsOf(post)
  BY <1>1 DEF Undelivered, RuntimeInv, Opt
<1>4. Moves(h) /\ UNCHANGED <<post, tasks>>
  BY <1>1, <1>2, <1>3, StartHandlerMoves, DroppedEvents DEF RuntimeInv, StartHandler
<1>5. HandlersOK' /\ TasksOK'
  BY <1>2, <1>4, HandlersMove DEF RuntimeInv, TasksOK
<1>6. LinkOK'
  BY <1>1, ClientKeepsTypes DEF RuntimeInv, LinkOK, socketVars
<1> QED  BY <1>2, <1>4, <1>5, <1>6 DEF RuntimeInv

LEMMA HandlingSteps ==
  ASSUME RuntimeInv, NEW h \in Handler, HangUp(h) \/ HandleStep(h)
  PROVE  RuntimeInv'
<1>1. Serving /\ UNCHANGED startVars /\ UNCHANGED socketVars
  BY DEF HangUp, HandleStep
<1>2. StartOK' /\ PartsOK(deps) /\ UNCHANGED deps
  BY <1>1, ServingSteps
<1>3. LinkOK'
  BY <1>1 DEF RuntimeInv, LinkOK, socketVars
<1>4. CASE HandleStep(h)
  BY <1>2, <1>3, <1>4, HandleMoves DEF RuntimeInv, HandleStep
<1>5. CASE HangUp(h)
  <2>1. handler[h].stage # "none" /\ DropEvent(h)
    BY <1>5 DEF HangUp, UnderWay
  <2>2. post \in Posts /\ h[1] \in EventsOf(post)
    BY <2>1, HandlingUnderWay DEF RuntimeInv
  <2>3. Moves(h) /\ UNCHANGED <<post, tasks>>
    BY <1>2, <2>1, <2>2, DroppedEvents DEF RuntimeInv
  <2>4. HandlersOK' /\ TasksOK'
    BY <1>2, <2>3, HandlersMove DEF RuntimeInv, TasksOK
  <2> QED  BY <1>2, <1>3, <2>3, <2>4 DEF RuntimeInv
<1> QED  BY <1>4, <1>5

LEMMA OtherServingSteps ==
  ASSUME RuntimeInv, SocketStep \/ Signal \/ Stop \/ UNCHANGED vars
  PROVE  RuntimeInv'
<1>1. UNCHANGED <<post, handler, tasks, deps, file, env>>
  BY DEF SocketStep, Signal, Stop, vars, startVars, ingressVars
<1>2. HandlersOK' /\ TasksOK'
  BY <1>1 DEF RuntimeInv, HandlersOK, TasksOK
<1>3. LinkOK'
  BY ClientKeepsTypes
     DEF RuntimeInv, SocketStep, Signal, Stop, vars, socketVars, LinkOK
<1>4. StartOK'
  <2>1. CASE SocketStep \/ Signal
    BY <2>1, ServingSteps DEF SocketStep, Signal
  <2>2. CASE Stop
    <3>1. phase = "serving" /\ phase' \in {"stopped", "failed"}
      BY <2>2 DEF Stop, Serving
    <3> QED  BY <1>1, <3>1 DEF RuntimeInv, StartOK, Phase
  <2>3. CASE UNCHANGED vars
    BY <2>3 DEF RuntimeInv, StartOK, vars, startVars, ingressVars, Quiet
  <2> QED  BY <2>1, <2>2, <2>3
<1> QED  BY <1>1, <1>2, <1>3, <1>4 DEF RuntimeInv

LEMMA RuntimeStepInv == RuntimeInv /\ [Next]_vars => RuntimeInv'
BY LoadSteps, BuildSteps, ServeSteps, MakePostSteps, DeliverySteps, HandlingSteps,
   OtherServingSteps DEF Next

LEMMA RuntimeInvHolds == Spec => []RuntimeInv
BY RuntimeInitInv, RuntimeStepInv, PTL DEF Spec

(***************************************************************************)
(* Types: every variable has its own, whatever the process has come to; a   *)
(* group that the handler looks up is one of those that the settings list,  *)
(* so handler.rs never asks past the end of the list.                      *)
(***************************************************************************)
THEOREM RuntimeTypesHold == Spec => []RuntimeTypeOK
<1>1. RuntimeInv => RuntimeTypeOK
  <2> SUFFICES ASSUME RuntimeInv PROVE RuntimeTypeOK
    OBVIOUS
  <2>1. deps \in Opt(Deps)
    BY DEF RuntimeInv, StartOK, PartsOK, Opt
  <2>2. ASSUME NEW h \in Handler
        PROVE  /\ handler[h].stage \in Stage
               /\ handler[h].stage = "group" => handler[h].group \in DOMAIN deps.actors.user_group_ids
    <3>1. handler[h] \in Handling /\ HandlingOK(deps, post, h[1], handler[h])
      BY DEF RuntimeInv, HandlersOK
    <3> QED  BY <3>1 DEF Handling, HandlingOK
  <2> QED  BY <2>1, <2>2 DEF RuntimeInv, RuntimeTypeOK, StartOK, TasksOK, LinkOK
<1> QED  BY <1>1, RuntimeInvHolds, PTL

(***************************************************************************)
(* Authorization: a task is only ever queued for someone whom the settings  *)
(* let ask, in a public channel where they have such a message answered,    *)
(* and never for Reili itself; whatever the file, the members of the groups *)
(* and the order in which the events of a post are delivered, repeated and   *)
(* abandoned.  The reference for the patterns of channels is Glob.          *)
(***************************************************************************)
THEOREM TasksAreForTheEntitled == Spec => []TasksAreEntitled
<1>1. RuntimeInv => TasksAreEntitled
  BY GrantedIsEntitled DEF RuntimeInv, TasksOK, TasksAreEntitled
<1> QED  BY <1>1, RuntimeInvHolds, PTL
-----------------------------------------------------------------------------
(* What the checks of the settings say when none of them fails: each resolver
   of loader.rs by itself, then all of them in a row. *)
IsSeq(s) == \E S : s \in Seq(S)

LEMMA Joined ==
  ASSUME NEW s, NEW t, IsSeq(s), IsSeq(t)
  PROVE  /\ IsSeq(s \o t)
         /\ Failures(s \o t) = {} => Failures(s) = {} /\ Failures(t) = {}
<1>1. PICK S : s \in Seq(S)
  BY DEF IsSeq
<1>2. PICK T : t \in Seq(T)
  BY DEF IsSeq
<1>3. s \in Seq(S \cup T) /\ t \in Seq(S \cup T)
  BY <1>1, <1>2
<1>4. /\ s \o t \in Seq(S \cup T)
      /\ \A i \in DOMAIN s : i \in DOMAIN (s \o t) /\ (s \o t)[i] = s[i]
      /\ \A i \in DOMAIN t : Len(s) + i \in DOMAIN (s \o t) /\ (s \o t)[Len(s) + i] = t[i]
  BY <1>3
<1> QED  BY <1>4 DEF IsSeq, Failures

LEMMA Listed ==
  ASSUME NEW s, NEW n \in Nat, s = [i \in 1..n |-> s[i]]
  PROVE  IsSeq(s)
<1>1. s \in Seq({s[i] : i \in 1..n})
  OBVIOUS
<1> QED  BY <1>1 DEF IsSeq

LEMMA Tuples ==
  /\ IsSeq(<< >>)
  /\ \A a : IsSeq(<<a>>)
  /\ \A a, b : IsSeq(<<a, b>>)
<1>1. << >> \in Seq({})
  OBVIOUS
<1>2. \A a : <<a>> \in Seq({a})
  OBVIOUS
<1>3. \A a, b : <<a, b>> \in Seq({a, b})
  OBVIOUS
<1> QED  BY <1>1, <1>2, <1>3 DEF IsSeq

LEMMA NoneFails ==
  ASSUME NEW s, Failures(s) = {}
  PROVE  \A i \in DOMAIN s : s[i].holds
BY DEF Failures

(* The variable v is set in the environment e. *)
IsSet(e, v) == e[v] \notin {"unset", "blank"}

LEMMA SecretHolds ==
  ASSUME NEW e, NEW v, NEW field, NEW s, NEW i \in DOMAIN s,
         s[i] = Secret(e, v, field), Failures(s) = {}
  PROVE  IsSet(e, v)
<1>1. s[i].holds
  BY NoneFails
<1>2. s[i].holds = IsSet(e, v)
  BY DEF Secret, Check, IsSet
<1> QED  BY <1>1, <1>2

(* The API keys of a backend. *)
LEMMA BackendChecked ==
  ASSUME NEW ai, NEW id \in Defined(ai.backends), NEW e
  PROVE  /\ IsSeq(BackendAuthChecks(ai.backends[id], e))
         /\ Failures(BackendAuthChecks(ai.backends[id], e)) = {} =>
              \A v \in SecretsOfBackend(ai, id) : IsSet(e, v)
<1> DEFINE b == ai.backends[id]
           s == BackendAuthChecks(b, e)
<1>1. Provider(ai, id) = b.provider
  BY DEF Provider
<1>2. CASE b.provider \in {"openai", "anthropic"}
  <2>1. s = <<Secret(e, KeyVar(b), "ai.backends.api_key_env")>>
    BY <1>2 DEF BackendAuthChecks
  <2>2. SecretsOfBackend(ai, id) = {KeyVar(b)}
    BY <1>1, <1>2 DEF SecretsOfBackend
  <2> HIDE DEF s, b
  <2>3. 1 \in DOMAIN s /\ s[1] = Secret(e, KeyVar(b), "ai.backends.api_key_env")
    BY <2>1
  <2>4. Failures(s) = {} => IsSet(e, KeyVar(b))
    BY <2>3, SecretHolds
  <2>5. IsSeq(s)
    BY <2>1, Tuples
  <2> QED  BY <2>2, <2>4, <2>5 DEF s, b
<1>3. CASE b.provider = "bedrock_mantle" /\ b.api_key_env # None
  <2>1. s = <<Check(~b.iam, "ai.backends.api_key_env"),
              Secret(e, b.api_key_env, "ai.backends.api_key_env")>>
    BY <1>3 DEF BackendAuthChecks
  <2>2. SecretsOfBackend(ai, id) = {b.api_key_env}
    BY <1>1, <1>3 DEF SecretsOfBackend
  <2> HIDE DEF s, b
  <2>3. 2 \in DOMAIN s /\ s[2] = Secret(e, b.api_key_env, "ai.backends.api_key_env")
    BY <2>1
  <2>4. Failures(s) = {} => IsSet(e, b.api_key_env)
    BY <2>3, SecretHolds
  <2>5. IsSeq(s)
    BY <2>1, Tuples
  <2> QED  BY <2>2, <2>4, <2>5 DEF s, b
<1>4. CASE /\ b.provider \notin {"openai", "anthropic"}
           /\ ~(b.provider = "bedrock_mantle" /\ b.api_key_env # None)
  <2>1. s = << >>
    BY <1>4 DEF BackendAuthChecks
  <2>2. SecretsOfBackend(ai, id) = {}
    BY <1>1, <1>4 DEF SecretsOfBackend
  <2> QED  BY <2>1, <2>2, Tuples
<1> QED  BY <1>2, <1>3, <1>4

LEMMA CheckHolds ==
  ASSUME NEW p \in BOOLEAN, NEW field, NEW s, NEW i \in DOMAIN s,
         s[i] = Check(p, field), Failures(s) = {}
  PROVE  p
<1>1. s[i].holds
  BY NoneFails
<1>2. s[i].holds = p
  BY DEF Check
<1> QED  BY <1>1, <1>2

LEMMA OneCheck ==
  ASSUME NEW p \in BOOLEAN, NEW field
  PROVE  /\ IsSeq(<<Check(p, field)>>)
         /\ Failures(<<Check(p, field)>>) = {} => p
<1> DEFINE s == <<Check(p, field)>>
<1>1. 1 \in DOMAIN s /\ s[1] = Check(p, field)
  OBVIOUS
<1>2. IsSeq(s)
  BY Tuples
<1> HIDE DEF s
<1>3. Failures(s) = {} => p
  BY <1>1, CheckHolds
<1> QED  BY <1>2, <1>3 DEF s

LEMMA RoleChecked ==
  ASSUME NEW ai, NEW role, NEW e
  PROVE  /\ IsSeq(RoleChecks(ai, role, e))
         /\ Failures(RoleChecks(ai, role, e)) = {} =>
              /\ role.id \in Defined(ai.backends)
              /\ \A v \in SecretsOfBackend(ai, role.id) : IsSet(e, v)
<1> DEFINE known == role.id \in Defined(ai.backends)
           s == <<Check(known, role.field)>>
           t == IF ~known THEN << >> ELSE BackendAuthChecks(ai.backends[role.id], e)
<1>1. RoleChecks(ai, role, e) = s \o t
  BY DEF RoleChecks
<1>2. IsSeq(s) /\ (Failures(s) = {} => known)
  <2>1. 1 \in DOMAIN s /\ s[1] = Check(known, role.field) /\ IsSeq(s) /\ known \in BOOLEAN
    BY Tuples
  <2> HIDE DEF s, known
  <2> QED  BY <2>1, CheckHolds
<1>3. IsSeq(t)
  BY Tuples, BackendChecked
<1>4. known /\ Failures(t) = {} => \A v \in SecretsOfBackend(ai, role.id) : IsSet(e, v)
  BY BackendChecked
<1> HIDE DEF s, t
<1> QED  BY <1>1, <1>2, <1>3, <1>4, Joined

(* The two roles of a run; the lead's key is the key of both. *)
LEMMA LlmChecked ==
  ASSUME NEW ai, NEW e
  PROVE  /\ IsSeq(LlmChecks(ai, e))
         /\ Failures(LlmChecks(ai, e)) = {} =>
              /\ LeadBackend(ai).id \in Defined(ai.backends)
              /\ \A v \in SecretsOfBackend(ai, LeadBackend(ai).id) : IsSet(e, v)
              /\ Provider(ai, LeadBackend(ai).id) = "bedrock_mantle" =>
                   \A v \in SecretsOfBackend(ai, SubAgentBackend(ai).id) : IsSet(e, v)
<1> DEFINE lead == LeadBackend(ai)
           sub == SubAgentBackend(ai)
           known(role) == role.id \in Defined(ai.backends)
           l == ai.backends[lead.id]
           t == ai.backends[sub.id]
           both == <<Check(known(lead), lead.field), Check(known(sub), sub.field)>>
           alike == <<Check(l.provider = t.provider, sub.field)>>
           own == BackendAuthChecks(l, e)
           other == IF l.provider = "bedrock_mantle" THEN BackendAuthChecks(t, e) ELSE << >>
           rest == IF ~known(lead) \/ ~known(sub) THEN << >> ELSE alike \o own \o other
<1>1. LlmChecks(ai, e) = both \o rest
  BY DEF LlmChecks
<1>2. IsSeq(both) /\ IsSeq(alike)
  BY Tuples
<1>3. Failures(both) = {} => known(lead) /\ known(sub)
  <2>1. /\ 1 \in DOMAIN both /\ both[1] = Check(known(lead), lead.field)
        /\ 2 \in DOMAIN both /\ both[2] = Check(known(sub), sub.field)
    OBVIOUS
  <2>2. known(lead) \in BOOLEAN /\ known(sub) \in BOOLEAN
    OBVIOUS
  <2> HIDE DEF both, known
  <2> QED  BY <2>1, <2>2, CheckHolds
<1>4. known(lead) => /\ IsSeq(own)
                     /\ Failures(own) = {} => \A v \in SecretsOfBackend(ai, lead.id) : IsSet(e, v)
  BY BackendChecked
<1>5. known(sub) => /\ IsSeq(other)
                    /\ l.provider = "bedrock_mantle" /\ Failures(other) = {} =>
                         \A v \in SecretsOfBackend(ai, sub.id) : IsSet(e, v)
  BY BackendChecked, Tuples
<1>6. known(lead) => Provider(ai, lead.id) = l.provider
  BY DEF Provider
<1> HIDE DEF both, alike, own, other
<1>7. /\ IsSeq(rest)
      /\ known(lead) /\ known(sub) /\ Failures(rest) = {} => Failures(own) = {} /\ Failures(other) = {}
  <2>1. CASE ~known(lead) \/ ~known(sub)
    BY <2>1, Tuples
  <2>2. CASE known(lead) /\ known(sub)
    <3>1. IsSeq(own) /\ IsSeq(other) /\ rest = (alike \o own) \o other
      BY <2>2, <1>4, <1>5
    <3>2. /\ IsSeq(alike \o own)
          /\ Failures(alike \o own) = {} => Failures(alike) = {} /\ Failures(own) = {}
      BY <1>2, <3>1, Joined
    <3> HIDE DEF rest
    <3> QED  BY <3>1, <3>2, Joined
  <2> QED  BY <2>1, <2>2
<1> HIDE DEF rest, known, l
<1>8. /\ IsSeq(both \o rest)
      /\ Failures(both \o rest) = {} => Failures(both) = {} /\ Failures(rest) = {}
  BY <1>2, <1>7, Joined
<1>9. ASSUME Failures(both \o rest) = {}
      PROVE  /\ known(lead)
             /\ \A v \in SecretsOfBackend(ai, lead.id) : IsSet(e, v)
             /\ Provider(ai, lead.id) = "bedrock_mantle" =>
                  \A v \in SecretsOfBackend(ai, sub.id) : IsSet(e, v)
  BY <1>3, <1>4, <1>5, <1>6, <1>7, <1>8, <1>9
<1> QED  BY <1>1, <1>8, <1>9 DEF known

LEMMA WebSearchChecked ==
  ASSUME NEW ai, NEW e
  PROVE  /\ IsSeq(WebSearchChecks(ai, e))
         /\ Failures(WebSearchChecks(ai, e)) = {} =>
              /\ WebSearchBackend(ai).id \in Defined(ai.backends)
              /\ \/ \A v \in SecretsOfBackend(ai, WebSearchBackend(ai).id) : IsSet(e, v)
                 \/ NeedsNoWebSearch(ai)
<1> DEFINE web == WebSearchBackend(ai)
           known == web.id \in Defined(ai.backends)
           b == ai.backends[web.id]
           s == <<Check(known, web.field)>>
           t == IF ~known THEN << >>
                ELSE CASE b.provider \in {"openai", "anthropic"} -> BackendAuthChecks(b, e)
                       [] NeedsNoWebSearch(ai) -> << >>
                       [] OTHER -> <<Check(FALSE, web.field)>>
<1>1. WebSearchChecks(ai, e) = s \o t
  BY DEF WebSearchChecks
<1>2. IsSeq(s) /\ (Failures(s) = {} => known)
  <2>1. 1 \in DOMAIN s /\ s[1] = Check(known, web.field) /\ IsSeq(s) /\ known \in BOOLEAN
    BY Tuples
  <2> HIDE DEF s, known
  <2> QED  BY <2>1, CheckHolds
<1>3. /\ IsSeq(t)
      /\ known /\ Failures(t) = {} =>
           \/ \A v \in SecretsOfBackend(ai, web.id) : IsSet(e, v)
           \/ NeedsNoWebSearch(ai)
  <2>1. CASE ~known
    BY <2>1, Tuples
  <2>2. CASE known /\ b.provider \in {"openai", "anthropic"}
    <3>1. ~NeedsNoWebSearch(ai)
      BY <2>2 DEF NeedsNoWebSearch, SearchesNatively, WebSearchBackend
    <3>2. t = BackendAuthChecks(b, e)
      BY <2>2, <3>1
    <3> QED  BY <2>2, <3>2, BackendChecked
  <2>3. CASE known /\ b.provider \notin {"openai", "anthropic"} /\ NeedsNoWebSearch(ai)
    <3>1. t = << >>
      BY <2>3
    <3> QED  BY <2>3, <3>1, Tuples
  <2>4. CASE known /\ b.provider \notin {"openai", "anthropic"} /\ ~NeedsNoWebSearch(ai)
    <3>1. t = <<Check(FALSE, web.field)>>
      BY <2>4
    <3> QED  BY <3>1, OneCheck
  <2> QED  BY <2>1, <2>2, <2>3, <2>4
<1> HIDE DEF s, t
<1> QED  BY <1>1, <1>2, <1>3, Joined

-----------------------------------------------------------------------------
(* A connection is there, and its secrets are set.                           *)
LEMMA ConnectionChecked ==
  ASSUME NEW connector, NEW selected, NEW field, NEW e,
         NEW kind \in {"github", "datadog", "esa", "jira"}
  PROVE  /\ IsSeq(ConnectionChecks(connector, selected, field, kind, e))
         /\ Failures(ConnectionChecks(connector, selected, field, kind, e)) = {} =>
              /\ SelectNamed(connector, selected) # None
              /\ \A v \in SecretsOfSelected(connector, selected, kind) : IsSet(e, v)
<1> DEFINE name == SelectNamed(connector, selected)
           named == Connections(connector)[name]
           secrets == ConnectionSecrets(kind, named)
           there == name # None
           s == <<Check(there, field)>>
           each == [i \in DOMAIN secrets |-> Secret(e, secrets[i], secrets[i])]
           t == IF name = None THEN << >> ELSE each
<1>1. ConnectionChecks(connector, selected, field, kind, e) = s \o t
  BY DEF ConnectionChecks
<1>2. IsSeq(s) /\ (Failures(s) = {} => there)
  <2>1. 1 \in DOMAIN s /\ s[1] = Check(there, field) /\ IsSeq(s) /\ there \in BOOLEAN
    BY Tuples
  <2> HIDE DEF s, there
  <2> QED  BY <2>1, CheckHolds
<1>3. \E n \in Nat : DOMAIN secrets = 1..n
  <2>1. DOMAIN GitHubSecrets(named) = 1..1 /\ DOMAIN DatadogSecrets(named) = 1..2
        /\ DOMAIN EsaSecrets(named) = 1..1 /\ DOMAIN JiraSecrets(named) = 1..1
    BY DEF GitHubSecrets, DatadogSecrets, EsaSecrets, JiraSecrets
  <2>2. secrets \in {GitHubSecrets(named), DatadogSecrets(named), EsaSecrets(named), JiraSecrets(named)}
    BY DEF ConnectionSecrets
  <2> HIDE DEF secrets, named
  <2> QED  BY <2>1, <2>2
<1>4. SecretsOfSelected(connector, selected, kind) =
        IF there THEN {secrets[i] : i \in DOMAIN secrets} ELSE {}
  BY DEF SecretsOfSelected, ToSet
<1> HIDE DEF secrets
<1>5. IsSeq(each)
  <2>1. PICK n \in Nat : DOMAIN secrets = 1..n
    BY <1>3
  <2>2. each = [i \in 1..n |-> each[i]]
    BY <2>1
  <2> HIDE DEF each
  <2> QED  BY <2>2, Listed
<1>6. ASSUME NEW i \in DOMAIN secrets, Failures(each) = {}
      PROVE  IsSet(e, secrets[i])
  <2>1. i \in DOMAIN each /\ each[i] = Secret(e, secrets[i], secrets[i])
    OBVIOUS
  <2> HIDE DEF each
  <2> QED  BY <1>6, <2>1, SecretHolds
<1>7. IsSeq(t)
  BY <1>5, Tuples
<1>8. there => t = each
  OBVIOUS
<1> HIDE DEF s, t, each, there
<1>9. IsSeq(s \o t) /\ (Failures(s \o t) = {} => Failures(s) = {} /\ Failures(t) = {})
  BY <1>2, <1>7, Joined
<1> QED  BY <1>1, <1>2, <1>4, <1>6, <1>8, <1>9 DEF there

LEMMA ModeChecked ==
  ASSUME NEW slack, NEW e
  PROVE  /\ IsSeq(ConnectionModeChecks(slack, e))
         /\ Failures(ConnectionModeChecks(slack, e)) = {} =>
              IsSet(e, IF slack.socket_mode THEN OrDefault(slack.app_token_env, SLACK_APP_TOKEN)
                       ELSE OrDefault(slack.signing_secret_env, SLACK_SIGNING_SECRET))
<1> DEFINE s == ConnectionModeChecks(slack, e)
           app == OrDefault(slack.app_token_env, SLACK_APP_TOKEN)
           signing == OrDefault(slack.signing_secret_env, SLACK_SIGNING_SECRET)
<1>1. CASE slack.socket_mode
  <2>1. s = <<Secret(e, app, "slack.socket.app_token_env"),
              Check(e[app] = "xapp", "slack.socket.app_token_env")>>
    BY <1>1 DEF ConnectionModeChecks
  <2>2. IsSeq(s) /\ 1 \in DOMAIN s /\ s[1] = Secret(e, app, "slack.socket.app_token_env")
    BY <2>1, Tuples
  <2> HIDE DEF s
  <2>3. Failures(s) = {} => IsSet(e, app)
    BY <2>2, SecretHolds
  <2> QED  BY <1>1, <2>2, <2>3 DEF s
<1>2. CASE ~slack.socket_mode
  <2>1. s = <<Secret(e, signing, "slack.http.signing_secret_env")>>
    BY <1>2 DEF ConnectionModeChecks
  <2>2. IsSeq(s) /\ 1 \in DOMAIN s /\ s[1] = Secret(e, signing, "slack.http.signing_secret_env")
    BY <2>1, Tuples
  <2> HIDE DEF s
  <2>3. Failures(s) = {} => IsSet(e, signing)
    BY <2>2, SecretHolds
  <2> QED  BY <1>2, <2>2, <2>3 DEF s
<1> QED  BY <1>1, <1>2

LEMMA JudgeChecked ==
  ASSUME NEW f, NEW e
  PROVE  /\ IsSeq(JudgeChecks(f, e))
         /\ AutoResponds(f.slack.channels) /\ Failures(JudgeChecks(f, e)) = {} =>
              /\ JudgeBackend(f.ai).id \in Defined(f.ai.backends)
              /\ \A v \in SecretsOfBackend(f.ai, JudgeBackend(f.ai).id) : IsSet(e, v)
BY RoleChecked, Tuples DEF JudgeChecks

LEMMA OptionalConnectorChecked ==
  ASSUME NEW connector, NEW field, NEW e, NEW kind \in {"esa", "jira"}
  PROVE  /\ IsSeq(OptionalConnectorChecks(connector, field, kind, e))
         /\ Enabled(connector) /\ Failures(OptionalConnectorChecks(connector, field, kind, e)) = {} =>
              \A v \in SecretsOfSelected(connector, connector.selected, kind) : IsSet(e, v)
BY ConnectionChecked, Tuples DEF OptionalConnectorChecks

LEMMA ConnectorsChecked ==
  ASSUME NEW f, NEW e
  PROVE  /\ IsSeq(ConnectorChecks(f, e))
         /\ Failures(ConnectorChecks(f, e)) = {} =>
              /\ \A v \in SecretsOfSelected(DatadogUsed(f), f.datadog.selected, "datadog") : IsSet(e, v)
              /\ \A v \in SecretsOfSelected(f.github, f.github.selected, "github") : IsSet(e, v)
              /\ Enabled(f.esa) => \A v \in SecretsOfSelected(f.esa, f.esa.selected, "esa") : IsSet(e, v)
              /\ Enabled(f.jira) => \A v \in SecretsOfSelected(f.jira, f.jira.selected, "jira") : IsSet(e, v)
<1> DEFINE a == ConnectionChecks(DatadogUsed(f), f.datadog.selected, "datadog.mcp_connection", "datadog", e)
           b == ConnectionChecks(f.github, f.github.selected, "github.mcp_connection", "github", e)
           c == OptionalConnectorChecks(f.esa, "esa.agent_connection", "esa", e)
           d == OptionalConnectorChecks(f.jira, "jira.mcp_connection", "jira", e)
<1>1. ConnectorChecks(f, e) = ((a \o b) \o c) \o d
  BY DEF ConnectorChecks
<1>2. IsSeq(a) /\ IsSeq(b) /\ IsSeq(c) /\ IsSeq(d)
  BY ConnectionChecked, OptionalConnectorChecked
<1>3. Failures(a) = {} =>
        \A v \in SecretsOfSelected(DatadogUsed(f), f.datadog.selected, "datadog") : IsSet(e, v)
  BY ConnectionChecked
<1>4. Failures(b) = {} =>
        \A v \in SecretsOfSelected(f.github, f.github.selected, "github") : IsSet(e, v)
  BY ConnectionChecked
<1>5. Failures(c) = {} /\ Enabled(f.esa) =>
        \A v \in SecretsOfSelected(f.esa, f.esa.selected, "esa") : IsSet(e, v)
  BY OptionalConnectorChecked
<1>6. Failures(d) = {} /\ Enabled(f.jira) =>
        \A v \in SecretsOfSelected(f.jira, f.jira.selected, "jira") : IsSet(e, v)
  BY OptionalConnectorChecked
<1> HIDE DEF a, b, c, d
<1>7. IsSeq(a \o b) /\ (Failures(a \o b) = {} => Failures(a) = {} /\ Failures(b) = {})
  BY <1>2, Joined
<1>8. IsSeq((a \o b) \o c) /\ (Failures((a \o b) \o c) = {} => Failures(a \o b) = {} /\ Failures(c) = {})
  BY <1>2, <1>7, Joined
<1>9. /\ IsSeq(((a \o b) \o c) \o d)
      /\ Failures(((a \o b) \o c) \o d) = {} => Failures((a \o b) \o c) = {} /\ Failures(d) = {}
  BY <1>2, <1>8, Joined
<1> QED  BY <1>1, <1>3, <1>4, <1>5, <1>6, <1>7, <1>8, <1>9

(* Objectives need somewhere to keep their work.                             *)
LEMMA WorkStateChecked ==
  ASSUME NEW f, NEW e
  PROVE  /\ IsSeq(WorkStateChecks(f, e))
         /\ Failures(WorkStateChecks(f, e)) = {} =>
              IF f.work_state = None THEN f.objectives = << >>
              ELSE /\ SelectNamed(f.github, f.work_state.connection) # None
                   /\ \A v \in SecretsOfSelected(f.github, f.work_state.connection, "github") : IsSet(e, v)
<1> DEFINE none == f.objectives = << >>
           s == <<Check(none, "work_state")>>
           a == <<Check(f.work_state.repository_ok, "work_state.github.repository")>>
           b == ConnectionChecks(f.github, f.work_state.connection, "work_state.github.connection",
                                 "github", e)
<1>1. WorkStateChecks(f, e) = IF f.work_state = None THEN s ELSE a \o b
  BY DEF WorkStateChecks
<1>2. IsSeq(s) /\ (Failures(s) = {} => none)
  <2>1. 1 \in DOMAIN s /\ s[1] = Check(none, "work_state") /\ IsSeq(s) /\ none \in BOOLEAN
    BY Tuples
  <2> HIDE DEF s, none
  <2> QED  BY <2>1, CheckHolds
<1>3. IsSeq(a)
  BY Tuples
<1>4. /\ IsSeq(b)
      /\ Failures(b) = {} =>
           /\ SelectNamed(f.github, f.work_state.connection) # None
           /\ \A v \in SecretsOfSelected(f.github, f.work_state.connection, "github") : IsSet(e, v)
  BY ConnectionChecked
<1> HIDE DEF a, b, s
<1>5. IsSeq(a \o b) /\ (Failures(a \o b) = {} => Failures(a) = {} /\ Failures(b) = {})
  BY <1>3, <1>4, Joined
<1> QED  BY <1>1, <1>2, <1>4, <1>5

(* At most one objective is the default, and it is enabled.                  *)
LEMMA DefaultObjectiveChecked ==
  ASSUME NEW objectives
  PROVE  /\ IsSeq(DefaultObjectiveChecks(objectives))
         /\ Failures(DefaultObjectiveChecks(objectives)) = {} =>
              /\ Cardinality(ExplicitDefaults(objectives)) < 2
              /\ Cardinality(ExplicitDefaults(objectives)) = 1 =>
                   \A i \in ExplicitDefaults(objectives) : objectives[i].enabled
<1> DEFINE explicit == ExplicitDefaults(objectives)
           few == Cardinality(explicit) < 2
           on == Cardinality(explicit) = 1 => \A i \in explicit : objectives[i].enabled
           s == <<Check(few, "objectives.default"), Check(on, "objectives.default")>>
<1>1. DefaultObjectiveChecks(objectives) = s
  BY DEF DefaultObjectiveChecks
<1>2. /\ IsSeq(s)
      /\ 1 \in DOMAIN s /\ s[1] = Check(few, "objectives.default") /\ few \in BOOLEAN
      /\ 2 \in DOMAIN s /\ s[2] = Check(on, "objectives.default") /\ on \in BOOLEAN
  BY Tuples
<1> HIDE DEF s, few, on
<1>3. Failures(s) = {} => few /\ on
  BY <1>2, CheckHolds
<1> QED  BY <1>1, <1>2, <1>3 DEF few, on

LEMMA ListsChecked ==
  ASSUME NEW f \in FileConfigs
  PROVE  IsSeq(ChannelChecks(f.slack.channels)) /\ IsSeq(ObjectiveChecks(f.objectives))
<1>1. f.slack \in SlackFileConfig /\ f.objectives \in Seq(ObjectiveFileConfig)
  BY DEF FileConfigs
<1>2. f.slack.channels \in Seq(SlackChannelFileConfig)
  BY <1>1 DEF SlackFileConfig
<1>3. DOMAIN f.slack.channels = 1..Len(f.slack.channels) /\ Len(f.slack.channels) \in Nat
  BY <1>2
<1>4. 5 * Len(f.objectives) \in Nat
  BY <1>1
<1> DEFINE c == ChannelChecks(f.slack.channels)
           o == ObjectiveChecks(f.objectives)
<1>5. c = [i \in 1..Len(f.slack.channels) |-> c[i]]
  BY <1>3 DEF ChannelChecks
<1>6. o = [i \in 1..(5 * Len(f.objectives)) |-> o[i]]
  BY DEF ObjectiveChecks
<1> HIDE DEF c, o
<1>7. IsSeq(c) /\ IsSeq(o)
  BY <1>3, <1>4, <1>5, <1>6, Listed
<1> QED  BY <1>7 DEF c, o

-----------------------------------------------------------------------------
(* Where nothing is wrong with a file, nothing is wrong with any part of it.  *)
LEMMA AllChecked ==
  ASSUME NEW f \in FileConfigs, NEW e, Failures(Checks(f, e)) = {}
  PROVE  /\ IsSet(e, OrDefault(f.slack.bot_token_env, SLACK_BOT_TOKEN))
         /\ Failures(ConnectionModeChecks(f.slack, e)) = {}
         /\ Failures(LlmChecks(f.ai, e)) = {}
         /\ Failures(JudgeChecks(f, e)) = {}
         /\ Failures(WebSearchChecks(f.ai, e)) = {}
         /\ Failures(ConnectorChecks(f, e)) = {}
         /\ Failures(DefaultObjectiveChecks(f.objectives)) = {}
         /\ Failures(WorkStateChecks(f, e)) = {}
<1> DEFINE bot == OrDefault(f.slack.bot_token_env, SLACK_BOT_TOKEN)
           s == <<Check(f.version = SUPPORTED_CONFIG_VERSION, "version"),
                  Secret(e, bot, "slack.auth.bot_token_env")>>
           mode == ConnectionModeChecks(f.slack, e)
           channels == ChannelChecks(f.slack.channels)
           llm == LlmChecks(f.ai, e)
           judge == JudgeChecks(f, e)
           web == WebSearchChecks(f.ai, e)
           connectors == ConnectorChecks(f, e)
           objectives == ObjectiveChecks(f.objectives)
           default == DefaultObjectiveChecks(f.objectives)
           work == WorkStateChecks(f, e)
<1>1. Checks(f, e) =
        (((((((((s \o mode) \o channels) \o llm) \o judge) \o web) \o connectors) \o objectives)
           \o default) \o work)
  BY DEF Checks
<1>2. IsSeq(s) /\ 2 \in DOMAIN s /\ s[2] = Secret(e, bot, "slack.auth.bot_token_env")
  BY Tuples
<1>3. IsSeq(mode) /\ IsSeq(llm) /\ IsSeq(judge) /\ IsSeq(web)
  BY ModeChecked, LlmChecked, JudgeChecked, WebSearchChecked
<1>4. IsSeq(connectors) /\ IsSeq(default) /\ IsSeq(work) /\ IsSeq(channels) /\ IsSeq(objectives)
  BY ConnectorsChecked, DefaultObjectiveChecked, WorkStateChecked, ListsChecked
<1> HIDE DEF s, mode, channels, llm, judge, web, connectors, objectives, default, work
<1> DEFINE s2 == s \o mode
<1>5. IsSeq(s2) /\ (Failures(s2) = {} => Failures(s) = {} /\ Failures(mode) = {})
  BY <1>2, <1>3, Joined
<1> HIDE DEF s2
<1> DEFINE s3 == s2 \o channels
<1>6. IsSeq(s3) /\ (Failures(s3) = {} => Failures(s2) = {})
  BY <1>4, <1>5, Joined
<1> HIDE DEF s3
<1> DEFINE s4 == s3 \o llm
<1>7. IsSeq(s4) /\ (Failures(s4) = {} => Failures(s3) = {} /\ Failures(llm) = {})
  BY <1>3, <1>6, Joined
<1> HIDE DEF s4
<1> DEFINE s5 == s4 \o judge
<1>8. IsSeq(s5) /\ (Failures(s5) = {} => Failures(s4) = {} /\ Failures(judge) = {})
  BY <1>3, <1>7, Joined
<1> HIDE DEF s5
<1> DEFINE s6 == s5 \o web
<1>9. IsSeq(s6) /\ (Failures(s6) = {} => Failures(s5) = {} /\ Failures(web) = {})
  BY <1>3, <1>8, Joined
<1> HIDE DEF s6
<1> DEFINE s7 == s6 \o connectors
<1>10. IsSeq(s7) /\ (Failures(s7) = {} => Failures(s6) = {} /\ Failures(connectors) = {})
  BY <1>4, <1>9, Joined
<1> HIDE DEF s7
<1> DEFINE s8 == s7 \o objectives
<1>11. IsSeq(s8) /\ (Failures(s8) = {} => Failures(s7) = {})
  BY <1>4, <1>10, Joined
<1> HIDE DEF s8
<1> DEFINE s9 == s8 \o default
<1>12. IsSeq(s9) /\ (Failures(s9) = {} => Failures(s8) = {} /\ Failures(default) = {})
  BY <1>4, <1>11, Joined
<1> HIDE DEF s9
<1>13. Failures(s9) = {} /\ Failures(work) = {}
  <2>1. Checks(f, e) = s9 \o work
    BY <1>1 DEF s9, s8, s7, s6, s5, s4, s3, s2
  <2> QED  BY <1>4, <1>12, <2>1, Joined
<1>14. Failures(s) = {} => IsSet(e, bot)
  BY <1>2, SecretHolds
<1>15. /\ Failures(s) = {} /\ Failures(mode) = {} /\ Failures(llm) = {} /\ Failures(judge) = {}
       /\ Failures(web) = {} /\ Failures(connectors) = {} /\ Failures(default) = {}
       /\ Failures(work) = {}
  BY <1>5, <1>6, <1>7, <1>8, <1>9, <1>10, <1>11, <1>12, <1>13
<1> QED  BY <1>14, <1>15 DEF mode, llm, judge, web, connectors, default, work

(* A secret that the settings in use name is one of these.                   *)
LEMMA SelectedIsOneOf ==
  ASSUME NEW f, NEW v \in SelectedSecrets(f)
  PROVE  \/ v = OrDefault(f.slack.bot_token_env, SLACK_BOT_TOKEN)
         \/ v = IF f.slack.socket_mode THEN OrDefault(f.slack.app_token_env, SLACK_APP_TOKEN)
                ELSE OrDefault(f.slack.signing_secret_env, SLACK_SIGNING_SECRET)
         \/ v \in SecretsOfBackend(f.ai, LeadBackend(f.ai).id)
         \/ v \in SecretsOfBackend(f.ai, WebSearchBackend(f.ai).id)
         \/ /\ AutoResponds(f.slack.channels)
            /\ v \in SecretsOfBackend(f.ai, JudgeBackend(f.ai).id)
         \/ /\ Provider(f.ai, LeadBackend(f.ai).id) = "bedrock_mantle"
            /\ v \in SecretsOfBackend(f.ai, SubAgentBackend(f.ai).id)
         \/ v \in SecretsOfSelected(DatadogUsed(f), f.datadog.selected, "datadog")
         \/ v \in SecretsOfSelected(f.github, f.github.selected, "github")
         \/ Enabled(f.esa) /\ v \in SecretsOfSelected(f.esa, f.esa.selected, "esa")
         \/ Enabled(f.jira) /\ v \in SecretsOfSelected(f.jira, f.jira.selected, "jira")
         \/ f.work_state # None /\ v \in SecretsOfSelected(f.github, f.work_state.connection, "github")
<1> DEFINE roles == {LeadBackend(f.ai), WebSearchBackend(f.ai)} \cup
                    (IF AutoResponds(f.slack.channels) THEN {JudgeBackend(f.ai)} ELSE {})
           bot == OrDefault(f.slack.bot_token_env, SLACK_BOT_TOKEN)
           mode == IF f.slack.socket_mode THEN OrDefault(f.slack.app_token_env, SLACK_APP_TOKEN)
                   ELSE OrDefault(f.slack.signing_secret_env, SLACK_SIGNING_SECRET)
           sub == IF Provider(f.ai, LeadBackend(f.ai).id) = "bedrock_mantle"
                  THEN SecretsOfBackend(f.ai, SubAgentBackend(f.ai).id) ELSE {}
           dog == SecretsOfSelected(DatadogUsed(f), f.datadog.selected, "datadog")
           hub == SecretsOfSelected(f.github, f.github.selected, "github")
           esa == IF Enabled(f.esa) THEN SecretsOfSelected(f.esa, f.esa.selected, "esa") ELSE {}
           jira == IF Enabled(f.jira) THEN SecretsOfSelected(f.jira, f.jira.selected, "jira") ELSE {}
           work == IF f.work_state = None THEN {}
                   ELSE SecretsOfSelected(f.github, f.work_state.connection, "github")
<1>1. \/ v = bot \/ v = mode \/ v \in SecretsOfRoles(f) \/ v \in sub \/ v \in dog \/ v \in hub
      \/ v \in esa \/ v \in jira \/ v \in work
  BY DEF SelectedSecrets
<1>2. v \in SecretsOfRoles(f) =>
        \/ v \in SecretsOfBackend(f.ai, LeadBackend(f.ai).id)
        \/ v \in SecretsOfBackend(f.ai, WebSearchBackend(f.ai).id)
        \/ /\ AutoResponds(f.slack.channels)
           /\ v \in SecretsOfBackend(f.ai, JudgeBackend(f.ai).id)
  <2> SUFFICES ASSUME NEW role \in roles, v \in SecretsOfBackend(f.ai, role.id)
               PROVE  \/ role = LeadBackend(f.ai) \/ role = WebSearchBackend(f.ai)
                      \/ AutoResponds(f.slack.channels) /\ role = JudgeBackend(f.ai)
    BY DEF SecretsOfRoles
  <2> QED  OBVIOUS
<1> HIDE DEF bot, mode, dog, hub
<1> QED  BY <1>1, <1>2 DEF bot, mode, dog, hub

LEMMA SelectedAreSet ==
  ASSUME NEW f \in FileConfigs, NEW e, Failures(Checks(f, e)) = {}, NEW v \in SelectedSecrets(f)
  PROVE  IsSet(e, v)
<1>1. NeedsNoWebSearch(f.ai) => WebSearchBackend(f.ai).id = LeadBackend(f.ai).id
  BY DEF NeedsNoWebSearch, WebSearchBackend
<1>2. \A w \in SecretsOfBackend(f.ai, LeadBackend(f.ai).id) \cup
               SecretsOfBackend(f.ai, WebSearchBackend(f.ai).id) : IsSet(e, w)
  BY <1>1, AllChecked, LlmChecked, WebSearchChecked
<1>3. /\ AutoResponds(f.slack.channels) =>
           \A w \in SecretsOfBackend(f.ai, JudgeBackend(f.ai).id) : IsSet(e, w)
      /\ Provider(f.ai, LeadBackend(f.ai).id) = "bedrock_mantle" =>
           \A w \in SecretsOfBackend(f.ai, SubAgentBackend(f.ai).id) : IsSet(e, w)
  BY AllChecked, JudgeChecked, LlmChecked
<1>4. /\ \A w \in SecretsOfSelected(DatadogUsed(f), f.datadog.selected, "datadog") : IsSet(e, w)
      /\ \A w \in SecretsOfSelected(f.github, f.github.selected, "github") : IsSet(e, w)
      /\ Enabled(f.esa) => \A w \in SecretsOfSelected(f.esa, f.esa.selected, "esa") : IsSet(e, w)
      /\ Enabled(f.jira) => \A w \in SecretsOfSelected(f.jira, f.jira.selected, "jira") : IsSet(e, w)
  BY AllChecked, ConnectorsChecked
<1>5. f.work_state # None =>
        \A w \in SecretsOfSelected(f.github, f.work_state.connection, "github") : IsSet(e, w)
  BY AllChecked, WorkStateChecked
<1>6. /\ IsSet(e, OrDefault(f.slack.bot_token_env, SLACK_BOT_TOKEN))
      /\ IsSet(e, IF f.slack.socket_mode THEN OrDefault(f.slack.app_token_env, SLACK_APP_TOKEN)
                  ELSE OrDefault(f.slack.signing_secret_env, SLACK_SIGNING_SECRET))
  BY AllChecked, ModeChecked
<1> QED  BY <1>2, <1>3, <1>4, <1>5, <1>6, SelectedIsOneOf

-----------------------------------------------------------------------------
(* Two environments that hold the same in the variables of vs.               *)
Agree(vs, e, d) == \A v \in vs : e[v] = d[v]

LEMMA SameSecret ==
  ASSUME NEW e, NEW d, NEW v, NEW field, e[v] = d[v]
  PROVE  Secret(e, v, field) = Secret(d, v, field)
BY DEF Secret

LEMMA SameBackend ==
  ASSUME NEW ai, NEW id \in Defined(ai.backends), NEW e, NEW d,
         Agree(SecretsOfBackend(ai, id), e, d)
  PROVE  BackendAuthChecks(ai.backends[id], e) = BackendAuthChecks(ai.backends[id], d)
<1> DEFINE b == ai.backends[id]
<1>1. Provider(ai, id) = b.provider
  BY DEF Provider
<1>2. CASE b.provider \in {"openai", "anthropic"}
  <2>1. SecretsOfBackend(ai, id) = {KeyVar(b)}
    BY <1>1, <1>2 DEF SecretsOfBackend
  <2>2. Secret(e, KeyVar(b), "ai.backends.api_key_env") = Secret(d, KeyVar(b), "ai.backends.api_key_env")
    BY <2>1, SameSecret DEF Agree
  <2> QED  BY <1>2, <2>2 DEF BackendAuthChecks
<1>3. CASE b.provider = "bedrock_mantle" /\ b.api_key_env # None
  <2>1. SecretsOfBackend(ai, id) = {b.api_key_env}
    BY <1>1, <1>3 DEF SecretsOfBackend
  <2>2. Secret(e, b.api_key_env, "ai.backends.api_key_env") = Secret(d, b.api_key_env, "ai.backends.api_key_env")
    BY <2>1, SameSecret DEF Agree
  <2> QED  BY <1>3, <2>2 DEF BackendAuthChecks
<1>4. CASE /\ b.provider \notin {"openai", "anthropic"}
           /\ ~(b.provider = "bedrock_mantle" /\ b.api_key_env # None)
  BY <1>4 DEF BackendAuthChecks
<1> QED  BY <1>2, <1>3, <1>4

LEMMA SameRole ==
  ASSUME NEW ai, NEW role, NEW e, NEW d, Agree(SecretsOfBackend(ai, role.id), e, d)
  PROVE  RoleChecks(ai, role, e) = RoleChecks(ai, role, d)
BY SameBackend DEF RoleChecks

LEMMA SameLlm ==
  ASSUME NEW ai, NEW e, NEW d,
         Agree(SecretsOfBackend(ai, LeadBackend(ai).id), e, d),
         Provider(ai, LeadBackend(ai).id) = "bedrock_mantle" =>
           Agree(SecretsOfBackend(ai, SubAgentBackend(ai).id), e, d)
  PROVE  LlmChecks(ai, e) = LlmChecks(ai, d)
<1> DEFINE lead == LeadBackend(ai)
           sub == SubAgentBackend(ai)
           known == lead.id \in Defined(ai.backends) /\ sub.id \in Defined(ai.backends)
           l == ai.backends[lead.id]
           t == ai.backends[sub.id]
           other(x) == IF l.provider = "bedrock_mantle" THEN BackendAuthChecks(t, x) ELSE << >>
<1>1. known => BackendAuthChecks(l, e) = BackendAuthChecks(l, d)
  BY SameBackend
<1>2. known => other(e) = other(d)
  <2>1. known => Provider(ai, lead.id) = l.provider
    BY DEF Provider
  <2> QED  BY <2>1, SameBackend
<1> QED  BY <1>1, <1>2 DEF LlmChecks

LEMMA SameWebSearch ==
  ASSUME NEW ai, NEW e, NEW d, Agree(SecretsOfBackend(ai, WebSearchBackend(ai).id), e, d)
  PROVE  WebSearchChecks(ai, e) = WebSearchChecks(ai, d)
<1>1. WebSearchBackend(ai).id \in Defined(ai.backends) =>
        BackendAuthChecks(ai.backends[WebSearchBackend(ai).id], e) =
        BackendAuthChecks(ai.backends[WebSearchBackend(ai).id], d)
  BY SameBackend
<1> QED  BY <1>1 DEF WebSearchChecks

LEMMA SameConnection ==
  ASSUME NEW connector, NEW selected, NEW field, NEW kind, NEW e, NEW d,
         Agree(SecretsOfSelected(connector, selected, kind), e, d)
  PROVE  ConnectionChecks(connector, selected, field, kind, e) =
         ConnectionChecks(connector, selected, field, kind, d)
<1> DEFINE name == SelectNamed(connector, selected)
           secrets == ConnectionSecrets(kind, Connections(connector)[name])
           each(x) == [i \in DOMAIN secrets |-> Secret(x, secrets[i], secrets[i])]
<1>1. name # None => each(e) = each(d)
  <2> SUFFICES ASSUME name # None, NEW i \in DOMAIN secrets
               PROVE  Secret(e, secrets[i], secrets[i]) = Secret(d, secrets[i], secrets[i])
    OBVIOUS
  <2>1. secrets[i] \in SecretsOfSelected(connector, selected, kind)
    BY DEF SecretsOfSelected, ToSet
  <2> HIDE DEF secrets
  <2> QED  BY <2>1, SameSecret DEF Agree
<1> QED  BY <1>1 DEF ConnectionChecks

LEMMA SameMode ==
  ASSUME NEW slack, NEW e, NEW d,
         Agree({IF slack.socket_mode THEN OrDefault(slack.app_token_env, SLACK_APP_TOKEN)
                ELSE OrDefault(slack.signing_secret_env, SLACK_SIGNING_SECRET)}, e, d)
  PROVE  ConnectionModeChecks(slack, e) = ConnectionModeChecks(slack, d)
<1> DEFINE app == OrDefault(slack.app_token_env, SLACK_APP_TOKEN)
           signing == OrDefault(slack.signing_secret_env, SLACK_SIGNING_SECRET)
<1>1. CASE slack.socket_mode
  <2>1. e[app] = d[app]
    BY <1>1 DEF Agree
  <2>2. Secret(e, app, "slack.socket.app_token_env") = Secret(d, app, "slack.socket.app_token_env")
    BY <2>1, SameSecret
  <2> QED  BY <1>1, <2>1, <2>2 DEF ConnectionModeChecks
<1>2. CASE ~slack.socket_mode
  <2>1. e[signing] = d[signing]
    BY <1>2 DEF Agree
  <2>2. Secret(e, signing, "slack.http.signing_secret_env") = Secret(d, signing, "slack.http.signing_secret_env")
    BY <2>1, SameSecret
  <2> QED  BY <1>2, <2>2 DEF ConnectionModeChecks
<1> QED  BY <1>1, <1>2

(* The settings ask for nothing but the secrets that SelectedSecrets tells.   *)
LEMMA SelectedAreAll ==
  ASSUME NEW f
  PROVE  /\ {OrDefault(f.slack.bot_token_env, SLACK_BOT_TOKEN)} \subseteq SelectedSecrets(f)
         /\ {IF f.slack.socket_mode THEN OrDefault(f.slack.app_token_env, SLACK_APP_TOKEN)
             ELSE OrDefault(f.slack.signing_secret_env, SLACK_SIGNING_SECRET)} \subseteq SelectedSecrets(f)
         /\ SecretsOfBackend(f.ai, LeadBackend(f.ai).id) \subseteq SelectedSecrets(f)
         /\ SecretsOfBackend(f.ai, WebSearchBackend(f.ai).id) \subseteq SelectedSecrets(f)
         /\ AutoResponds(f.slack.channels) =>
              SecretsOfBackend(f.ai, JudgeBackend(f.ai).id) \subseteq SelectedSecrets(f)
         /\ Provider(f.ai, LeadBackend(f.ai).id) = "bedrock_mantle" =>
              SecretsOfBackend(f.ai, SubAgentBackend(f.ai).id) \subseteq SelectedSecrets(f)
         /\ SecretsOfSelected(DatadogUsed(f), f.datadog.selected, "datadog") \subseteq SelectedSecrets(f)
         /\ SecretsOfSelected(f.github, f.github.selected, "github") \subseteq SelectedSecrets(f)
         /\ Enabled(f.esa) => SecretsOfSelected(f.esa, f.esa.selected, "esa") \subseteq SelectedSecrets(f)
         /\ Enabled(f.jira) => SecretsOfSelected(f.jira, f.jira.selected, "jira") \subseteq SelectedSecrets(f)
         /\ f.work_state # None =>
              SecretsOfSelected(f.github, f.work_state.connection, "github") \subseteq SelectedSecrets(f)
<1>1. /\ SecretsOfBackend(f.ai, LeadBackend(f.ai).id) \subseteq SecretsOfRoles(f)
      /\ SecretsOfBackend(f.ai, WebSearchBackend(f.ai).id) \subseteq SecretsOfRoles(f)
      /\ AutoResponds(f.slack.channels) =>
           SecretsOfBackend(f.ai, JudgeBackend(f.ai).id) \subseteq SecretsOfRoles(f)
  BY DEF SecretsOfRoles
<1>2. SecretsOfRoles(f) \subseteq SelectedSecrets(f)
  BY DEF SelectedSecrets
<1>3. /\ {OrDefault(f.slack.bot_token_env, SLACK_BOT_TOKEN)} \subseteq SelectedSecrets(f)
      /\ {IF f.slack.socket_mode THEN OrDefault(f.slack.app_token_env, SLACK_APP_TOKEN)
          ELSE OrDefault(f.slack.signing_secret_env, SLACK_SIGNING_SECRET)} \subseteq SelectedSecrets(f)
  BY DEF SelectedSecrets
<1>4. /\ Provider(f.ai, LeadBackend(f.ai).id) = "bedrock_mantle" =>
           SecretsOfBackend(f.ai, SubAgentBackend(f.ai).id) \subseteq SelectedSecrets(f)
      /\ SecretsOfSelected(DatadogUsed(f), f.datadog.selected, "datadog") \subseteq SelectedSecrets(f)
      /\ SecretsOfSelected(f.github, f.github.selected, "github") \subseteq SelectedSecrets(f)
      /\ Enabled(f.esa) => SecretsOfSelected(f.esa, f.esa.selected, "esa") \subseteq SelectedSecrets(f)
      /\ Enabled(f.jira) => SecretsOfSelected(f.jira, f.jira.selected, "jira") \subseteq SelectedSecrets(f)
      /\ f.work_state # None =>
           SecretsOfSelected(f.github, f.work_state.connection, "github") \subseteq SelectedSecrets(f)
  BY DEF SelectedSecrets
<1> QED  BY <1>1, <1>2, <1>3, <1>4

LEMMA SameParts ==
  ASSUME NEW vs, NEW us, vs \subseteq us, NEW e, NEW d, Agree(us, e, d)
  PROVE  Agree(vs, e, d)
BY DEF Agree

LEMMA SameConnectors ==
  ASSUME NEW f, NEW e, NEW d, Agree(SelectedSecrets(f), e, d)
  PROVE  ConnectorChecks(f, e) = ConnectorChecks(f, d)
<1>1. /\ Agree(SecretsOfSelected(DatadogUsed(f), f.datadog.selected, "datadog"), e, d)
      /\ Agree(SecretsOfSelected(f.github, f.github.selected, "github"), e, d)
      /\ Enabled(f.esa) => Agree(SecretsOfSelected(f.esa, f.esa.selected, "esa"), e, d)
      /\ Enabled(f.jira) => Agree(SecretsOfSelected(f.jira, f.jira.selected, "jira"), e, d)
  BY SelectedAreAll, SameParts
<1>2. /\ ConnectionChecks(DatadogUsed(f), f.datadog.selected, "datadog.mcp_connection", "datadog", e) =
         ConnectionChecks(DatadogUsed(f), f.datadog.selected, "datadog.mcp_connection", "datadog", d)
      /\ ConnectionChecks(f.github, f.github.selected, "github.mcp_connection", "github", e) =
         ConnectionChecks(f.github, f.github.selected, "github.mcp_connection", "github", d)
  BY <1>1, SameConnection
<1>3. OptionalConnectorChecks(f.esa, "esa.agent_connection", "esa", e) =
      OptionalConnectorChecks(f.esa, "esa.agent_connection", "esa", d)
  BY <1>1, SameConnection DEF OptionalConnectorChecks
<1>4. OptionalConnectorChecks(f.jira, "jira.mcp_connection", "jira", e) =
      OptionalConnectorChecks(f.jira, "jira.mcp_connection", "jira", d)
  BY <1>1, SameConnection DEF OptionalConnectorChecks
<1> QED  BY <1>2, <1>3, <1>4 DEF ConnectorChecks

LEMMA SameLoad ==
  ASSUME NEW f, NEW e, NEW d, Agree(SelectedSecrets(f), e, d)
  PROVE  LoadAppConfig(f, e) = LoadAppConfig(f, d)
<1>1. /\ Agree({OrDefault(f.slack.bot_token_env, SLACK_BOT_TOKEN)}, e, d)
      /\ Agree({IF f.slack.socket_mode THEN OrDefault(f.slack.app_token_env, SLACK_APP_TOKEN)
                ELSE OrDefault(f.slack.signing_secret_env, SLACK_SIGNING_SECRET)}, e, d)
      /\ Agree(SecretsOfBackend(f.ai, LeadBackend(f.ai).id), e, d)
      /\ Agree(SecretsOfBackend(f.ai, WebSearchBackend(f.ai).id), e, d)
      /\ AutoResponds(f.slack.channels) => Agree(SecretsOfBackend(f.ai, JudgeBackend(f.ai).id), e, d)
      /\ Provider(f.ai, LeadBackend(f.ai).id) = "bedrock_mantle" =>
           Agree(SecretsOfBackend(f.ai, SubAgentBackend(f.ai).id), e, d)
      /\ f.work_state # None =>
           Agree(SecretsOfSelected(f.github, f.work_state.connection, "github"), e, d)
  BY SelectedAreAll, SameParts
<1>2. Secret(e, OrDefault(f.slack.bot_token_env, SLACK_BOT_TOKEN), "slack.auth.bot_token_env") =
      Secret(d, OrDefault(f.slack.bot_token_env, SLACK_BOT_TOKEN), "slack.auth.bot_token_env")
  BY <1>1, SameSecret DEF Agree
<1>3. ConnectionModeChecks(f.slack, e) = ConnectionModeChecks(f.slack, d)
  BY <1>1, SameMode
<1>4. LlmChecks(f.ai, e) = LlmChecks(f.ai, d) /\ WebSearchChecks(f.ai, e) = WebSearchChecks(f.ai, d)
  BY <1>1, SameLlm, SameWebSearch
<1>5. JudgeChecks(f, e) = JudgeChecks(f, d)
  BY <1>1, SameRole DEF JudgeChecks
<1>6. ConnectorChecks(f, e) = ConnectorChecks(f, d)
  BY SameConnectors
<1>7. WorkStateChecks(f, e) = WorkStateChecks(f, d)
  BY <1>1, SameConnection DEF WorkStateChecks
<1>8. Checks(f, e) = Checks(f, d)
  BY <1>2, <1>3, <1>4, <1>5, <1>6, <1>7 DEF Checks
<1> QED  BY <1>8 DEF LoadAppConfig

-----------------------------------------------------------------------------
(* The secrets of a file that parsing accepts are variables.                 *)
LEMMA SettingOrDefault ==
  ASSUME NEW value \in Opt(EnvRef), value # Blank, NEW default \in EnvVar
  PROVE  OrDefault(value, default) \in EnvVar
BY DEF OrDefault, Opt, EnvRef

LEMMA SelectedIsDefined ==
  ASSUME NEW connector, NEW selected, SelectNamed(connector, selected) # None
  PROVE  SelectNamed(connector, selected) \in Defined(Connections(connector))
<1> DEFINE instances == Defined(Connections(connector))
<1>1. CASE selected # None
  BY <1>1 DEF SelectNamed
<1>2. CASE selected = None /\ Cardinality(instances) = 1
  <2>1. instances # {}
    BY <1>2, FS_EmptySet
  <2>2. SelectNamed(connector, selected) = CHOOSE name \in instances : TRUE
    BY <1>2 DEF SelectNamed
  <2> HIDE DEF instances
  <2>3. (CHOOSE name \in instances : TRUE) \in instances
    BY <2>1
  <2> QED  BY <2>2, <2>3 DEF instances
<1>3. CASE selected = None /\ Cardinality(instances) # 1
  BY <1>3 DEF SelectNamed
<1> QED  BY <1>1, <1>2, <1>3

LEMMA ConnectionVars ==
  ASSUME NEW connector, NEW selected, NEW kind,
         \A n \in Defined(Connections(connector)) :
           ToSet(ConnectionSecrets(kind, Connections(connector)[n])) \subseteq EnvVar
  PROVE  SecretsOfSelected(connector, selected, kind) \subseteq EnvVar
BY SelectedIsDefined DEF SecretsOfSelected

LEMMA SingleSecret ==
  ASSUME NEW v
  PROVE  ToSet(<<v>>) = {v}
BY DEF ToSet

LEMMA DefinedConnections ==
  ASSUME NEW T, NEW connector \in Connector(T), NEW n \in Defined(Connections(connector))
  PROVE  Connections(connector)[n] \in T
<1>1. connector.connection \in Opt(Named(T))
  BY DEF Connector
<1>2. CASE connector = None \/ connector.connection = None
  BY <1>2 DEF Connections, OrDefault, NoEntries, Defined
<1>3. CASE connector # None /\ connector.connection # None
  <2>1. Connections(connector) = connector.connection
    BY <1>3 DEF Connections, OrDefault
  <2>2. connector.connection \in Named(T)
    BY <1>1, <1>3 DEF Opt
  <2> QED  BY <2>1, <2>2 DEF Named, Defined, Opt
<1> QED  BY <1>2, <1>3

LEMMA GitHubVars ==
  ASSUME NEW f \in FileConfigs, Parses(f), NEW selected
  PROVE  SecretsOfSelected(f.github, selected, "github") \subseteq EnvVar
<1> SUFFICES ASSUME NEW n \in Defined(Connections(f.github))
             PROVE  ToSet(ConnectionSecrets("github", Connections(f.github)[n])) \subseteq EnvVar
  BY ConnectionVars
<1> DEFINE c == Connections(f.github)[n]
<1>1. c \in GitHubConnectionFileConfig
  BY DefinedConnections DEF FileConfigs
<1>2. c.private_key_env \in Opt(EnvRef) /\ c.private_key_env # Blank
  <2>1. c["private_key_env"] \in ConnectionTexts(f.github, {"private_key_env"})
    BY DEF ConnectionTexts
  <2> QED  BY <1>1, <2>1 DEF GitHubConnectionFileConfig, Parses, NonEmptyTexts
<1>3. ConnectionSecrets("github", c) = <<OrDefault(c.private_key_env, GITHUB_APP_PRIVATE_KEY)>>
  BY DEF ConnectionSecrets, GitHubSecrets
<1> QED  BY <1>2, <1>3, SettingOrDefault, SingleSecret, EnvAssumption

LEMMA EsaVars ==
  ASSUME NEW f \in FileConfigs, Parses(f), NEW selected, Enabled(f.esa)
  PROVE  SecretsOfSelected(f.esa, selected, "esa") \subseteq EnvVar
<1> SUFFICES ASSUME NEW n \in Defined(Connections(f.esa))
             PROVE  ToSet(ConnectionSecrets("esa", Connections(f.esa)[n])) \subseteq EnvVar
  BY ConnectionVars
<1> DEFINE c == Connections(f.esa)[n]
<1>1. c \in EsaConnectionFileConfig
  BY DefinedConnections DEF FileConfigs, Enabled, Opt
<1>2. c.access_token_env \in Opt(EnvRef) /\ c.access_token_env # Blank
  <2>1. c["access_token_env"] \in ConnectionTexts(f.esa, {"team_name", "access_token_env"})
    BY DEF ConnectionTexts
  <2> QED  BY <1>1, <2>1 DEF EsaConnectionFileConfig, Parses, NonEmptyTexts
<1>3. ConnectionSecrets("esa", c) = <<OrDefault(c.access_token_env, ESA_ACCESS_TOKEN)>>
  BY DEF ConnectionSecrets, EsaSecrets
<1> QED  BY <1>2, <1>3, SettingOrDefault, SingleSecret, EnvAssumption

LEMMA JiraVars ==
  ASSUME NEW f \in FileConfigs, Parses(f), NEW selected, Enabled(f.jira)
  PROVE  SecretsOfSelected(f.jira, selected, "jira") \subseteq EnvVar
<1> SUFFICES ASSUME NEW n \in Defined(Connections(f.jira))
             PROVE  ToSet(ConnectionSecrets("jira", Connections(f.jira)[n])) \subseteq EnvVar
  BY ConnectionVars
<1> DEFINE c == Connections(f.jira)[n]
<1>1. c \in JiraConnectionFileConfig
  BY DefinedConnections DEF FileConfigs, Enabled, Opt
<1>2. c.service_account_api_token_env \in Opt(EnvRef) /\ c.service_account_api_token_env # Blank
  <2>1. c["service_account_api_token_env"] \in
          ConnectionTexts(f.jira, {"site", "service_account_api_token_env"})
    BY DEF ConnectionTexts
  <2> QED  BY <1>1, <2>1 DEF JiraConnectionFileConfig, Parses, NonEmptyTexts
<1>3. ConnectionSecrets("jira", c) =
        <<OrDefault(c.service_account_api_token_env, JIRA_SERVICE_ACCOUNT_API_TOKEN)>>
  BY DEF ConnectionSecrets, JiraSecrets
<1> QED  BY <1>2, <1>3, SettingOrDefault, SingleSecret, EnvAssumption

(* Datadog is used by default settings when there are none.                  *)
LEMMA DatadogConnections ==
  ASSUME NEW f \in FileConfigs, Parses(f), NEW n \in Defined(Connections(DatadogUsed(f)))
  PROVE  \A value \in {Connections(DatadogUsed(f))[n].api_key_env,
                       Connections(DatadogUsed(f))[n].app_key_env} :
           value \in Opt(EnvRef) /\ value # Blank
<1> DEFINE c == Connections(DatadogUsed(f))[n]
<1>1. f.datadog \in Connector(DatadogConnectionFileConfig)
  BY DEF FileConfigs
<1>2. CASE Defined(Connections(f.datadog)) = {} /\ f.datadog.selected = None
  <2> DEFINE name == CHOOSE x \in Name : TRUE
             entries == [NoEntries EXCEPT ![name] = DefaultDatadogConnection]
  <2>1. DatadogUsed(f) = [f.datadog EXCEPT !.connection = entries]
    BY <1>2 DEF DatadogUsed
  <2>2. Connections(DatadogUsed(f)) \in {entries, NoEntries}
    <3>1. DatadogUsed(f).connection = entries
      BY <1>1, <2>1 DEF Connector
    <3> HIDE DEF entries
    <3> QED  BY <3>1 DEF Connections, OrDefault
  <2>3. n \in NameRef /\ c # None
    BY DEF Defined
  <2>4. \A m \in NameRef : entries[m] \in {None, DefaultDatadogConnection} /\ NoEntries[m] = None
    BY DEF NoEntries
  <2> HIDE DEF entries
  <2>5. c = DefaultDatadogConnection
    BY <2>2, <2>3, <2>4
  <2> QED  BY <2>5, FileAssumption DEF DefaultDatadogConnection, Opt, EnvRef
<1>3. CASE ~(Defined(Connections(f.datadog)) = {} /\ f.datadog.selected = None)
  <2>1. DatadogUsed(f) = f.datadog
    BY <1>3 DEF DatadogUsed
  <2>2. c \in DatadogConnectionFileConfig
    BY <1>1, <2>1, DefinedConnections
  <2>3. c["api_key_env"] \in ConnectionTexts(f.datadog, {"site", "api_key_env", "app_key_env"})
        /\ c["app_key_env"] \in ConnectionTexts(f.datadog, {"site", "api_key_env", "app_key_env"})
    BY <2>1 DEF ConnectionTexts
  <2>4. c.api_key_env # Blank /\ c.app_key_env # Blank
    BY <2>3 DEF Parses, NonEmptyTexts
  <2> QED  BY <2>2, <2>4 DEF DatadogConnectionFileConfig
<1> QED  BY <1>2, <1>3

LEMMA DatadogVars ==
  ASSUME NEW f \in FileConfigs, Parses(f), NEW selected
  PROVE  SecretsOfSelected(DatadogUsed(f), selected, "datadog") \subseteq EnvVar
<1> SUFFICES ASSUME NEW n \in Defined(Connections(DatadogUsed(f)))
             PROVE  ToSet(ConnectionSecrets("datadog", Connections(DatadogUsed(f))[n])) \subseteq EnvVar
  BY ConnectionVars
<1> DEFINE c == Connections(DatadogUsed(f))[n]
           key == OrDefault(c.api_key_env, DATADOG_API_KEY)
           app == OrDefault(c.app_key_env, DATADOG_APP_KEY)
<1>1. key \in EnvVar /\ app \in EnvVar
  BY DatadogConnections, SettingOrDefault, EnvAssumption
<1>2. ConnectionSecrets("datadog", c) = <<key, app>>
  BY DEF ConnectionSecrets, DatadogSecrets
<1> HIDE DEF key, app, c
<1>3. ToSet(<<key, app>>) \subseteq EnvVar
  BY <1>1 DEF ToSet
<1> QED  BY <1>2, <1>3 DEF c

LEMMA BackendVars ==
  ASSUME NEW f \in FileConfigs, Parses(f), NEW id
  PROVE  SecretsOfBackend(f.ai, id) \subseteq EnvVar
<1> DEFINE b == f.ai.backends[id]
<1>1. f.ai \in AiFileConfig
  BY DEF FileConfigs
<1>2. CASE id \in Defined(f.ai.backends)
  <2>1. f.ai.backends \in Named(AiBackendFileConfig)
    BY <1>1 DEF AiFileConfig
  <2>2. b \in AiBackendFileConfig
    BY <1>2, <2>1 DEF Named, Defined, Opt
  <2>3. b.api_key_env \in AiTexts(f.ai)
    BY <1>2 DEF AiTexts
  <2>4. b.api_key_env \in Opt(EnvRef) /\ b.api_key_env # Blank
    BY <2>2, <2>3 DEF AiBackendFileConfig, Parses, NonEmptyTexts
  <2>5. KeyVar(b) \in EnvVar
    BY <2>4, SettingOrDefault, EnvAssumption DEF KeyVar
  <2>6. {b.api_key_env} \ {None} \subseteq EnvVar
    BY <2>4 DEF Opt, EnvRef
  <2> QED  BY <2>5, <2>6 DEF SecretsOfBackend
<1>3. CASE id \notin Defined(f.ai.backends)
  BY <1>3, FileAssumption DEF SecretsOfBackend, Provider, AiProvider
<1> QED  BY <1>2, <1>3

LEMMA SelectedAreVariables ==
  ASSUME NEW f \in FileConfigs, Parses(f)
  PROVE  SelectedSecrets(f) \subseteq EnvVar
<1> SUFFICES ASSUME NEW v \in SelectedSecrets(f) PROVE v \in EnvVar
  OBVIOUS
<1>1. f.slack \in SlackFileConfig
  BY DEF FileConfigs
<1>2. \A value \in {f.slack.bot_token_env, f.slack.app_token_env, f.slack.signing_secret_env} :
        value \in Opt(EnvRef) /\ value # Blank
  BY <1>1 DEF SlackFileConfig, Parses, NonEmptyTexts, SlackTexts
<1>3. /\ OrDefault(f.slack.bot_token_env, SLACK_BOT_TOKEN) \in EnvVar
      /\ OrDefault(f.slack.app_token_env, SLACK_APP_TOKEN) \in EnvVar
      /\ OrDefault(f.slack.signing_secret_env, SLACK_SIGNING_SECRET) \in EnvVar
  BY <1>2, SettingOrDefault, EnvAssumption
<1> QED
  BY <1>3, SelectedIsOneOf, BackendVars, DatadogVars, GitHubVars, EsaVars, JiraVars

-----------------------------------------------------------------------------
(* What the settings of an accepted file are like.                           *)
LEMMA AcceptedObjectives ==
  ASSUME NEW f \in FileConfigs, NEW e, NEW c, Accepted(f, e, c)
  PROVE  LET takers == {i \in DOMAIN c.objectives : c.objectives[i].takes_unlinked_work}
         IN  /\ Cardinality(takers) <= 1
             /\ \A i \in takers : c.objectives[i].enabled
             /\ c.objectives # << >> => c.work_state # None
<1> DEFINE objectives == f.objectives
           enabled == {i \in DOMAIN objectives : objectives[i].enabled}
           explicit == ExplicitDefaults(objectives)
           default == IF explicit = {} /\ Cardinality(enabled) = 1 THEN enabled ELSE explicit
           takers == {i \in DOMAIN c.objectives : c.objectives[i].takes_unlinked_work}
<1>1. c.objectives = [i \in DOMAIN objectives |->
                        [id |-> objectives[i].id, enabled |-> objectives[i].enabled,
                         takes_unlinked_work |-> i \in default]]
  BY DEF Accepted, ResolveAppConfig, ResolveObjectives
<1>2. objectives \in Seq(ObjectiveFileConfig)
  BY DEF FileConfigs
<1>3. explicit \subseteq DOMAIN objectives /\ enabled \subseteq DOMAIN objectives
  BY DEF ExplicitDefaults
<1>4. IsFiniteSet(explicit) /\ Cardinality(explicit) \in Nat
  <2>1. DOMAIN objectives = 1..Len(objectives) /\ Len(objectives) \in Nat
    BY <1>2
  <2>2. IsFiniteSet(1..Len(objectives))
    BY <2>1, FS_Interval
  <2> QED  BY <1>3, <2>1, <2>2, FS_Subset, FS_CardinalityType
<1>5. /\ Cardinality(explicit) < 2
      /\ Cardinality(explicit) = 1 => \A i \in explicit : objectives[i].enabled
  BY AllChecked, DefaultObjectiveChecked DEF Accepted
<1>6. Cardinality(explicit) = 0 => explicit = {}
  BY <1>4, FS_EmptySet
<1> HIDE DEF explicit
<1>7. default \subseteq DOMAIN objectives
  BY <1>3
<1>8. Cardinality(default) <= 1 /\ \A i \in default : objectives[i].enabled
  <2>1. CASE explicit = {} /\ Cardinality(enabled) = 1
    BY <2>1
  <2>2. CASE ~(explicit = {} /\ Cardinality(enabled) = 1)
    <3>1. default = explicit
      BY <2>2
    <3>2. Cardinality(explicit) \in {0, 1}
      BY <1>4, <1>5
    <3> QED  BY <3>1, <3>2, <1>5, <1>6
  <2> QED  BY <2>1, <2>2
<1> HIDE DEF default
<1>9. takers = default
  <2>1. DOMAIN c.objectives = DOMAIN objectives
    BY <1>1
  <2>2. ASSUME NEW i \in DOMAIN objectives
        PROVE  c.objectives[i].takes_unlinked_work = (i \in default)
    BY <1>1
  <2> QED  BY <1>7, <2>1, <2>2
<1>10. \A i \in takers : c.objectives[i].enabled
  BY <1>1, <1>8, <1>9
<1>11. c.objectives # << >> => c.work_state # None
  <2>1. f.work_state = None => objectives = << >>
    BY AllChecked, WorkStateChecked DEF Accepted
  <2>2. objectives = << >> => c.objectives = << >>
    BY <1>1
  <2>3. f.work_state # None => c.work_state # None
    <3>1. f.work_state # None => SelectNamed(f.github, f.work_state.connection) # None
      BY AllChecked, WorkStateChecked DEF Accepted
    <3> QED  BY <3>1 DEF Accepted, ResolveAppConfig
  <2> QED  BY <2>1, <2>2, <2>3
<1> QED  BY <1>8, <1>9, <1>10, <1>11

LEMMA AcceptedRoles ==
  ASSUME NEW f \in FileConfigs, NEW e, NEW c, Accepted(f, e, c)
  PROVE  /\ AutoResponds(c.channels) <=> c.judge # None
         /\ c.web_search # None \/ SearchesNatively(c.lead)
         /\ c.signing_secret <=> c.mode = "http"
<1>1. /\ c.channels = f.slack.channels
      /\ c.judge = IF AutoResponds(f.slack.channels) THEN f.ai.backends[JudgeBackend(f.ai).id] ELSE None
      /\ c.web_search = IF NeedsNoWebSearch(f.ai) THEN None ELSE WebSearchBackend(f.ai).id
      /\ c.lead = f.ai.backends[LeadBackend(f.ai).id]
      /\ c.mode = IF f.slack.socket_mode THEN "socket" ELSE "http"
      /\ c.signing_secret = ~f.slack.socket_mode
  BY DEF Accepted, ResolveAppConfig
<1>2. AutoResponds(c.channels) => c.judge # None
  <2>1. AutoResponds(f.slack.channels) => JudgeBackend(f.ai).id \in Defined(f.ai.backends)
    BY AllChecked, JudgeChecked DEF Accepted
  <2> QED  BY <1>1, <2>1 DEF Defined
<1>3. c.web_search # None \/ SearchesNatively(c.lead)
  <2>1. WebSearchBackend(f.ai).id \in Defined(f.ai.backends)
    BY AllChecked, WebSearchChecked DEF Accepted
  <2>2. WebSearchBackend(f.ai).id # None
    BY <2>1, FileAssumption DEF Defined
  <2> QED  BY <1>1, <2>2 DEF NeedsNoWebSearch
<1>4. f.slack.socket_mode \in BOOLEAN
  BY DEF FileConfigs, SlackFileConfig
<1> QED  BY <1>1, <1>2, <1>3, <1>4

LEMMA SomeNames ==
  ASSUME NEW channels, NEW setting
  PROVE  Names(channels, setting) # {} <=> \E i \in DOMAIN channels : channels[i][setting]
BY DEF Names
-----------------------------------------------------------------------------
(***************************************************************************)
(* Secrets: whether the process starts, and with what, depends on no        *)
(* variable of the environment but those that the settings in use name, and *)
(* each of those is set when it starts (loader.rs, named_connector.rs).     *)
(***************************************************************************)
THEOREM OtherSecretsAreNotMissed == Spec => []OnlySelectedSecretsMatter
<1>1. RuntimeInv => OnlySelectedSecretsMatter
  <2> SUFFICES ASSUME RuntimeInv, phase = "loading", Parses(file)
               PROVE  /\ \A v \in EnvVar \ SelectedSecrets(file), value \in {"unset", "secret"} :
                           LoadAppConfig(file, [env EXCEPT ![v] = value]) = LoadAppConfig(file, env)
                      /\ LoadAppConfig(file, env).ok =>
                           \A v \in SelectedSecrets(file) : env[v] \in {"secret", "xapp"}
    BY DEF OnlySelectedSecretsMatter
  <2>1. file \in FileConfigs /\ env \in Environment
    BY DEF RuntimeInv, StartOK
  <2>2. SelectedSecrets(file) \subseteq EnvVar
    BY <2>1, SelectedAreVariables
  <2>3. ASSUME NEW v \in EnvVar \ SelectedSecrets(file), NEW value \in {"unset", "secret"}
        PROVE  LoadAppConfig(file, [env EXCEPT ![v] = value]) = LoadAppConfig(file, env)
    <3> DEFINE other == [env EXCEPT ![v] = value]
    <3>1. \A w \in SelectedSecrets(file) : other[w] = env[w]
      BY <2>1, <2>2 DEF Environment
    <3> HIDE DEF other
    <3>2. LoadAppConfig(file, other) = LoadAppConfig(file, env)
      BY <3>1, SameLoad DEF Agree
    <3> QED  BY <3>2 DEF other
  <2>4. ASSUME LoadAppConfig(file, env).ok, NEW v \in SelectedSecrets(file)
        PROVE  env[v] \in {"secret", "xapp"}
    <3>1. IsSet(env, v)
      BY <2>1, <2>4, LoadedSettings, SelectedAreSet DEF Accepted
    <3> QED  BY <2>1, <2>2, <3>1 DEF IsSet, Environment
  <2> QED  BY <2>3, <2>4
<1> QED  BY <1>1, RuntimeInvHolds, PTL

(***************************************************************************)
(* Bootstrap: what build_runtime_deps makes is what the file asks for.  What *)
(* resolve_app_config checked of the file steps before is what keeps the    *)
(* parts together: a scheduler is built for any objectives at all, because  *)
(* they were refused without a Work State, and a gate for any channel with   *)
(* auto responses, because they were refused without a judge.               *)
(***************************************************************************)
THEOREM PartsAreAsConfigured == Spec => BuiltAsConfigured
<1> DEFINE takers == {i \in DOMAIN config.objectives : config.objectives[i].takes_unlinked_work}
           Built == phase = "bootstrapping" /\ phase' = "ready" =>
                      /\ deps'.scheduler <=> config.objectives # << >>
                      /\ Cardinality(takers) <= 1
                      /\ \A i \in takers : config.objectives[i].enabled
                      /\ deps'.auto_response # {} <=> AutoResponds(config.channels)
                      /\ deps'.verifier <=> deps'.mode = "http"
                      /\ config.web_search # None \/ SearchesNatively(config.lead)
<1>1. RuntimeInv /\ [Next]_vars => [Built]_vars
  <2> SUFFICES ASSUME RuntimeInv, [Next]_vars, phase = "bootstrapping", phase' = "ready"
               PROVE  Built
    OBVIOUS
  <2>1. deps' = PartsOf(config)
    <3>1. BuildRuntimeDeps
      BY DEF Next, vars, startVars, Load, Serve, Fail, MakePost, ReceiveRequest, ReceiveEnvelope,
             HangUp, HandleStep, SocketStep, Signal, Stop, Serving
    <3> QED  BY <3>1 DEF BuildRuntimeDeps, Fail
  <2>2. PICK f \in FileConfigs, e \in Environment : Accepted(f, e, config)
    BY DEF RuntimeInv, StartOK
  <2>3. /\ deps'.scheduler = BuildsScheduler(config)
        /\ deps'.auto_response = AutoResponseGate(config)
        /\ deps'.mode = config.mode
        /\ deps'.verifier = (config.mode = "http" /\ config.signing_secret)
    BY <2>1 DEF PartsOf
  <2>4. /\ Cardinality(takers) <= 1
        /\ \A i \in takers : config.objectives[i].enabled
        /\ config.objectives # << >> => config.work_state # None
    BY <2>2, AcceptedObjectives
  <2>5. /\ AutoResponds(config.channels) <=> config.judge # None
        /\ config.web_search # None \/ SearchesNatively(config.lead)
        /\ config.signing_secret <=> config.mode = "http"
    BY <2>2, AcceptedRoles
  <2>6. deps'.scheduler <=> config.objectives # << >>
    BY <2>3, <2>4 DEF BuildsScheduler
  <2>7. deps'.auto_response # {} <=> AutoResponds(config.channels)
    BY <2>3, <2>5, SomeNames DEF AutoResponseGate, AutoResponds
  <2> HIDE DEF takers
  <2> QED  BY <2>3, <2>4, <2>5, <2>6, <2>7
<1>2. RuntimeInv /\ [Next]_vars => [phase = "bootstrapping" /\ phase' = "ready" =>
         LET takers2 == {i \in DOMAIN config.objectives : config.objectives[i].takes_unlinked_work}
         IN  /\ deps'.scheduler <=> config.objectives # << >>
             /\ Cardinality(takers2) <= 1
             /\ \A i \in takers2 : config.objectives[i].enabled
             /\ deps'.auto_response # {} <=> AutoResponds(config.channels)
             /\ deps'.verifier <=> deps'.mode = "http"
             /\ config.web_search # None \/ SearchesNatively(config.lead)]_vars
  BY <1>1
<1> QED  BY <1>2, RuntimeInvHolds, PTL DEF Spec, BuiltAsConfigured
=============================================================================
