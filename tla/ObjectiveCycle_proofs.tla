----------------------- MODULE ObjectiveCycle_proofs -----------------------
(***************************************************************************)
(* What holds of any number of objectives, cycles and issues, under any      *)
(* edits of the team: one cycle per objective, the writes of a cycle to an    *)
(* item that nobody else touched, and the items Reili closes.               *)
(*                                                                         *)
(* The inductive invariant says of each cycle by itself what it holds where  *)
(* it is, what it knows of an item whatever others did, and what it knows of  *)
(* one that nobody else changed.  A step then is that of the cycle at hand,   *)
(* or, for every other cycle, a change of issues that it is told of by         *)
(* "disturbed".                                                            *)
(***************************************************************************)
EXTENDS ObjectiveCycle, TLAPS

Idle == {"none", "ended"}

(* What a cycle holds depends on where it is.                               *)
HoldsWhatItNeeds(k) ==
    /\ cycle_pc[k] = "none" <=> objective[k] = None
    /\ cycle_pc[k] \notin {"listClosed", "working"} => observed[k] = Nothing
    /\ cycle_pc[k] # "linking" => unlinked[k] = {}
    /\ cycle_pc[k] \notin Writing \cup {"notifying"} => change[k] = NoChange
    /\ cycle_pc[k] \in Writing \ {"creating"} => change[k].kind = "update"
    /\ cycle_pc[k] = "creating" => change[k].kind = "create"
    /\ cycle_pc[k] = "closing" => change[k].closing
    /\ change[k].kind = "update" => change[k].item \in Item

(* An item that was observed exists, and who opened it never changes.        *)
KnowsWhoseItIs(k) ==
    /\ \A i \in Item :
          observed[k][i] # None =>
             /\ issue[i].state # "absent"
             /\ observed[k][i].created_by_reili = issue[i].created_by_reili
    /\ change[k].kind = "update" =>
          /\ issue[change[k].item].state # "absent"
          /\ change[k].closing => issue[change[k].item].created_by_reili

(* What was observed of an item that nobody else changed still holds.        *)
SeesItAsItIs(k) ==
    /\ \A i \in Item \ disturbed[k] :
          observed[k][i] # None =>
             /\ observed[k][i] = WorkItem(i)
             /\ objective[k] \in issue[i].objectives
    /\ \A i \in unlinked[k] \ disturbed[k] : i \in UnlinkedReiliWork

(* How far the update of an item has come, if nobody else changed the item.  *)
UpdateIsOnItsWay(k) ==
    LET planned == change[k]
        target == issue[planned.item]
    IN  planned.kind = "update" /\ Undisturbed(k) =>
          /\ cycle_pc[k] \in Writing =>
               /\ IsReiliWork(target)
               /\ objective[k] \in target.objectives
               /\ planned.closing = (planned.status = "Resolved" /\ target.created_by_reili)
          /\ cycle_pc[k] = "commenting" =>
               planned.relabel = ((planned.status = "NeedsDecision") # target.needs_decision)
          /\ cycle_pc[k] \in {"closing", "notifying"} =>
               target.needs_decision = (planned.status = "NeedsDecision")
          /\ cycle_pc[k] = "notifying" =>
               (target.state = "Done") = (planned.status = "Resolved" /\ target.created_by_reili)

CycleSound(k) ==
    /\ HoldsWhatItNeeds(k)
    /\ KnowsWhoseItIs(k)
    /\ SeesItAsItIs(k)
    /\ UpdateIsOnItsWay(k)

CycleInv ==
    /\ CycleTypeOK
    /\ OneCyclePerObjective
    /\ \A k \in Cycle : CycleSound(k)

(***************************************************************************)
(* One step, as a cycle sees it.                                           *)
(***************************************************************************)

(* The step is not this cycle's.                                           *)
Bystanding(k) ==
    /\ cycle_pc'[k] = cycle_pc[k]
    /\ objective'[k] = objective[k]
    /\ unlinked'[k] = unlinked[k]
    /\ observed'[k] = observed[k]
    /\ change'[k] = change[k]

(* No issue vanishes, or changes who opened it.                              *)
IssuesLast ==
    \A i \in Item : issue[i].state # "absent" =>
        /\ issue'[i].state # "absent"
        /\ issue'[i].created_by_reili = issue[i].created_by_reili

(* What others change is put down for every cycle under way.                  *)
ToldOfChanges(k) ==
    /\ disturbed[k] \subseteq disturbed'[k]
    /\ \A i \in Item :
          issue'[i] = issue[i] \/ i \in disturbed'[k] \/ cycle_pc[k] \in Idle

StepBesides(k) ==
    /\ IssuesLast
    /\ \A c \in Cycle \ {k} : Bystanding(c) /\ ToldOfChanges(c)

(* The marks and the cycles they stand for.                                  *)
MarksStay ==
    /\ running' = running
    /\ objective' = objective
    /\ \A c \in Cycle : cycle_pc'[c] = "none" <=> cycle_pc[c] = "none"

LEMMA NothingObserved ==
    ASSUME NEW i \in Item
    PROVE  Nothing[i] = None
BY DEF Nothing

LEMMA MarksStayRight ==
    ASSUME OneCyclePerObjective, MarksStay
    PROVE  OneCyclePerObjective'
<1>1. Active' = Active
  BY DEF Active, MarksStay
<1>2. QED
  BY <1>1 DEF OneCyclePerObjective, MarksStay

(* What others do leaves a cycle sound.                                     *)
LEMMA BystanderStaysSound ==
    ASSUME CycleTypeOK, NEW k \in Cycle, CycleSound(k),
           Bystanding(k), IssuesLast, ToldOfChanges(k)
    PROVE  CycleSound(k)'
<1> USE DEF Bystanding
<1>1. HoldsWhatItNeeds(k)'
  BY DEF CycleSound, HoldsWhatItNeeds
<1>2. change[k].kind = "update" => change[k].item \in Item
  BY DEF CycleSound, HoldsWhatItNeeds
<1>3. KnowsWhoseItIs(k)'
  BY <1>2 DEF CycleSound, KnowsWhoseItIs, IssuesLast
<1>4. CASE cycle_pc[k] \in Idle
  <2>1. /\ observed[k] = Nothing
        /\ unlinked[k] = {}
        /\ change[k] = NoChange
    BY <1>4 DEF CycleSound, HoldsWhatItNeeds, Idle, Writing
  <2>2. SeesItAsItIs(k)'
    BY <2>1, NothingObserved DEF SeesItAsItIs
  <2>3. UpdateIsOnItsWay(k)'
    BY <2>1 DEF UpdateIsOnItsWay, NoChange
  <2>4. QED
    BY <1>1, <1>3, <2>2, <2>3 DEF CycleSound
<1>5. CASE cycle_pc[k] \notin Idle
  <2>1. \A i \in Item \ disturbed'[k] : i \notin disturbed[k] /\ issue'[i] = issue[i]
    BY <1>5 DEF ToldOfChanges
  <2>2. SeesItAsItIs(k)'
    <3>1. \A i \in Item \ disturbed'[k] :
            /\ WorkItem(i)' = WorkItem(i)
            /\ i \in UnlinkedReiliWork => i \in UnlinkedReiliWork'
      BY <2>1 DEF WorkItem, UnlinkedReiliWork, IsReiliWork
    <3>2. unlinked[k] \subseteq Item
      BY DEF CycleTypeOK
    <3>3. QED
      BY <2>1, <3>1, <3>2 DEF CycleSound, SeesItAsItIs
  <2>3. UpdateIsOnItsWay(k)'
    BY <1>2, <2>1 DEF CycleSound, UpdateIsOnItsWay, Undisturbed, IsReiliWork
  <2>4. QED
    BY <1>1, <1>3, <2>2, <2>3 DEF CycleSound
<1>6. QED
  BY <1>4, <1>5

(* So a step keeps the invariant when it does for the cycle that takes it.    *)
LEMMA StepKeepsInv ==
    ASSUME CycleInv, NEW k, CycleTypeOK', OneCyclePerObjective',
           k \in Cycle => CycleSound(k)', StepBesides(k)
    PROVE  CycleInv'
<1>1. ASSUME NEW c \in Cycle PROVE CycleSound(c)'
  BY BystanderStaysSound DEF CycleInv, StepBesides
<1>2. QED
  BY <1>1 DEF CycleInv

(* A change of one issue is put down for every other cycle under way.         *)
LEMMA ChangeIsTold ==
    ASSUME CycleTypeOK, NEW k, NEW i \in Item, NEW written \in Issue,
           issue[i].state # "absent" =>
              /\ written.state # "absent"
              /\ written.created_by_reili = issue[i].created_by_reili,
           issue' = [issue EXCEPT ![i] = written],
           \A c \in Cycle \ {k} : disturbed'[c] = Disturb(k, i)[c]
    PROVE  /\ issue' \in [Item -> Issue]
           /\ IssuesLast
           /\ \A c \in Cycle \ {k} : ToldOfChanges(c)
<1>1. issue' \in [Item -> Issue]
  BY DEF CycleTypeOK, TrackerTypeOK
<1>2. IssuesLast
  BY DEF IssuesLast, CycleTypeOK, TrackerTypeOK
<1>3. ASSUME NEW c \in Cycle \ {k} PROVE ToldOfChanges(c)
  BY DEF ToldOfChanges, Disturb, Idle, CycleTypeOK, TrackerTypeOK
<1>4. QED
  BY <1>1, <1>2, <1>3

LEMMA NoChangeIsTold ==
    ASSUME NEW k, issue' = issue,
           \A c \in Cycle \ {k} : disturbed'[c] = disturbed[c]
    PROVE  /\ IssuesLast
           /\ \A c \in Cycle \ {k} : ToldOfChanges(c)
BY DEF IssuesLast, ToldOfChanges

LEMMA DisturbTyped ==
    ASSUME CycleTypeOK, NEW k, NEW i \in Item
    PROVE  Disturb(k, i) \in [Cycle -> SUBSET Item]
BY DEF Disturb, CycleTypeOK

(***************************************************************************)
(* The steps of a cycle.                                                   *)
(***************************************************************************)

(* A step that keeps what is said of types, marks and cycles.                *)
KeepsInv(k) ==
    /\ CycleTypeOK'
    /\ MarksStay
    /\ CycleSound(k)'
    /\ StepBesides(k)

LEMMA NothingTyped == Nothing \in [Item -> WorkItems \cup {None}]
BY DEF Nothing

LEMMA NoChangeTyped == NoChange \in Change
BY DEF NoChange, Change, Status

(* A cycle that ends has nothing left to be wrong about.                     *)
LEMMA DroppedIsSound ==
    ASSUME CycleInv, NEW k \in Cycle, cycle_pc[k] # "none",
           NEW how \in Outcomes, DropCycle(k, how)
    PROVE  /\ cycle_pc' \in [Cycle -> CyclePlaces]
           /\ objective' \in [Cycle -> Objective \cup {None}]
           /\ unlinked' \in [Cycle -> SUBSET Item]
           /\ observed' \in [Cycle -> [Item -> WorkItems \cup {None}]]
           /\ submitted' \in [Cycle -> Report \cup {None}]
           /\ change' \in [Cycle -> Change]
           /\ outcome' \in [Cycle -> Outcomes]
           /\ CycleSound(k)'
           /\ \A c \in Cycle \ {k} : Bystanding(c)
           /\ running' = running => MarksStay
<1> USE DEF DropCycle
<1>0. CycleTypeOK
  BY DEF CycleInv
<1>1. /\ cycle_pc' \in [Cycle -> CyclePlaces]
      /\ objective' \in [Cycle -> Objective \cup {None}]
      /\ unlinked' \in [Cycle -> SUBSET Item]
      /\ submitted' \in [Cycle -> Report \cup {None}]
      /\ outcome' \in [Cycle -> Outcomes]
  BY <1>0 DEF CycleTypeOK, CyclePlaces
<1>2. /\ observed' \in [Cycle -> [Item -> WorkItems \cup {None}]]
      /\ change' \in [Cycle -> Change]
  BY <1>0, NothingTyped, NoChangeTyped DEF CycleTypeOK
<1>3. /\ cycle_pc'[k] = "ended"
      /\ objective'[k] = objective[k]
      /\ unlinked'[k] = {}
      /\ observed'[k] = Nothing
      /\ change'[k] = NoChange
  BY <1>0 DEF CycleTypeOK
<1>4. HoldsWhatItNeeds(k)'
  BY <1>3 DEF HoldsWhatItNeeds, CycleInv, CycleSound, Writing, NoChange
<1>5. KnowsWhoseItIs(k)' /\ SeesItAsItIs(k)' /\ UpdateIsOnItsWay(k)'
  <2>1. change'[k].kind # "update"
    BY <1>3 DEF NoChange
  <2>2. \A i \in Item : observed'[k][i] = None
    BY <1>3, NothingObserved
  <2>3. QED
    BY <1>3, <2>1, <2>2 DEF KnowsWhoseItIs, SeesItAsItIs, UpdateIsOnItsWay
<1>6. \A c \in Cycle \ {k} : Bystanding(c)
  BY <1>0 DEF Bystanding, CycleTypeOK
<1>7. running' = running => MarksStay
  BY <1>0, <1>3, <1>6 DEF MarksStay, Bystanding
<1>8. QED
  BY <1>1, <1>2, <1>4, <1>5, <1>6, <1>7 DEF CycleSound

LEMMA EndKeepsInv ==
    ASSUME CycleInv, NEW k \in Cycle, cycle_pc[k] # "none",
           NEW how \in Outcomes, EndCycle(k, how),
           UNCHANGED <<schedulerVars, trackerVars>>
    PROVE  KeepsInv(k)
<1>0. CycleTypeOK /\ DropCycle(k, how)
  BY DEF CycleInv, EndCycle
<1>1. CycleTypeOK'
  BY <1>0, DroppedIsSound DEF CycleTypeOK, TrackerTypeOK, EndCycle, schedulerVars, trackerVars
<1>2. StepBesides(k)
  BY <1>0, DroppedIsSound, NoChangeIsTold DEF StepBesides, EndCycle, trackerVars, CycleTypeOK
<1>3. QED
  BY <1>0, <1>1, <1>2, DroppedIsSound DEF KeepsInv, schedulerVars

LEMMA WriteFailsKeepsInv ==
    ASSUME CycleInv, NEW k \in Cycle, NEW from, from # "none",
           NEW i \in Item, NEW written \in Issue,
           issue[i].state # "absent" =>
              /\ written.state # "absent"
              /\ written.created_by_reili = issue[i].created_by_reili,
           WriteFails(k, from, i, written)
    PROVE  KeepsInv(k)
<1>0. /\ CycleTypeOK
      /\ cycle_pc[k] # "none"
      /\ DropCycle(k, "Error")
      /\ "Error" \in Outcomes
      /\ UNCHANGED <<schedulerVars, edits>>
  BY DEF CycleInv, WriteFails, Outcomes
<1>1. CASE /\ issue' = [issue EXCEPT ![i] = written]
           /\ disturbed' = [Disturb(k, i) EXCEPT ![k] = {}]
  <2>1. /\ disturbed' \in [Cycle -> SUBSET Item]
        /\ \A c \in Cycle \ {k} : disturbed'[c] = Disturb(k, i)[c]
    BY <1>0, <1>1, DisturbTyped
  <2>2. /\ issue' \in [Item -> Issue]
        /\ IssuesLast
        /\ \A c \in Cycle \ {k} : ToldOfChanges(c)
    BY <1>0, <1>1, <2>1, ChangeIsTold
  <2>3. CycleTypeOK'
    BY <1>0, <2>1, <2>2, DroppedIsSound DEF CycleTypeOK, TrackerTypeOK, schedulerVars
  <2>4. QED
    BY <1>0, <2>2, <2>3, DroppedIsSound DEF KeepsInv, StepBesides, schedulerVars
<1>2. CASE issue' = issue /\ disturbed' = [disturbed EXCEPT ![k] = {}]
  <2>1. CycleTypeOK'
    BY <1>0, <1>2, DroppedIsSound DEF CycleTypeOK, TrackerTypeOK, schedulerVars
  <2>2. StepBesides(k)
    BY <1>0, <1>2, DroppedIsSound, NoChangeIsTold DEF StepBesides, CycleTypeOK
  <2>3. QED
    BY <1>0, <2>1, <2>2, DroppedIsSound DEF KeepsInv, schedulerVars
<1>3. QED
  BY <1>1, <1>2 DEF WriteFails

LEMMA RequestFailsKeepsInv ==
    ASSUME CycleInv, NEW k \in Cycle, NEW from, from # "none", RequestFails(k, from),
           UNCHANGED <<schedulerVars, trackerVars>>
    PROVE  KeepsInv(k)
<1>1. cycle_pc[k] # "none" /\ EndCycle(k, "Error") /\ "Error" \in Outcomes
  BY DEF RequestFails, Outcomes
<1>2. QED
  BY <1>1, EndKeepsInv

LEMMA GotoMoves ==
    ASSUME CycleInv, NEW k \in Cycle, NEW from, NEW to \in CyclePlaces \ {"none"},
           from # "none", Goto(k, from, to), running' = running, objective' = objective
    PROVE  /\ cycle_pc[k] = from
           /\ cycle_pc'[k] = to
           /\ cycle_pc' \in [Cycle -> CyclePlaces]
           /\ \A c \in Cycle \ {k} : cycle_pc'[c] = cycle_pc[c]
           /\ MarksStay
BY DEF Goto, CycleInv, CycleTypeOK, MarksStay

LEMMA ListUnlinkedKeepsInv ==
    ASSUME CycleInv, NEW k \in Cycle, ListUnlinked(k)
    PROVE  KeepsInv(k)
<1>0. CycleTypeOK /\ CycleSound(k)
  BY DEF CycleInv
<1>1. CASE /\ Goto(k, "listUnlinked", "linking")
           /\ unlinked' = [unlinked EXCEPT ![k] = UnlinkedReiliWork]
           /\ disturbed' = [disturbed EXCEPT ![k] = {}]
           /\ UNCHANGED <<objective, observed, submitted, change, outcome>>
           /\ UNCHANGED <<schedulerVars, trackerVars>>
  <2>0. "linking" \in CyclePlaces \ {"none"}
    BY DEF CyclePlaces, Listing
  <2>1. /\ cycle_pc[k] = "listUnlinked"
        /\ cycle_pc'[k] = "linking"
        /\ cycle_pc' \in [Cycle -> CyclePlaces]
        /\ \A c \in Cycle \ {k} : cycle_pc'[c] = cycle_pc[c]
        /\ MarksStay
    BY <1>1, <2>0, GotoMoves DEF schedulerVars
  <2>2. UnlinkedReiliWork \subseteq Item
    BY DEF UnlinkedReiliWork
  <2>3. CycleTypeOK'
    BY <1>0, <1>1, <2>1, <2>2 DEF CycleTypeOK, TrackerTypeOK, schedulerVars, trackerVars
  <2>4. StepBesides(k)
    BY <1>0, <1>1, <2>1, NoChangeIsTold
       DEF StepBesides, Bystanding, CycleTypeOK, trackerVars
  <2>5. HoldsWhatItNeeds(k)'
    BY <1>0, <1>1, <2>1 DEF CycleSound, HoldsWhatItNeeds, Writing
  <2>6. observed[k] = Nothing /\ change[k] = NoChange /\ unlinked'[k] = UnlinkedReiliWork
    BY <1>0, <1>1, <2>1 DEF CycleSound, HoldsWhatItNeeds, Writing, CycleTypeOK
  <2>7. KnowsWhoseItIs(k)' /\ UpdateIsOnItsWay(k)'
    BY <1>1, <2>6, NothingObserved DEF KnowsWhoseItIs, UpdateIsOnItsWay, NoChange
  <2>8. SeesItAsItIs(k)'
    BY <1>1, <2>6, NothingObserved
       DEF SeesItAsItIs, UnlinkedReiliWork, IsReiliWork, trackerVars
  <2>9. QED
    BY <2>1, <2>3, <2>4, <2>5, <2>7, <2>8 DEF KeepsInv, CycleSound
<1>2. QED
  BY <1>1, RequestFailsKeepsInv DEF ListUnlinked

(* The writes to an issue keep its fields but one.                           *)
LEMMA LinkedToFields ==
    ASSUME TrackerTypeOK, NEW i \in Item, NEW o \in Objective
    PROVE  /\ LinkedTo(i, o) \in Issue
           /\ LinkedTo(i, o).state = issue[i].state
           /\ LinkedTo(i, o).created_by_reili = issue[i].created_by_reili
<1>1. issue[i] \in Issue
  BY DEF TrackerTypeOK
<1> DEFINE linked == issue[i].objectives \cup {o}
<1>2. linked \in SUBSET Objective
  BY <1>1 DEF Issue
<1>3. LinkedTo(i, o) = [issue[i] EXCEPT !.objectives = linked]
  BY DEF LinkedTo
<1> HIDE DEF linked
<1>4. QED
  BY <1>1, <1>2, <1>3 DEF Issue

LEMMA LinkOneKeepsInv ==
    ASSUME CycleInv, NEW k \in Cycle, NEW i \in Item, LinkOne(k, i)
    PROVE  KeepsInv(k)
<1> DEFINE linked == LinkedTo(i, objective[k])
<1>0. CycleTypeOK /\ CycleSound(k) /\ cycle_pc[k] = "linking" /\ i \in unlinked[k]
  BY DEF CycleInv, LinkOne
<1>1. objective[k] \in Objective
  BY <1>0 DEF CycleSound, HoldsWhatItNeeds, CycleTypeOK
<1>2. /\ linked \in Issue
      /\ linked.state = issue[i].state
      /\ linked.created_by_reili = issue[i].created_by_reili
  BY <1>0, <1>1, LinkedToFields DEF CycleTypeOK
<1> HIDE DEF linked
<1>3. CASE /\ unlinked' = [unlinked EXCEPT ![k] = @ \ {i}]
           /\ WriteIssue(k, i, linked)
           /\ UNCHANGED <<schedulerVars, edits, cycle_pc, objective, observed,
                          submitted, change, outcome>>
  <2>1. disturbed' \in [Cycle -> SUBSET Item] /\ disturbed' = Disturb(k, i)
    BY <1>0, <1>3, DisturbTyped DEF WriteIssue
  <2>2. /\ issue' = [issue EXCEPT ![i] = linked]
        /\ issue' \in [Item -> Issue]
        /\ IssuesLast
        /\ \A c \in Cycle \ {k} : ToldOfChanges(c)
    BY <1>0, <1>2, <1>3, <2>1, ChangeIsTold DEF WriteIssue
  <2>3. CycleTypeOK' /\ unlinked'[k] = unlinked[k] \ {i}
    BY <1>0, <1>3, <2>1, <2>2 DEF CycleTypeOK, TrackerTypeOK, schedulerVars
  <2>4. StepBesides(k) /\ MarksStay
    BY <1>0, <1>3, <2>2
       DEF StepBesides, MarksStay, Bystanding, CycleTypeOK, schedulerVars
  <2>5. observed[k] = Nothing /\ change[k] = NoChange
    BY <1>0 DEF CycleSound, HoldsWhatItNeeds, Writing
  <2>6. HoldsWhatItNeeds(k)'
    BY <1>0, <1>3 DEF CycleSound, HoldsWhatItNeeds
  <2>7. KnowsWhoseItIs(k)' /\ UpdateIsOnItsWay(k)'
    BY <1>3, <2>5, NothingObserved DEF KnowsWhoseItIs, UpdateIsOnItsWay, NoChange
  <2>8. SeesItAsItIs(k)'
    <3>1. disturbed'[k] = disturbed[k]
      BY <2>1, <1>0 DEF Disturb
    <3>2. \A j \in unlinked'[k] : j \in Item /\ issue'[j] = issue[j]
      BY <1>0, <2>2, <2>3 DEF CycleTypeOK, TrackerTypeOK
    <3>3. \A j \in unlinked'[k] \ disturbed'[k] : j \in UnlinkedReiliWork'
      BY <1>0, <2>3, <3>1, <3>2
         DEF CycleSound, SeesItAsItIs, UnlinkedReiliWork, IsReiliWork
    <3>4. QED
      BY <1>3, <2>5, <3>3, NothingObserved DEF SeesItAsItIs
  <2>9. QED
    BY <2>3, <2>4, <2>6, <2>7, <2>8 DEF KeepsInv, CycleSound
<1>4. CASE WriteFails(k, "linking", i, linked)
  BY <1>2, <1>4, WriteFailsKeepsInv
<1>5. QED
  BY <1>3, <1>4 DEF LinkOne, linked

LEMMA LinkedAllKeepsInv ==
    ASSUME CycleInv, NEW k \in Cycle, LinkedAll(k)
    PROVE  KeepsInv(k)
<1> USE DEF LinkedAll
<1>0. CycleTypeOK /\ CycleSound(k) /\ "listOpen" \in CyclePlaces \ {"none"}
  BY DEF CycleInv, CyclePlaces, Listing
<1>1. /\ cycle_pc[k] = "linking"
      /\ cycle_pc'[k] = "listOpen"
      /\ cycle_pc' \in [Cycle -> CyclePlaces]
      /\ \A c \in Cycle \ {k} : cycle_pc'[c] = cycle_pc[c]
      /\ MarksStay
  BY <1>0, GotoMoves DEF schedulerVars
<1>2. CycleTypeOK'
  BY <1>0, <1>1 DEF CycleTypeOK, TrackerTypeOK, schedulerVars, trackerVars
<1>3. StepBesides(k)
  BY <1>0, <1>1, NoChangeIsTold DEF StepBesides, Bystanding, trackerVars
<1>4. observed[k] = Nothing /\ change[k] = NoChange
  BY <1>0, <1>1 DEF CycleSound, HoldsWhatItNeeds, Writing
<1>5. HoldsWhatItNeeds(k)'
  BY <1>0, <1>1 DEF CycleSound, HoldsWhatItNeeds, Writing
<1>6. KnowsWhoseItIs(k)' /\ SeesItAsItIs(k)' /\ UpdateIsOnItsWay(k)'
  BY <1>4, NothingObserved DEF KnowsWhoseItIs, SeesItAsItIs, UpdateIsOnItsWay, NoChange
<1>7. QED
  BY <1>1, <1>2, <1>3, <1>5, <1>6 DEF KeepsInv, CycleSound

LEMMA WorkItemTyped ==
    ASSUME TrackerTypeOK, NEW i \in Item, issue[i].state # "absent"
    PROVE  WorkItem(i) \in WorkItems
BY DEF TrackerTypeOK, WorkItem, WorkItems, Issue

LEMMA ListOpenKeepsInv ==
    ASSUME CycleInv, NEW k \in Cycle, ListOpen(k)
    PROVE  KeepsInv(k)
<1> DEFINE listed == [i \in Item |-> IF i \in OpenItems(objective[k])
                                       THEN WorkItem(i) ELSE None]
<1>0. CycleTypeOK /\ CycleSound(k) /\ TrackerTypeOK
  BY DEF CycleInv, CycleTypeOK
<1>1. CASE /\ Goto(k, "listOpen", "listClosed")
           /\ observed' = [observed EXCEPT ![k] = listed]
           /\ disturbed' = [disturbed EXCEPT ![k] = {}]
           /\ UNCHANGED <<objective, unlinked, submitted, change, outcome>>
           /\ UNCHANGED <<schedulerVars, trackerVars>>
  <2>0. "listClosed" \in CyclePlaces \ {"none"}
    BY DEF CyclePlaces, Listing
  <2>1. /\ cycle_pc[k] = "listOpen"
        /\ cycle_pc'[k] = "listClosed"
        /\ cycle_pc' \in [Cycle -> CyclePlaces]
        /\ \A c \in Cycle \ {k} : cycle_pc'[c] = cycle_pc[c]
        /\ MarksStay
    BY <1>1, <2>0, GotoMoves DEF schedulerVars
  <2>2. ASSUME NEW i \in Item, listed[i] # None
        PROVE  /\ listed[i] = WorkItem(i)
               /\ listed[i] \in WorkItems
               /\ issue[i].state = "Open"
               /\ objective[k] \in issue[i].objectives
    <3>1. listed[i] = WorkItem(i) /\ i \in OpenItems(objective[k])
      BY <2>2
    <3>2. issue[i].state = "Open" /\ objective[k] \in issue[i].objectives
      BY <3>1 DEF OpenItems
    <3>3. WorkItem(i) \in WorkItems
      BY <1>0, <3>2, WorkItemTyped
    <3>4. QED
      BY <3>1, <3>2, <3>3
  <2>3. listed \in [Item -> WorkItems \cup {None}]
    BY <2>2
  <2> HIDE DEF listed
  <2>4. CycleTypeOK'
    BY <1>0, <1>1, <2>1, <2>3 DEF CycleTypeOK, TrackerTypeOK, schedulerVars, trackerVars
  <2>5. StepBesides(k)
    BY <1>0, <1>1, <2>1, NoChangeIsTold
       DEF StepBesides, Bystanding, CycleTypeOK, trackerVars
  <2>6. HoldsWhatItNeeds(k)'
    BY <1>0, <1>1, <2>1 DEF CycleSound, HoldsWhatItNeeds, Writing
  <2>7. unlinked[k] = {} /\ change[k] = NoChange /\ observed'[k] = listed
    BY <1>0, <1>1, <2>1 DEF CycleSound, HoldsWhatItNeeds, Writing, CycleTypeOK
  <2>8. /\ \A i \in Item : WorkItem(i).created_by_reili = issue[i].created_by_reili
        /\ \A i \in Item : WorkItem(i)' = WorkItem(i)
    BY <1>1 DEF WorkItem, trackerVars
  <2>9. KnowsWhoseItIs(k)'
    BY <1>1, <2>2, <2>7, <2>8 DEF KnowsWhoseItIs, NoChange, trackerVars
  <2>10. SeesItAsItIs(k)'
    BY <1>1, <2>2, <2>7, <2>8 DEF SeesItAsItIs, trackerVars
  <2>11. UpdateIsOnItsWay(k)'
    BY <1>1, <2>7 DEF UpdateIsOnItsWay, NoChange
  <2>12. QED
    BY <2>1, <2>4, <2>5, <2>6, <2>9, <2>10, <2>11 DEF KeepsInv, CycleSound
<1>2. QED
  BY <1>1, RequestFailsKeepsInv DEF ListOpen

LEMMA ListClosedKeepsInv ==
    ASSUME CycleInv, NEW k \in Cycle, ListClosed(k)
    PROVE  KeepsInv(k)
<1>0. CycleTypeOK /\ CycleSound(k) /\ TrackerTypeOK
  BY DEF CycleInv, CycleTypeOK
<1>1. ASSUME /\ Goto(k, "listClosed", "working")
             /\ UNCHANGED <<objective, unlinked, submitted, change, outcome, disturbed>>
             /\ UNCHANGED <<schedulerVars, trackerVars>>,
             NEW recent \in SUBSET ClosedItems(objective[k]),
             observed' = [observed EXCEPT ![k] =
               [i \in Item |-> IF @[i] = None /\ i \in recent
                                 THEN WorkItem(i) ELSE @[i]]]
      PROVE  KeepsInv(k)
  <2> DEFINE listed == [i \in Item |-> IF observed[k][i] = None /\ i \in recent
                                         THEN WorkItem(i) ELSE observed[k][i]]
  <2>0. "working" \in CyclePlaces \ {"none"}
    BY DEF CyclePlaces, Working
  <2>1. /\ cycle_pc[k] = "listClosed"
        /\ cycle_pc'[k] = "working"
        /\ cycle_pc' \in [Cycle -> CyclePlaces]
        /\ \A c \in Cycle \ {k} : cycle_pc'[c] = cycle_pc[c]
        /\ MarksStay
    BY <1>1, <2>0, GotoMoves DEF schedulerVars
  <2>2. ASSUME NEW i \in Item, listed[i] # observed[k][i]
        PROVE  /\ listed[i] = WorkItem(i)
               /\ listed[i] \in WorkItems
               /\ issue[i].state # "absent"
               /\ objective[k] \in issue[i].objectives
    <3>1. listed[i] = WorkItem(i) /\ i \in ClosedItems(objective[k])
      BY <2>2
    <3>2. issue[i].state # "absent" /\ objective[k] \in issue[i].objectives
      BY <3>1 DEF ClosedItems
    <3>3. WorkItem(i) \in WorkItems
      BY <1>0, <3>2, WorkItemTyped
    <3>4. QED
      BY <3>1, <3>2, <3>3
  <2>3. listed \in [Item -> WorkItems \cup {None}]
    <3>1. observed[k] \in [Item -> WorkItems \cup {None}]
      BY <1>0 DEF CycleTypeOK
    <3>2. QED
      BY <2>2, <3>1
  <2>4. observed' = [observed EXCEPT ![k] = listed]
    BY <1>1
  <2> HIDE DEF listed
  <2>5. CycleTypeOK'
    <3>1. observed' \in [Cycle -> [Item -> WorkItems \cup {None}]]
      BY <1>0, <2>3, <2>4 DEF CycleTypeOK
    <3>2. QED
      BY <1>0, <1>1, <2>1, <3>1
         DEF CycleTypeOK, TrackerTypeOK, schedulerVars, trackerVars
  <2>6. StepBesides(k)
    BY <1>0, <1>1, <2>1, <2>4, NoChangeIsTold
       DEF StepBesides, Bystanding, CycleTypeOK, trackerVars
  <2>7. HoldsWhatItNeeds(k)'
    BY <1>0, <1>1, <2>1 DEF CycleSound, HoldsWhatItNeeds, Writing
  <2>8. unlinked[k] = {} /\ change[k] = NoChange /\ observed'[k] = listed
    BY <1>0, <1>1, <2>1, <2>4 DEF CycleSound, HoldsWhatItNeeds, Writing, CycleTypeOK
  <2>9. /\ \A i \in Item : WorkItem(i).created_by_reili = issue[i].created_by_reili
        /\ \A i \in Item : WorkItem(i)' = WorkItem(i)
    BY <1>1 DEF WorkItem, trackerVars
  <2>10. KnowsWhoseItIs(k)'
    BY <1>0, <1>1, <2>2, <2>8, <2>9 DEF CycleSound, KnowsWhoseItIs, NoChange, trackerVars
  <2>11. SeesItAsItIs(k)'
    BY <1>0, <1>1, <2>2, <2>8, <2>9 DEF CycleSound, SeesItAsItIs, trackerVars
  <2>12. UpdateIsOnItsWay(k)'
    BY <1>1, <2>8 DEF UpdateIsOnItsWay, NoChange
  <2>13. QED
    BY <2>1, <2>5, <2>6, <2>7, <2>10, <2>11, <2>12 DEF KeepsInv, CycleSound
<1>2. QED
  BY <1>1, RequestFailsKeepsInv DEF ListClosed

LEMMA SubmitReportKeepsInv ==
    ASSUME CycleInv, NEW k \in Cycle, SubmitReport(k)
    PROVE  KeepsInv(k)
<1> USE DEF SubmitReport
<1>0. CycleTypeOK /\ CycleSound(k)
  BY DEF CycleInv
<1>1. CycleTypeOK'
  BY <1>0 DEF CycleTypeOK, TrackerTypeOK, schedulerVars, trackerVars
<1>2. StepBesides(k) /\ MarksStay
  BY NoChangeIsTold DEF StepBesides, MarksStay, Bystanding, schedulerVars, trackerVars
<1>3. Bystanding(k) /\ IssuesLast /\ ToldOfChanges(k)
  BY DEF Bystanding, IssuesLast, ToldOfChanges, trackerVars
<1>4. QED
  BY <1>0, <1>1, <1>2, <1>3, BystanderStaysSound DEF KeepsInv

(* What is planned from a report, out of what was observed.                  *)
LEMMA PlannedChange ==
    ASSUME NEW items \in [Item -> WorkItems \cup {None}], NEW report \in Report
    PROVE  LET planned == PlanChanges(items, report)
               target == items[planned.item]
           IN  /\ planned \in Change
               /\ planned.kind = "update" =>
                    /\ planned.item \in Item
                    /\ target # None
                    /\ target \in WorkItems
                    /\ IsReiliWork(target)
                    /\ planned.relabel = ((planned.status = "NeedsDecision") # target.needs_decision)
                    /\ planned.closing = (planned.status = "Resolved" /\ target.created_by_reili)
<1>1. CASE report = {}
  BY <1>1, NoChangeTyped DEF PlanChanges, NoChange
<1>2. CASE report # {}
  <2> DEFINE p == CHOOSE q \in report : TRUE
             i == p.existing_record
  <2>1. p \in Proposal
    BY <1>2 DEF Report
  <2>2. i \in Item \cup {None} /\ p.status \in Status
    BY <2>1 DEF Proposal
  <2>3. PlanChanges(items, report) = PlanChange(items, p)
    BY <1>2 DEF PlanChanges
  <2> HIDE DEF p
  <2>4. CASE ~Skips(items, p) /\ i # None /\ IsReiliWork(items[i])
    <3>1. PlanChange(items, p) = Update(items, p)
      BY <2>4 DEF PlanChange
    <3>2. i \in Item /\ items[i] # None /\ items[i] \in WorkItems
      BY <2>2, <2>4 DEF Skips
    <3>3. Update(items, p) \in Change
      <4>1. /\ items[i].needs_decision \in BOOLEAN
            /\ items[i].created_by_reili \in BOOLEAN
        BY <3>2 DEF WorkItems
      <4>2. QED
        BY <2>2, <3>2, <4>1 DEF Update, Change
    <3>4. QED
      BY <2>3, <2>4, <3>1, <3>2, <3>3 DEF Update
  <2>5. CASE ~(~Skips(items, p) /\ i # None /\ IsReiliWork(items[i]))
    <3>1. PlanChange(items, p) \in {NoChange, [NoChange EXCEPT !.kind = "create", !.status = p.status]}
      BY <2>5 DEF PlanChange
    <3>2. PlanChange(items, p) \in Change /\ PlanChange(items, p).kind # "update"
      BY <2>2, <3>1, NoChangeTyped DEF NoChange, Change
    <3>3. QED
      BY <2>3, <3>2
  <2>6. QED
    BY <2>4, <2>5
<1>3. QED
  BY <1>1, <1>2

LEMMA FirstWritePlace ==
    ASSUME NEW planned \in Change
    PROVE  /\ FirstWrite(planned) \in CyclePlaces \ {"none"}
           /\ FirstWrite(planned) = "commenting" <=> planned.kind = "update"
           /\ FirstWrite(planned) = "creating" <=> planned.kind = "create"
           /\ FirstWrite(planned) \in {"commenting", "creating", "notifying"}
BY DEF FirstWrite, Change, CyclePlaces, Writing

LEMMA AgentFinishesKeepsInv ==
    ASSUME CycleInv, NEW k \in Cycle, AgentFinishes(k)
    PROVE  KeepsInv(k)
<1> DEFINE planned == PlanChanges(observed[k], submitted[k])
<1>0. CycleTypeOK /\ CycleSound(k)
  BY DEF CycleInv
<1>1. CASE /\ submitted[k] # None
           /\ change' = [change EXCEPT ![k] = planned]
           /\ Goto(k, "working", FirstWrite(planned))
           /\ observed' = [observed EXCEPT ![k] = Nothing]
           /\ submitted' = [submitted EXCEPT ![k] = None]
           /\ UNCHANGED <<objective, unlinked, outcome, disturbed>>
           /\ UNCHANGED <<schedulerVars, trackerVars>>
  <2> DEFINE target == observed[k][planned.item]
  <2>1. observed[k] \in [Item -> WorkItems \cup {None}] /\ submitted[k] \in Report
    BY <1>0, <1>1 DEF CycleTypeOK
  <2>2. /\ planned \in Change
        /\ planned.kind = "update" =>
             /\ planned.item \in Item
             /\ target # None
             /\ target \in WorkItems
             /\ IsReiliWork(target)
             /\ planned.relabel = ((planned.status = "NeedsDecision") # target.needs_decision)
             /\ planned.closing = (planned.status = "Resolved" /\ target.created_by_reili)
    BY <2>1, PlannedChange
  <2> HIDE DEF planned
  <2>3. /\ FirstWrite(planned) \in CyclePlaces \ {"none"}
        /\ FirstWrite(planned) = "commenting" <=> planned.kind = "update"
        /\ FirstWrite(planned) = "creating" <=> planned.kind = "create"
        /\ FirstWrite(planned) \in {"commenting", "creating", "notifying"}
    BY <2>2, FirstWritePlace
  <2>4. /\ cycle_pc[k] = "working"
        /\ cycle_pc'[k] = FirstWrite(planned)
        /\ cycle_pc' \in [Cycle -> CyclePlaces]
        /\ \A c \in Cycle \ {k} : cycle_pc'[c] = cycle_pc[c]
        /\ MarksStay
    BY <1>1, <2>3, GotoMoves DEF schedulerVars
  <2>5. CycleTypeOK'
    BY <1>0, <1>1, <2>2, <2>4, NothingTyped
       DEF CycleTypeOK, TrackerTypeOK, schedulerVars, trackerVars
  <2>6. StepBesides(k)
    BY <1>0, <1>1, <2>4, NoChangeIsTold
       DEF StepBesides, Bystanding, CycleTypeOK, trackerVars
  <2>7. /\ unlinked[k] = {}
        /\ observed'[k] = Nothing
        /\ change'[k] = planned
        /\ objective[k] # None
    BY <1>0, <1>1, <2>4 DEF CycleSound, HoldsWhatItNeeds, CycleTypeOK
  <2>8. HoldsWhatItNeeds(k)'
    BY <1>1, <2>2, <2>3, <2>4, <2>7 DEF HoldsWhatItNeeds, Writing
  <2>9. KnowsWhoseItIs(k)'
    BY <1>0, <1>1, <2>2, <2>7, NothingObserved DEF CycleSound, KnowsWhoseItIs, trackerVars
  <2>10. SeesItAsItIs(k)'
    BY <1>1, <2>7, NothingObserved DEF SeesItAsItIs
  <2>11. UpdateIsOnItsWay(k)'
    <3>1. ASSUME planned.kind = "update", planned.item \notin disturbed[k]
          PROVE  /\ target = WorkItem(planned.item)
                 /\ objective[k] \in issue[planned.item].objectives
      BY <1>0, <2>2, <3>1 DEF CycleSound, SeesItAsItIs
    <3>2. QED
      BY <1>1, <2>2, <2>3, <2>4, <2>7, <3>1
         DEF UpdateIsOnItsWay, Undisturbed, WorkItem, IsReiliWork, trackerVars
  <2>12. QED
    BY <2>4, <2>5, <2>6, <2>8, <2>9, <2>10, <2>11 DEF KeepsInv, CycleSound
<1>2. CASE cycle_pc[k] = "working" /\ EndCycle(k, "Ended") /\ UNCHANGED <<schedulerVars, trackerVars>>
  BY <1>2, EndKeepsInv DEF Outcomes
<1>3. QED
  BY <1>1, <1>2 DEF AgentFinishes

LEMMA CancelRunKeepsInv ==
    ASSUME CycleInv, NEW k \in Cycle, NEW why \in {"timedOut", "shuttingDown"},
           CancelRun(k, why)
    PROVE  KeepsInv(k)
<1> USE DEF CancelRun
<1>0. CycleTypeOK /\ CycleSound(k) /\ why \in CyclePlaces \ {"none"}
  BY DEF CycleInv, CyclePlaces, Working
<1>1. /\ cycle_pc[k] = "working"
      /\ cycle_pc'[k] = why
      /\ cycle_pc' \in [Cycle -> CyclePlaces]
      /\ \A c \in Cycle \ {k} : cycle_pc'[c] = cycle_pc[c]
      /\ MarksStay
  BY <1>0, GotoMoves DEF schedulerVars
<1>2. CycleTypeOK'
  BY <1>0, <1>1, NothingTyped DEF CycleTypeOK, TrackerTypeOK, schedulerVars, trackerVars
<1>3. StepBesides(k)
  BY <1>0, <1>1, NoChangeIsTold DEF StepBesides, Bystanding, CycleTypeOK, trackerVars
<1>4. unlinked[k] = {} /\ observed'[k] = Nothing /\ change[k] = NoChange
  BY <1>0, <1>1 DEF CycleSound, HoldsWhatItNeeds, CycleTypeOK, Writing
<1>5. HoldsWhatItNeeds(k)'
  BY <1>0, <1>1, <1>4 DEF CycleSound, HoldsWhatItNeeds, Writing
<1>6. KnowsWhoseItIs(k)' /\ UpdateIsOnItsWay(k)'
  BY <1>4, NothingObserved DEF KnowsWhoseItIs, UpdateIsOnItsWay, NoChange
<1>7. SeesItAsItIs(k)'
  BY <1>4, NothingObserved DEF SeesItAsItIs
<1>8. QED
  BY <1>1, <1>2, <1>3, <1>5, <1>6, <1>7 DEF KeepsInv, CycleSound

LEMMA EndingKeepsInv ==
    ASSUME CycleInv, NEW k \in Cycle, GraceEnds(k) \/ Notify(k) \/ Panics(k)
    PROVE  KeepsInv(k)
<1>1. /\ cycle_pc[k] # "none"
      /\ \E how \in Outcomes : EndCycle(k, how)
      /\ UNCHANGED <<schedulerVars, trackerVars>>
  BY DEF GraceEnds, Notify, Panics, Outcomes
<1>2. QED
  BY <1>1, EndKeepsInv

(* A cycle that writes, and where it goes next.                              *)
LEMMA WritingHolds ==
    ASSUME CycleInv, NEW k \in Cycle, cycle_pc[k] \in Writing \ {"creating"}
    PROVE  /\ change[k].kind = "update"
           /\ change[k] \in Change
           /\ change[k].item \in Item
           /\ observed[k] = Nothing
           /\ unlinked[k] = {}
           /\ objective[k] \in Objective
BY DEF CycleInv, CycleSound, HoldsWhatItNeeds, CycleTypeOK, Writing

LEMMA AfterwardsPlace ==
    ASSUME NEW planned \in Change
    PROVE  /\ AfterRelabel(planned) \in {"closing", "notifying"}
           /\ AfterComment(planned) \in {"relabelling", "closing", "notifying"}
           /\ AfterRelabel(planned) = "closing" <=> planned.closing
           /\ AfterComment(planned) = "closing" => planned.closing
BY DEF AfterRelabel, AfterComment

LEMMA AddCommentKeepsInv ==
    ASSUME CycleInv, NEW k \in Cycle, AddComment(k)
    PROVE  KeepsInv(k)
<1>0. CycleTypeOK /\ CycleSound(k)
  BY DEF CycleInv
<1>1. CASE /\ Goto(k, "commenting", AfterComment(change[k]))
           /\ KeepCycle
           /\ UNCHANGED disturbed
           /\ UNCHANGED <<schedulerVars, trackerVars>>
  <2>1. cycle_pc[k] = "commenting"
    BY <1>1 DEF Goto
  <2>2. /\ change[k].kind = "update"
        /\ change[k] \in Change
        /\ change[k].item \in Item
        /\ observed[k] = Nothing
        /\ unlinked[k] = {}
        /\ objective[k] \in Objective
    BY <2>1, WritingHolds DEF Writing
  <2>3. /\ AfterComment(change[k]) \in {"relabelling", "closing", "notifying"}
        /\ AfterComment(change[k]) = "closing" => change[k].closing
    BY <2>2, AfterwardsPlace
  <2>4. /\ cycle_pc'[k] = AfterComment(change[k])
        /\ cycle_pc' \in [Cycle -> CyclePlaces]
        /\ \A c \in Cycle \ {k} : cycle_pc'[c] = cycle_pc[c]
        /\ MarksStay
    BY <1>1, <2>3, GotoMoves DEF schedulerVars, KeepCycle, CyclePlaces, Writing
  <2>5. CycleTypeOK'
    BY <1>0, <1>1, <2>4
       DEF CycleTypeOK, TrackerTypeOK, KeepCycle, schedulerVars, trackerVars
  <2>6. StepBesides(k)
    BY <1>1, <2>4, NoChangeIsTold DEF StepBesides, Bystanding, KeepCycle, trackerVars
  <2>7. HoldsWhatItNeeds(k)'
    BY <1>0, <1>1, <2>1, <2>2, <2>3, <2>4
       DEF CycleSound, HoldsWhatItNeeds, KeepCycle, Writing
  <2>8. KnowsWhoseItIs(k)' /\ SeesItAsItIs(k)'
    BY <1>0, <1>1, <2>2, NothingObserved
       DEF CycleSound, KnowsWhoseItIs, SeesItAsItIs, KeepCycle, trackerVars
  <2>9. UpdateIsOnItsWay(k)'
    <3>1. ASSUME Undisturbed(k)
          PROVE  LET target == issue[change[k].item] IN
                 /\ IsReiliWork(target)
                 /\ objective[k] \in target.objectives
                 /\ change[k].closing = (change[k].status = "Resolved" /\ target.created_by_reili)
                 /\ change[k].relabel = ((change[k].status = "NeedsDecision") # target.needs_decision)
      BY <1>0, <2>1, <2>2, <3>1 DEF CycleSound, UpdateIsOnItsWay, Writing
    <3>2. issue[change[k].item] \in Issue
      BY <1>0, <2>2 DEF CycleTypeOK, TrackerTypeOK
    <3>3. QED
      BY <1>1, <2>2, <2>4, <3>1, <3>2
         DEF UpdateIsOnItsWay, Undisturbed, IsReiliWork, AfterComment, AfterRelabel,
             KeepCycle, Writing, Issue, trackerVars
  <2>10. QED
    BY <2>4, <2>5, <2>6, <2>7, <2>8, <2>9 DEF KeepsInv, CycleSound
<1>2. QED
  BY <1>1, RequestFailsKeepsInv DEF AddComment

LEMMA WithNeedsDecisionFields ==
    ASSUME TrackerTypeOK, NEW i \in Item, NEW b \in BOOLEAN
    PROVE  /\ WithNeedsDecision(i, b) \in Issue
           /\ WithNeedsDecision(i, b).needs_decision = b
           /\ \A f \in {"state", "objectives", "assigned", "created_by_reili"} :
                 WithNeedsDecision(i, b)[f] = issue[i][f]
BY DEF TrackerTypeOK, WithNeedsDecision, Issue

LEMMA ClosedAsDoneFields ==
    ASSUME TrackerTypeOK, NEW i \in Item
    PROVE  /\ ClosedAsDone(i) \in Issue
           /\ ClosedAsDone(i).state = "Done"
           /\ \A f \in {"objectives", "assigned", "needs_decision", "created_by_reili"} :
                 ClosedAsDone(i)[f] = issue[i][f]
BY DEF TrackerTypeOK, ClosedAsDone, Issue, WorkItemState

(* What a write of a cycle to the issue it updates leaves.                   *)
LEMMA WriteKeeps ==
    ASSUME CycleInv, NEW k \in Cycle, NEW i \in Item, NEW written \in Issue,
           NEW from, NEW to \in CyclePlaces \ {"none"}, from # "none", Goto(k, from, to),
           issue[i].state # "absent" =>
              /\ written.state # "absent"
              /\ written.created_by_reili = issue[i].created_by_reili,
           WriteIssue(k, i, written), KeepCycle, UNCHANGED <<schedulerVars, edits>>
    PROVE  /\ CycleTypeOK'
           /\ StepBesides(k)
           /\ MarksStay
           /\ cycle_pc[k] = from
           /\ cycle_pc'[k] = to
           /\ issue'[i] = written
           /\ disturbed'[k] = disturbed[k]
<1>0. CycleTypeOK
  BY DEF CycleInv
<1>1. /\ cycle_pc[k] = from
      /\ cycle_pc'[k] = to
      /\ cycle_pc' \in [Cycle -> CyclePlaces]
      /\ \A c \in Cycle \ {k} : cycle_pc'[c] = cycle_pc[c]
      /\ MarksStay
  BY GotoMoves DEF schedulerVars, KeepCycle
<1>2. disturbed' \in [Cycle -> SUBSET Item] /\ disturbed' = Disturb(k, i)
  BY <1>0, DisturbTyped DEF WriteIssue
<1>3. /\ issue' = [issue EXCEPT ![i] = written]
      /\ issue' \in [Item -> Issue]
      /\ IssuesLast
      /\ \A c \in Cycle \ {k} : ToldOfChanges(c)
  BY <1>0, <1>2, ChangeIsTold DEF WriteIssue
<1>4. CycleTypeOK'
  BY <1>0, <1>1, <1>2, <1>3 DEF CycleTypeOK, TrackerTypeOK, schedulerVars, KeepCycle
<1>5. StepBesides(k)
  BY <1>1, <1>3 DEF StepBesides, Bystanding, KeepCycle
<1>6. issue'[i] = written
  BY <1>0, <1>3 DEF CycleTypeOK, TrackerTypeOK
<1>7. disturbed'[k] = disturbed[k]
  BY <1>2 DEF Disturb
<1>8. QED
  BY <1>1, <1>4, <1>5, <1>6, <1>7

LEMMA SetNeedsDecisionKeepsInv ==
    ASSUME CycleInv, NEW k \in Cycle, SetNeedsDecision(k)
    PROVE  KeepsInv(k)
<1> DEFINE i == change[k].item
           needs == change[k].status = "NeedsDecision"
           relabelled == WithNeedsDecision(i, needs)
<1>0. CycleTypeOK /\ TrackerTypeOK /\ CycleSound(k) /\ cycle_pc[k] = "relabelling"
  BY DEF CycleInv, CycleTypeOK, SetNeedsDecision, Goto, WriteFails
<1>1. /\ change[k].kind = "update"
      /\ change[k] \in Change
      /\ i \in Item
      /\ observed[k] = Nothing
      /\ unlinked[k] = {}
      /\ objective[k] \in Objective
  BY <1>0, WritingHolds DEF Writing
<1>2. needs \in BOOLEAN
  OBVIOUS
<1> HIDE DEF needs
<1>3. /\ relabelled \in Issue
      /\ relabelled.needs_decision = needs
      /\ relabelled.state = issue[i].state
      /\ relabelled.objectives = issue[i].objectives
      /\ relabelled.assigned = issue[i].assigned
      /\ relabelled.created_by_reili = issue[i].created_by_reili
  BY <1>0, <1>1, <1>2, WithNeedsDecisionFields
<1> HIDE DEF relabelled
<1>4. CASE /\ Goto(k, "relabelling", AfterRelabel(change[k]))
           /\ WriteIssue(k, i, relabelled)
           /\ KeepCycle
           /\ UNCHANGED <<schedulerVars, edits>>
  <2>1. /\ AfterRelabel(change[k]) \in {"closing", "notifying"}
        /\ AfterRelabel(change[k]) = "closing" <=> change[k].closing
    BY <1>1, AfterwardsPlace
  <2>2. AfterRelabel(change[k]) \in CyclePlaces \ {"none"}
    BY <2>1 DEF CyclePlaces, Writing
  <2>3. /\ CycleTypeOK'
        /\ StepBesides(k)
        /\ MarksStay
        /\ cycle_pc'[k] = AfterRelabel(change[k])
        /\ issue'[i] = relabelled
        /\ disturbed'[k] = disturbed[k]
    BY <1>1, <1>3, <1>4, <2>2, WriteKeeps
  <2>4. HoldsWhatItNeeds(k)'
    BY <1>0, <1>1, <1>4, <2>1, <2>3 DEF CycleSound, HoldsWhatItNeeds, KeepCycle, Writing
  <2>5. KnowsWhoseItIs(k)' /\ SeesItAsItIs(k)'
    BY <1>0, <1>1, <1>3, <1>4, <2>3, NothingObserved
       DEF CycleSound, KnowsWhoseItIs, SeesItAsItIs, KeepCycle
  <2>6. UpdateIsOnItsWay(k)'
    <3>1. ASSUME Undisturbed(k)
          PROVE  /\ IsReiliWork(issue[i])
                 /\ objective[k] \in issue[i].objectives
                 /\ change[k].closing = (change[k].status = "Resolved" /\ issue[i].created_by_reili)
      BY <1>0, <1>1, <3>1 DEF CycleSound, UpdateIsOnItsWay, Writing
    <3>2. change'[k] = change[k] /\ objective'[k] = objective[k]
      BY <1>4 DEF KeepCycle
    <3>3. QED
      BY <1>1, <1>3, <2>1, <2>3, <3>1, <3>2
         DEF UpdateIsOnItsWay, Undisturbed, IsReiliWork, Writing, Change, needs
  <2>7. QED
    BY <2>3, <2>4, <2>5, <2>6 DEF KeepsInv, CycleSound
<1>5. CASE WriteFails(k, "relabelling", i, relabelled)
  BY <1>1, <1>3, <1>5, WriteFailsKeepsInv
<1>6. QED
  BY <1>4, <1>5 DEF SetNeedsDecision, relabelled, needs

LEMMA CloseWorkItemKeepsInv ==
    ASSUME CycleInv, NEW k \in Cycle, CloseWorkItem(k)
    PROVE  KeepsInv(k)
<1> DEFINE i == change[k].item
           closed == ClosedAsDone(i)
<1>0. CycleTypeOK /\ TrackerTypeOK /\ CycleSound(k) /\ cycle_pc[k] = "closing"
  BY DEF CycleInv, CycleTypeOK, CloseWorkItem, Goto, WriteFails
<1>1. /\ change[k].kind = "update"
      /\ change[k] \in Change
      /\ i \in Item
      /\ observed[k] = Nothing
      /\ unlinked[k] = {}
      /\ objective[k] \in Objective
  BY <1>0, WritingHolds DEF Writing
<1>2. /\ closed \in Issue
      /\ closed.state = "Done"
      /\ closed.needs_decision = issue[i].needs_decision
      /\ closed.created_by_reili = issue[i].created_by_reili
  BY <1>0, <1>1, ClosedAsDoneFields
<1> HIDE DEF closed
<1>3. CASE /\ Goto(k, "closing", "notifying")
           /\ WriteIssue(k, i, closed)
           /\ KeepCycle
           /\ UNCHANGED <<schedulerVars, edits>>
  <2>1. "notifying" \in CyclePlaces \ {"none"}
    BY DEF CyclePlaces
  <2>2. /\ CycleTypeOK'
        /\ StepBesides(k)
        /\ MarksStay
        /\ cycle_pc'[k] = "notifying"
        /\ issue'[i] = closed
        /\ disturbed'[k] = disturbed[k]
    BY <1>1, <1>2, <1>3, <2>1, WriteKeeps
  <2>3. HoldsWhatItNeeds(k)'
    BY <1>0, <1>1, <1>3, <2>2 DEF CycleSound, HoldsWhatItNeeds, KeepCycle, Writing
  <2>4. KnowsWhoseItIs(k)' /\ SeesItAsItIs(k)'
    BY <1>0, <1>1, <1>2, <1>3, <2>2, NothingObserved
       DEF CycleSound, KnowsWhoseItIs, SeesItAsItIs, KeepCycle
  <2>5. UpdateIsOnItsWay(k)'
    <3>1. change[k].closing
      BY <1>0 DEF CycleSound, HoldsWhatItNeeds
    <3>2. QED
      BY <1>0, <1>1, <1>2, <1>3, <2>2, <3>1
         DEF CycleSound, UpdateIsOnItsWay, Undisturbed, KeepCycle, Writing
  <2>6. QED
    BY <2>2, <2>3, <2>4, <2>5 DEF KeepsInv, CycleSound
<1>4. CASE WriteFails(k, "closing", i, closed)
  BY <1>1, <1>2, <1>4, WriteFailsKeepsInv
<1>5. QED
  BY <1>3, <1>4 DEF CloseWorkItem, closed

LEMMA CreateWorkItemKeepsInv ==
    ASSUME CycleInv, NEW k \in Cycle, CreateWorkItem(k)
    PROVE  KeepsInv(k)
<1> DEFINE needs == change[k].status = "NeedsDecision"
           created == NewWorkItem(objective[k], needs)
<1>0. CycleTypeOK /\ TrackerTypeOK /\ CycleSound(k) /\ cycle_pc[k] = "creating"
  BY DEF CycleInv, CycleTypeOK, CreateWorkItem, Goto, WriteFails
<1>1. /\ change[k].kind = "create"
      /\ observed[k] = Nothing
      /\ unlinked[k] = {}
      /\ objective[k] \in Objective
  BY <1>0 DEF CycleSound, HoldsWhatItNeeds, CycleTypeOK
<1>2. created \in Issue
  BY <1>1 DEF NewWorkItem, Issue, WorkItemState
<1> HIDE DEF created
<1>3. ASSUME NEW i \in Item, issue[i].state = "absent",
             Goto(k, "creating", "notifying"), WriteIssue(k, i, created), KeepCycle,
             UNCHANGED <<schedulerVars, edits>>
      PROVE  KeepsInv(k)
  <2>1. "notifying" \in CyclePlaces \ {"none"}
    BY DEF CyclePlaces
  <2>2. /\ CycleTypeOK'
        /\ StepBesides(k)
        /\ MarksStay
        /\ cycle_pc'[k] = "notifying"
    BY <1>2, <1>3, <2>1, WriteKeeps
  <2>3. HoldsWhatItNeeds(k)'
    BY <1>0, <1>1, <1>3, <2>2 DEF CycleSound, HoldsWhatItNeeds, KeepCycle, Writing
  <2>4. KnowsWhoseItIs(k)' /\ SeesItAsItIs(k)' /\ UpdateIsOnItsWay(k)'
    BY <1>1, <1>3, <2>2, NothingObserved
       DEF KnowsWhoseItIs, SeesItAsItIs, UpdateIsOnItsWay, KeepCycle
  <2>5. QED
    BY <2>2, <2>3, <2>4 DEF KeepsInv, CycleSound
<1>4. ASSUME NEW i \in Item, issue[i].state = "absent", WriteFails(k, "creating", i, created)
      PROVE  KeepsInv(k)
  BY <1>2, <1>4, WriteFailsKeepsInv
<1>5. CASE /\ cycle_pc[k] = "creating"
           /\ EndCycle(k, "Error")
           /\ UNCHANGED <<schedulerVars, trackerVars>>
  BY <1>5, EndKeepsInv DEF Outcomes
<1>6. QED
  BY <1>3, <1>4, <1>5 DEF CreateWorkItem, created, needs

(***************************************************************************)
(* The scheduler, the process and the team.                                *)
(***************************************************************************)

LEMMA StartCycleKeepsInv ==
    ASSUME CycleInv, NEW o \in Objective, NEW k \in Cycle, StartCycle(o, k)
    PROVE  CycleInv'
<1> USE DEF StartCycle
<1>0. CycleTypeOK /\ CycleSound(k) /\ o # None
  BY CycleAssumption DEF CycleInv
<1>1. /\ cycle_pc[k] = "none"
      /\ cycle_pc'[k] \in {"listUnlinked", "listOpen"}
      /\ objective'[k] = o
      /\ cycle_pc' \in [Cycle -> CyclePlaces]
      /\ \A c \in Cycle \ {k} : cycle_pc'[c] = cycle_pc[c] /\ objective'[c] = objective[c]
  BY <1>0 DEF CycleTypeOK, CyclePlaces, Listing
<1>2. CycleTypeOK'
  BY <1>0, <1>1 DEF CycleTypeOK, TrackerTypeOK, trackerVars
<1>3. StepBesides(k)
  BY <1>1, NoChangeIsTold DEF StepBesides, Bystanding, trackerVars
<1>4. observed[k] = Nothing /\ change[k] = NoChange /\ unlinked[k] = {}
  BY <1>0, <1>1 DEF CycleSound, HoldsWhatItNeeds, Writing
<1>5. HoldsWhatItNeeds(k)'
  BY <1>0, <1>1, <1>4 DEF HoldsWhatItNeeds, Writing, NoChange
<1>6. KnowsWhoseItIs(k)' /\ SeesItAsItIs(k)' /\ UpdateIsOnItsWay(k)'
  BY <1>4, NothingObserved DEF KnowsWhoseItIs, SeesItAsItIs, UpdateIsOnItsWay, NoChange
<1>7. OneCyclePerObjective'
  <2>1. Active' = Active \cup {k} /\ k \notin Active /\ Active \subseteq Cycle
    BY <1>1 DEF Active
  <2>2. \A c \in Active : objective'[c] = objective[c] /\ objective[c] \in running /\ objective[c] # o
    BY <1>1, <2>1 DEF CycleInv, OneCyclePerObjective
  <2>3. running' = {objective'[c] : c \in Active'}
    BY <1>1, <2>1, <2>2 DEF CycleInv, OneCyclePerObjective
  <2>4. \A b, c \in Active' : objective'[b] = objective'[c] => b = c
    BY <1>1, <2>1, <2>2 DEF CycleInv, OneCyclePerObjective
  <2>5. QED
    BY <2>3, <2>4 DEF OneCyclePerObjective
<1>8. QED
  BY <1>2, <1>3, <1>5, <1>6, <1>7, StepKeepsInv DEF CycleSound

LEMMA ReleaseMarkKeepsInv ==
    ASSUME CycleInv, NEW k \in Cycle, ReleaseMark(k)
    PROVE  CycleInv'
<1> USE DEF ReleaseMark
<1>0. CycleTypeOK /\ CycleSound(k)
  BY DEF CycleInv
<1>1. /\ cycle_pc[k] = "ended"
      /\ cycle_pc'[k] = "none"
      /\ objective'[k] = None
      /\ cycle_pc' \in [Cycle -> CyclePlaces]
      /\ \A c \in Cycle \ {k} : cycle_pc'[c] = cycle_pc[c] /\ objective'[c] = objective[c]
  BY <1>0 DEF CycleTypeOK, CyclePlaces
<1>2. CycleTypeOK'
  BY <1>0, <1>1 DEF CycleTypeOK, TrackerTypeOK, trackerVars, Outcomes
<1>3. StepBesides(k)
  BY <1>1, NoChangeIsTold DEF StepBesides, Bystanding, trackerVars
<1>4. observed[k] = Nothing /\ change[k] = NoChange /\ unlinked[k] = {}
  BY <1>0, <1>1 DEF CycleSound, HoldsWhatItNeeds, Writing
<1>5. HoldsWhatItNeeds(k)'
  BY <1>0, <1>1, <1>4 DEF HoldsWhatItNeeds, Writing, NoChange
<1>6. KnowsWhoseItIs(k)' /\ SeesItAsItIs(k)' /\ UpdateIsOnItsWay(k)'
  BY <1>4, NothingObserved DEF KnowsWhoseItIs, SeesItAsItIs, UpdateIsOnItsWay, NoChange
<1>7. OneCyclePerObjective'
  <2>1. Active' = Active \ {k} /\ k \in Active
    BY <1>1 DEF Active
  <2>2. \A c \in Active' : c \in Active /\ objective'[c] = objective[c] /\ objective[c] # objective[k]
    BY <1>1, <2>1 DEF CycleInv, OneCyclePerObjective, Active
  <2>3. running' = {objective'[c] : c \in Active'}
    BY <2>1, <2>2 DEF CycleInv, OneCyclePerObjective
  <2>4. \A b, c \in Active' : objective'[b] = objective'[c] => b = c
    BY <2>2 DEF CycleInv, OneCyclePerObjective
  <2>5. QED
    BY <2>3, <2>4 DEF OneCyclePerObjective
<1>8. QED
  BY <1>2, <1>3, <1>5, <1>6, <1>7, StepKeepsInv DEF CycleSound

LEMMA CycleStepKeepsInv ==
    ASSUME CycleInv, NEW k \in Cycle, CycleStep(k)
    PROVE  CycleInv'
<1>1. ASSUME KeepsInv(k) PROVE CycleInv'
  BY <1>1, MarksStayRight, StepKeepsInv DEF KeepsInv, CycleInv
<1>2. CASE ListUnlinked(k)
  BY <1>1, <1>2, ListUnlinkedKeepsInv
<1>3. CASE \E i \in Item : LinkOne(k, i)
  BY <1>1, <1>3, LinkOneKeepsInv
<1>4. CASE LinkedAll(k)
  BY <1>1, <1>4, LinkedAllKeepsInv
<1>5. CASE ListOpen(k)
  BY <1>1, <1>5, ListOpenKeepsInv
<1>6. CASE ListClosed(k)
  BY <1>1, <1>6, ListClosedKeepsInv
<1>7. CASE DeadlinePasses(k) \/ ShutdownSeen(k)
  BY <1>1, <1>7, CancelRunKeepsInv DEF DeadlinePasses, ShutdownSeen
<1>8. CASE GraceEnds(k) \/ Notify(k) \/ Panics(k)
  BY <1>1, <1>8, EndingKeepsInv
<1>9. CASE AddComment(k)
  BY <1>1, <1>9, AddCommentKeepsInv
<1>10. CASE SetNeedsDecision(k)
  BY <1>1, <1>10, SetNeedsDecisionKeepsInv
<1>11. CASE CloseWorkItem(k)
  BY <1>1, <1>11, CloseWorkItemKeepsInv
<1>12. CASE CreateWorkItem(k)
  BY <1>1, <1>12, CreateWorkItemKeepsInv
<1>13. CASE ReleaseMark(k)
  BY <1>13, ReleaseMarkKeepsInv
<1>14. CASE SubmitReport(k)
  BY <1>1, <1>14, SubmitReportKeepsInv
<1>15. CASE AgentFinishes(k)
  BY <1>1, <1>15, AgentFinishesKeepsInv
<1>16. QED
  BY <1>2, <1>3, <1>4, <1>5, <1>6, <1>7, <1>8, <1>9, <1>10, <1>11, <1>12, <1>13,
     <1>14, <1>15 DEF CycleStep, CycleProgress

(* A step of the scheduler that starts no cycle concerns no cycle.             *)
LEMMA SchedulerKeepsInv ==
    ASSUME CycleInv,
           Start \/ Stop \/ Tick \/ \E o \in Objective : SlotPasses(o) \/ SkipCycle(o)
    PROVE  CycleInv'
<1>1. /\ UNCHANGED <<running, trackerVars, cycleVars>>
      /\ CycleTypeOK'
  BY DEF CycleInv, CycleTypeOK, TrackerTypeOK, Start, Stop, Tick, SlotPasses, SkipCycle,
         trackerVars, cycleVars
<1>2. MarksStay /\ StepBesides(None)
  BY <1>1, NoChangeIsTold DEF MarksStay, StepBesides, Bystanding, trackerVars, cycleVars
<1>3. QED
  BY <1>1, <1>2, CycleAssumption, MarksStayRight, StepKeepsInv DEF CycleInv

(* With the process every cycle is gone.                                     *)
LEMMA NoCycleIsSound ==
    ASSUME NEW k \in Cycle, cycle_pc = [c \in Cycle |-> "none"],
           objective = [c \in Cycle |-> None], unlinked = [c \in Cycle |-> {}],
           observed = [c \in Cycle |-> Nothing], change = [c \in Cycle |-> NoChange]
    PROVE  CycleSound(k)
<1>1. /\ cycle_pc[k] = "none"
      /\ objective[k] = None
      /\ unlinked[k] = {}
      /\ observed[k] = Nothing
      /\ change[k] = NoChange
  OBVIOUS
<1>2. HoldsWhatItNeeds(k)
  BY <1>1 DEF HoldsWhatItNeeds, NoChange, Writing
<1>3. KnowsWhoseItIs(k) /\ SeesItAsItIs(k) /\ UpdateIsOnItsWay(k)
  BY <1>1, NothingObserved DEF KnowsWhoseItIs, SeesItAsItIs, UpdateIsOnItsWay, NoChange
<1>4. QED
  BY <1>2, <1>3 DEF CycleSound

LEMMA InitEstablishesInv ==
    ASSUME ObjectiveInit
    PROVE  CycleInv
<1> USE DEF ObjectiveInit
<1>1. CycleTypeOK
  <2>1. Absent \in Issue
    BY DEF Absent, Issue
  <2>2. TrackerTypeOK
    BY <2>1, TrackerAssumption DEF TrackerTypeOK, TrackerInit
  <2>3. QED
    BY <2>2, NothingTyped, NoChangeTyped DEF CycleTypeOK, CyclePlaces, Outcomes
<1>2. OneCyclePerObjective
  BY DEF OneCyclePerObjective, Active
<1>3. QED
  BY <1>1, <1>2, NoCycleIsSound DEF CycleInv

LEMMA ExitKeepsInv ==
    ASSUME CycleInv, Exit
    PROVE  CycleInv'
<1> USE DEF Exit
<1>1. CycleTypeOK'
  BY NothingTyped, NoChangeTyped
     DEF CycleInv, CycleTypeOK, TrackerTypeOK, CyclePlaces, Outcomes, trackerVars
<1>2. OneCyclePerObjective'
  BY DEF OneCyclePerObjective, Active
<1>3. \A k \in Cycle : CycleSound(k)'
  <2>1. ASSUME NEW k \in Cycle PROVE CycleSound(k)'
    <3>1. /\ cycle_pc'[k] = "none"
          /\ objective'[k] = None
          /\ unlinked'[k] = {}
          /\ observed'[k] = Nothing
          /\ change'[k] = NoChange
      OBVIOUS
    <3>2. HoldsWhatItNeeds(k)'
      BY <3>1 DEF HoldsWhatItNeeds, NoChange, Writing
    <3>3. KnowsWhoseItIs(k)' /\ SeesItAsItIs(k)' /\ UpdateIsOnItsWay(k)'
      BY <3>1, NothingObserved DEF KnowsWhoseItIs, SeesItAsItIs, UpdateIsOnItsWay, NoChange
    <3>4. QED
      BY <3>2, <3>3 DEF CycleSound
  <2>2. QED
    BY <2>1
<1>4. QED
  BY <1>1, <1>2, <1>3 DEF CycleInv

LEMMA TeamKeepsIssue ==
    ASSUME TrackerTypeOK, NEW i \in Item, NEW edited \in Issue,
           TeamOpens(i, edited) \/ TeamEdits(i, edited), issue[i].state # "absent"
    PROVE  edited.state # "absent" /\ edited.created_by_reili = issue[i].created_by_reili
<1>1. issue[i] \in Issue
  BY DEF TrackerTypeOK
<1>2. CASE \E s \in WorkItemState : edited = [issue[i] EXCEPT !.state = s]
  BY <1>1, <1>2 DEF Issue, WorkItemState
<1>3. CASE \E b \in BOOLEAN : \/ edited = [issue[i] EXCEPT !.assigned = b]
                              \/ edited = [issue[i] EXCEPT !.needs_decision = b]
  BY <1>1, <1>3 DEF Issue
<1>4. CASE \E o \in Objective : \/ edited = [issue[i] EXCEPT !.objectives = @ \cup {o}]
                                \/ edited = [issue[i] EXCEPT !.objectives = @ \ {o}]
  BY <1>1, <1>4 DEF Issue
<1>5. QED
  BY <1>2, <1>3, <1>4 DEF TeamOpens, TeamEdits

LEMMA TeamEditKeepsInv ==
    ASSUME CycleInv, NEW i \in Item, TeamEdit(i)
    PROVE  CycleInv'
<1> USE DEF TeamEdit
<1>0. CycleTypeOK /\ TrackerTypeOK
  BY DEF CycleInv, CycleTypeOK
<1>1. PICK edited \in Issue :
        /\ TeamOpens(i, edited) \/ TeamEdits(i, edited)
        /\ issue' = [issue EXCEPT ![i] = edited]
  BY DEF TeamStep
<1>2. /\ issue' \in [Item -> Issue]
      /\ IssuesLast
      /\ \A c \in Cycle \ {None} : ToldOfChanges(c)
  BY <1>0, <1>1, TeamKeepsIssue, ChangeIsTold
<1>3. StepBesides(None) /\ MarksStay
  BY <1>2 DEF StepBesides, Bystanding, MarksStay, schedulerVars
<1>4. CycleTypeOK'
  <2>1. edits' \in 0..MaxEdits
    BY <1>0, TrackerAssumption DEF TeamStep, TrackerTypeOK
  <2>2. disturbed' \in [Cycle -> SUBSET Item]
    BY <1>0, DisturbTyped
  <2>3. QED
    BY <1>0, <1>2, <2>1, <2>2 DEF CycleTypeOK, TrackerTypeOK, schedulerVars
<1>5. QED
  BY <1>3, <1>4, CycleAssumption, MarksStayRight, StepKeepsInv DEF CycleInv

LEMMA NextKeepsInv ==
    ASSUME CycleInv, [ObjectiveNext]_objectiveVars
    PROVE  CycleInv'
<1>1. CASE Exit
  BY <1>1, ExitKeepsInv
<1>2. CASE \E o \in Objective, k \in Cycle : StartCycle(o, k)
  BY <1>2, StartCycleKeepsInv
<1>3. CASE Start \/ Stop \/ Tick \/ \E o \in Objective : SlotPasses(o) \/ SkipCycle(o)
  BY <1>3, SchedulerKeepsInv
<1>4. CASE \E k \in Cycle : CycleStep(k)
  BY <1>4, CycleStepKeepsInv
<1>5. CASE \E i \in Item : TeamEdit(i)
  BY <1>5, TeamEditKeepsInv
<1>6. CASE UNCHANGED objectiveVars
  <2>1. UNCHANGED <<schedulerVars, trackerVars, cycleVars>>
    BY <1>6 DEF objectiveVars
  <2>2. CycleTypeOK'
    BY <2>1 DEF CycleInv, CycleTypeOK, TrackerTypeOK, schedulerVars, trackerVars, cycleVars
  <2>3. MarksStay /\ StepBesides(None)
    BY <2>1, NoChangeIsTold
       DEF MarksStay, StepBesides, Bystanding, schedulerVars, trackerVars, cycleVars
  <2>4. QED
    BY <2>2, <2>3, CycleAssumption, MarksStayRight, StepKeepsInv DEF CycleInv
<1>7. QED
  BY <1>1, <1>2, <1>3, <1>4, <1>5, <1>6 DEF ObjectiveNext, LookAt

LEMMA Inv == ObjectiveSpec => []CycleInv
<1>1. ObjectiveInit => CycleInv
  BY InitEstablishesInv
<1>2. CycleInv /\ [ObjectiveNext]_objectiveVars => CycleInv'
  BY NextKeepsInv
<1>3. QED
  BY <1>1, <1>2, PTL DEF ObjectiveSpec

(***************************************************************************)
(* The theorems.                                                           *)
(***************************************************************************)

(* The variables of the scheduler, its cycles and the tracker keep their      *)
(* types, however many objectives and cycles there are.                      *)
THEOREM TypesAreKept == ObjectiveSpec => []CycleTypeOK
<1>1. CycleInv => CycleTypeOK
  BY DEF CycleInv
<1>2. QED
  BY <1>1, Inv, PTL

(* mark_running and RunningGuard: an objective has one cycle at most, and is   *)
(* marked exactly while it has one, however the cycle ends.                   *)
THEOREM MarksAreCycles == ObjectiveSpec => []OneCyclePerObjective
<1>1. CycleInv => OneCyclePerObjective
  BY DEF CycleInv
<1>2. QED
  BY <1>1, Inv, PTL

(* apply.rs writes from what was observed: to an item that nobody else changed *)
(* since then, the writes are to open work of Reili for this objective; and    *)
(* take_unlinked_work links what no objective has.                          *)
THEOREM WritesAreToOwnItems == ObjectiveSpec => []WritesGoToOwnItems
<1>1. ASSUME CycleInv PROVE WritesGoToOwnItems
  <2>1. ASSUME NEW k \in Cycle, cycle_pc[k] \in Writing \ {"creating"}, Undisturbed(k)
        PROVE  /\ IsReiliWork(issue[change[k].item])
               /\ objective[k] \in issue[change[k].item].objectives
    BY <1>1, <2>1 DEF CycleInv, CycleSound, HoldsWhatItNeeds, UpdateIsOnItsWay
  <2>2. ASSUME NEW k \in Cycle, NEW i \in unlinked[k] \ disturbed[k]
        PROVE  i \in UnlinkedReiliWork
    BY <1>1, <2>2 DEF CycleInv, CycleSound, SeesItAsItIs
  <2>3. QED
    BY <2>1, <2>2 DEF WritesGoToOwnItems
<1>2. QED
  BY <1>1, Inv, PTL

(* continue_item: when the update of an item that nobody else changed is done, *)
(* the tracker says of it what the report said.                             *)
THEOREM UpdatesMatchReports == ObjectiveSpec => []UpdateMatchesReport
<1>1. ASSUME CycleInv PROVE UpdateMatchesReport
  BY <1>1 DEF CycleInv, CycleSound, UpdateIsOnItsWay, UpdateMatchesReport
<1>2. QED
  BY <1>1, Inv, PTL

(* A write that fails, or not, to an issue whose state it keeps.             *)
LEMMA StateKept ==
    ASSUME CycleTypeOK, NEW k \in Cycle, NEW j \in Item, NEW written \in Issue,
           written.state = issue[j].state,
           \/ issue' = issue
           \/ issue' = [issue EXCEPT ![j] = written],
           NEW i \in Item
    PROVE  issue'[i].state = issue[i].state
BY DEF CycleTypeOK, TrackerTypeOK

LEMMA WrittenOrNot ==
    ASSUME NEW k, NEW j, NEW written, NEW from,
           WriteFails(k, from, j, written) \/ WriteIssue(k, j, written)
    PROVE  \/ issue' = issue
           \/ issue' = [issue EXCEPT ![j] = written]
BY DEF WriteFails, WriteIssue

(* Only CloseWorkItem closes an issue, and only for an update that is planned  *)
(* with the closing of an issue that Reili opened.                           *)
LEMMA CycleClosesOwn ==
    ASSUME CycleInv, NEW k \in Cycle, CycleStep(k), NEW i \in Item,
           issue[i].state # issue'[i].state, issue'[i].state # "Open"
    PROVE  issue[i].created_by_reili
<1>0. CycleTypeOK /\ TrackerTypeOK /\ CycleSound(k)
  BY DEF CycleInv, CycleTypeOK
<1>1. CASE \E j \in Item : LinkOne(k, j)
  <2>1. PICK j \in Item : LinkOne(k, j)
    BY <1>1
  <2>2. cycle_pc[k] = "linking"
    BY <2>1 DEF LinkOne
  <2>3. objective[k] \in Objective
    BY <1>0, <2>2 DEF CycleSound, HoldsWhatItNeeds, CycleTypeOK
  <2>4. /\ LinkedTo(j, objective[k]) \in Issue
        /\ LinkedTo(j, objective[k]).state = issue[j].state
    BY <1>0, <2>3, LinkedToFields
  <2>5. \/ issue' = issue
        \/ issue' = [issue EXCEPT ![j] = LinkedTo(j, objective[k])]
    BY <2>1, WrittenOrNot DEF LinkOne
  <2>6. QED
    BY <1>0, <2>4, <2>5, StateKept
<1>2. CASE SetNeedsDecision(k)
  <2> DEFINE j == change[k].item
             relabelled == WithNeedsDecision(j, change[k].status = "NeedsDecision")
  <2>1. cycle_pc[k] = "relabelling"
    BY <1>2 DEF SetNeedsDecision, Goto, WriteFails
  <2>2. j \in Item
    BY <2>1, WritingHolds DEF Writing
  <2>3. relabelled \in Issue /\ relabelled.state = issue[j].state
    BY <1>0, <2>2, WithNeedsDecisionFields
  <2>4. \/ issue' = issue
        \/ issue' = [issue EXCEPT ![j] = relabelled]
    <3>1. WriteFails(k, "relabelling", j, relabelled) \/ WriteIssue(k, j, relabelled)
      BY <1>2 DEF SetNeedsDecision
    <3>2. QED
      BY <3>1, WrittenOrNot
  <2>5. QED
    BY <1>0, <2>2, <2>3, <2>4, StateKept
<1>3. CASE CloseWorkItem(k)
  <2> DEFINE j == change[k].item
  <2>1. cycle_pc[k] = "closing"
    BY <1>3 DEF CloseWorkItem, Goto, WriteFails
  <2>2. j \in Item /\ change[k].kind = "update"
    BY <2>1, WritingHolds DEF Writing
  <2>3. issue[j].created_by_reili
    BY <1>0, <2>1, <2>2 DEF CycleSound, HoldsWhatItNeeds, KnowsWhoseItIs
  <2>4. \/ issue' = issue
        \/ issue' = [issue EXCEPT ![j] = ClosedAsDone(j)]
    BY <1>3, WrittenOrNot DEF CloseWorkItem
  <2>5. QED
    BY <1>0, <2>2, <2>3, <2>4 DEF TrackerTypeOK
<1>4. CASE CreateWorkItem(k)
  <2>1. CASE UNCHANGED trackerVars
    BY <2>1 DEF trackerVars
  <2>2. ASSUME NEW j \in Item, NEW created,
               created = NewWorkItem(objective[k], change[k].status = "NeedsDecision"),
               \/ issue' = issue
               \/ issue' = [issue EXCEPT ![j] = created]
        PROVE  issue[i].created_by_reili
    BY <1>0, <2>2 DEF TrackerTypeOK, NewWorkItem
  <2>3. QED
    BY <1>4, <2>1, <2>2, WrittenOrNot DEF CreateWorkItem
<1>5. CASE UNCHANGED trackerVars
  BY <1>5 DEF trackerVars
<1>6. QED
  BY <1>1, <1>2, <1>3, <1>4, <1>5
     DEF CycleStep, CycleProgress, ListUnlinked, LinkedAll, ListOpen, ListClosed,
         DeadlinePasses, ShutdownSeen, CancelRun, GraceEnds, AddComment, Notify,
         ReleaseMark, SubmitReport, AgentFinishes, Panics

(* plan.rs closes an item only when created_by_reili was observed: no step of  *)
(* Reili closes an issue that the team opened, whatever the team does to it in  *)
(* between.                                                                *)
THEOREM TeamItemsAreNotClosed == ObjectiveSpec => OnlyOwnItemsClosed
<1>1. ASSUME CycleInv, ObjectiveNext, NEW i \in Item, edits' = edits,
             issue[i].state # issue'[i].state, issue'[i].state # "Open"
      PROVE  issue[i].created_by_reili
  <2>1. CASE \E k \in Cycle : CycleStep(k)
    BY <1>1, <2>1, CycleClosesOwn
  <2>2. CASE \E j \in Item : TeamEdit(j)
    <3>1. edits' = edits + 1 /\ edits \in Nat
      BY <1>1, <2>2, TrackerAssumption
         DEF TeamEdit, TeamStep, CycleInv, CycleTypeOK, TrackerTypeOK
    <3>2. QED
      BY <1>1, <3>1
  <2>3. CASE issue' = issue
    BY <1>1, <2>3
  <2>4. QED
    BY <1>1, <2>1, <2>2, <2>3
       DEF ObjectiveNext, LookAt, Start, Stop, Exit, Tick, SlotPasses, StartCycle,
           SkipCycle, trackerVars
<1>2. CycleInv /\ [ObjectiveNext]_objectiveVars =>
        [\A i \in Item :
           /\ edits' = edits
           /\ issue[i].state # issue'[i].state
           /\ issue'[i].state # "Open"
           => issue[i].created_by_reili]_objectiveVars
  BY <1>1
<1>3. QED
  BY <1>2, Inv, PTL DEF ObjectiveSpec, OnlyOwnItemsClosed
=============================================================================
