---------------------------- MODULE GitHubIssues ----------------------------
(***************************************************************************)
(* The requests behind the tracker (outbound/github/work_state/              *)
(* repository.rs): how issues and comments are read and listed page by page,  *)
(* which labels are made first, which records may be touched and how a        *)
(* request fails.  WorkTracker has their effect on an issue; a listing there   *)
(* is one look, here one per page, and the tracker moves on in between.        *)
(***************************************************************************)
EXTENDS Integers, SequencesExt, FiniteSetsExt

CONSTANTS None,
          PER_PAGE, MAX_PAGES,
          AppId,                 \* Reili's GitHub app
          Prefix                 \* the address of the repository's issues

TRUSTED_ASSOCIATIONS == {"OWNER", "MEMBER", "COLLABORATOR"}
ASSIGNEE_LABEL == "reili:assignee"
NEEDS_DECISION_LABEL == "reili:needs-decision"
ObjectiveLabel(o) == <<"reili-objective:", o>>

(***************************************************************************)
(* Requests.                                                               *)
(***************************************************************************)

(* map_status_error: a rate limit is read off the text of a 403. *)
RateLimited(response) == response.status = 429 \/ (response.status = 403 /\ response.rate_limited)

StatusError(response) ==
    CASE response.status >= 500 \/ RateLimited(response) -> "Unavailable"
      [] response.status = 403 /\ ~RateLimited(response) -> "Forbidden"
      [] OTHER -> "Other"

IsSuccess(response) == response.status \in 200..299

(* request: what goes wrong before there is a status, or None. *)
Unanswered(response) ==
    CASE response.token \in {"connection_failed", "server_error"} -> "Unavailable"
      [] response.token = "refused" -> "Other"
      [] response.token = "ok" /\ ~response.received -> "Unavailable"
      [] OTHER -> None

(* request_json: the failure of a request, None when its answer is read.       *)
Failure(response) ==
    IF Unanswered(response) # None THEN Unanswered(response)
    ELSE IF ~IsSuccess(response) THEN StatusError(response)
    ELSE IF response.readable THEN None ELSE "Other"

(* Requests that take a status for success: a label that exists already (422)  *)
(* is made, and one that is not there (404) is removed.                      *)
FailureBut(response, accepted) ==
    IF Unanswered(response) # None THEN Unanswered(response)
    ELSE IF IsSuccess(response) \/ response.status = accepted THEN None
    ELSE StatusError(response)

LabelFailure(response) == FailureBut(response, 422)
RemovalFailure(response) == FailureBut(response, 404)

(* guard: the number of a record, None for one of another repository or one    *)
(* whose address tells another number.                                     *)
Guard(record) ==
    IF record.number # None /\ record.url.prefix = Prefix /\ record.url.number = record.number
    THEN record.number ELSE None

(* ensure_labels, of the labels in their order: those made before one fails     *)
(* stay known.                                                             *)
EnsureLabels(known, labels, responses) ==
    LET Make(acc, label) ==
            IF acc.failure # None \/ label \in known THEN acc
            ELSE IF LabelFailure(responses[label]) # None
                 THEN [acc EXCEPT !.failure = LabelFailure(responses[label]), !.requested = @ \cup {label}]
                 ELSE [acc EXCEPT !.known = @ \cup {label}, !.requested = @ \cup {label}]
    IN  FoldLeft(Make, [known |-> known, failure |-> None, requested |-> {}], labels)

(* create_work_item: the labels of a new issue. *)
NewLabels(o, needs_decision) ==
    <<ObjectiveLabel(o), <<ASSIGNEE_LABEL>>>>
    \o (IF needs_decision THEN <<<<NEEDS_DECISION_LABEL>>>> ELSE << >>)

(***************************************************************************)
(* Issues and comments.                                                    *)
(***************************************************************************)

PerformedBy(app) == app = AppId

WorkState(api) ==
    CASE api.state = "open" -> "Open"
      [] api.state # "open" /\ api.state_reason \in {"not_planned", "duplicate"} -> "NotPlanned"
      [] OTHER -> "Done"

HasObjectiveLabel(api) == \E label \in api.labels : Head(label) = "reili-objective:"

ToWorkItem(api) ==
    [state |-> WorkState(api), assigned |-> <<ASSIGNEE_LABEL>> \in api.labels,
     needs_decision |-> <<NEEDS_DECISION_LABEL>> \in api.labels,
     created_by_reili |-> PerformedBy(api.app)]

(* A comment is Reili's own by the app it was made through, and the team's by   *)
(* its author, never a bot.                                                *)
Comment(api) ==
    LET by_reili == PerformedBy(api.app)
    IN  [by_reili |-> by_reili,
         author_trusted |-> by_reili \/ (api.kind # "Bot" /\ api.association \in TRUSTED_ASSOCIATIONS)]

(* Page n of a list, as it is when the page is asked for. *)
PageOf(list, n) ==
    SubSeq(list, (n - 1) * PER_PAGE + 1, IF n * PER_PAGE < Len(list) THEN n * PER_PAGE ELSE Len(list))

(* list_issues and list_comments: lists[n] is the whole list at the time of     *)
(* page n.  A page that is not full is the last, and so is the MAX_PAGES-th.     *)
Listed(lists) ==
    LET last == Min({MAX_PAGES} \cup {n \in 1..MAX_PAGES : Len(PageOf(lists[n], n)) < PER_PAGE})
    IN  FlattenSeq([n \in 1..last |-> PageOf(lists[n], n)])

ListIssues(lists) == SelectSeq(Listed(lists), LAMBDA api : ~api.pull_request)

ListComments(lists) == LET read == Listed(lists) IN [i \in DOMAIN read |-> Comment(read[i])]

(* list_work_items: the open issues, then those closed of late; the one that     *)
(* was closed in between is in both, and taken for open.                      *)
ListWorkItems(open, closed, closed_since) ==
    LET recently == {i \in DOMAIN closed : closed[i].closed_at # None /\ closed[i].closed_at >= closed_since}
        openNumbers == {open[i].number : i \in DOMAIN open}
    IN  {[number |-> open[i].number, item |-> ToWorkItem(open[i])] : i \in DOMAIN open} \cup
        {[number |-> closed[i].number, item |-> ToWorkItem(closed[i])] :
           i \in {j \in recently : closed[j].number \notin openNumbers}}

(* list_unlinked_reili_work: of the open issues assigned to Reili. *)
UnlinkedWork(assigned) == SelectSeq(assigned, LAMBDA api : ~HasObjectiveLabel(api))
=============================================================================
