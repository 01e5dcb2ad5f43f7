---------------------------- MODULE CaseRecord ----------------------------
(***************************************************************************)
(* The incident case document of services/api/app/incidents.py and the     *)
(* decisions its handlers take on it.  A case is one item of the store: a  *)
(* version, a lifecycle status, the ticket actions proposed on it, the     *)
(* ticket it finally records, and the CloudWatch evidence.                 *)
(*                                                                         *)
(* For every handler there is a guard May<Handler>(c, ...), the conditions *)
(* under which it does not answer 4xx, and an effect <Handler>(c, ...), the*)
(* document it hands to persist.  The module has no state: IncidentCase    *)
(* runs these decisions on copies of the stored case.                      *)
(*                                                                         *)
(* Abstracted: titles, descriptions, note texts and timestamps; the policy *)
(* decision, which allows ticket creation and incident triage for every    *)
(* role; the SHA-256 fingerprint, whose inputs (operation, target,         *)
(* arguments, requester, policy) no handler rewrites once proposed.        *)
(***************************************************************************)
EXTENDS Integers

CONSTANTS
  Users,         \* identities of the team that owns the case
  Managers,      \* those of them with the role manager or admin
  ActionIds,     \* the act-<uuid> names propose_action draws from
  Targets,       \* Jira projects the API instances are configured with
  QueryOutcomes, \* what CloudWatch can answer: a subset of AllQueryOutcomes
  Capacity,      \* timeline events that fit under the 280 000 byte bound
  None           \* no user, no action, no target

AllQueryOutcomes == {"events", "noEvents", "unavailable"}

ASSUME ConstantsAssumption ==
  /\ Managers \subseteq Users
  /\ None \notin Users \cup ActionIds \cup Targets
  /\ QueryOutcomes \subseteq AllQueryOutcomes
  /\ Capacity \in Nat \ {0}

Statuses == {"open", "investigating", "awaiting_approval", "mitigating", "resolved"}

\* Action states that block resolution, and the three ways out of them.
Undispatched == {"proposed", "pending_approval", "approved"}
Dispatched   == {"executing", "outcome_uncertain"}
Unresolved   == Undispatched \cup Dispatched
States       == {"absent", "failed", "succeeded"} \cup Unresolved

Actions == [state     : States,
            requester : Users \cup {None},
            target    : Targets \cup {None},
            approver  : Users \cup {None}]

Cases == [version       : Nat,
          status        : Statuses,
          actions       : [ActionIds -> Actions],
          ticket        : ActionIds \cup {None},
          evidence      : {"none", "events", "noEvents"},
          evidenceState : {"empty", "unavailable", "stale", "success"}]

NoAction == [state |-> "absent", requester |-> None, target |-> None, approver |-> None]

\* The dictionary create_case builds; version 0 means "not stored yet".
NewCase == [version       |-> 0,
            status        |-> "open",
            actions       |-> [a \in ActionIds |-> NoAction],
            ticket        |-> None,
            evidence      |-> "none",
            evidenceState |-> "empty"]

---------------------------------------------------------------------------

\* persist: every mutation bumps the version and appends one timeline event.
Stamped(c) == [c EXCEPT !.version = @ + 1]

InState(c, a, states) == c.actions[a].state \in states

IsRequesterOrManager(c, a, u) == u = c.actions[a].requester \/ u \in Managers

\* The two ways handlers change an action that exists: to another state, with
\* the status that state gives the case, or to success, with its ticket.
Move(c, a, state, status) ==
  Stamped([c EXCEPT !.actions[a].state = state, !.status = status])

Succeed(c, a) ==
  Stamped([c EXCEPT !.actions[a].state = "succeeded", !.status = "mitigating", !.ticket = a])

\* create_case
Create == Stamped(NewCase)

\* update_case: the transition table, and the check before resolution.
\* Fault for the checks: a case could leave awaiting_approval by hand.
TransitionsUnlocked ==
  [open              |-> {"investigating"},
   investigating     |-> {"resolved"},
   awaiting_approval |-> {"investigating"},
   mitigating        |-> {"investigating", "resolved"},
   resolved          |-> {"investigating"}]

Transitions ==
  [open              |-> {"investigating"},
   investigating     |-> {"resolved"},
   awaiting_approval |-> {},
   mitigating        |-> {"investigating", "resolved"},
   resolved          |-> {"investigating"}]

\* Fault for the checks: an uncertain outcome no longer blocks resolution.
MayUpdateIgnoringUncertain(c, status) ==
  /\ status \in Transitions[c.status]
  /\ status = "resolved" =>
       \A a \in ActionIds : ~ InState(c, a, Undispatched \cup {"executing"})

MayUpdate(c, status) ==
  /\ status \in Transitions[c.status]
  /\ status = "resolved" => \A a \in ActionIds : ~ InState(c, a, Unresolved)

Update(c, status) == Stamped([c EXCEPT !.status = status])

\* add_note: the note list itself is not modelled, its write is.
AddNote(c) == Stamped(c)

\* refresh_evidence: a failed query keeps what was collected before.
\* Fault for the checks: every failed query is called stale.
RefreshEvidenceAlwaysStale(c, outcome) ==
  Stamped(IF outcome = "unavailable"
          THEN [c EXCEPT !.evidenceState = "stale"]
          ELSE [c EXCEPT !.evidence = outcome,
                         !.evidenceState =
                           IF outcome = "events" THEN "success" ELSE "empty"])

RefreshEvidence(c, outcome) ==
  Stamped(IF outcome = "unavailable"
          THEN [c EXCEPT !.evidenceState =
                           IF c.evidence = "none" THEN "unavailable" ELSE "stale"]
          ELSE [c EXCEPT !.evidence = outcome,
                         !.evidenceState =
                           IF outcome = "events" THEN "success" ELSE "empty"])

---------------------------------------------------------------------------

\* propose_action: every earlier action must have failed, or be a pending
\* approval that ran out.
\* Fault for the checks: a finished action does not stop another one.
MayProposeAfterSuccess(c, a, expired) ==
  /\ c.status \in {"open", "investigating"}
  /\ InState(c, a, {"absent"})
  /\ \A b \in ActionIds : InState(c, b, {"absent", "failed", "succeeded"})

MayPropose(c, a, expired) ==
  /\ c.status \in {"open", "investigating"}
  /\ InState(c, a, {"absent"})
  /\ \A b \in ActionIds :
        \/ InState(c, b, {"absent", "failed"})
        \/ InState(c, b, {"pending_approval"}) /\ b \in expired

Propose(c, a, u, target) ==
  Stamped([c EXCEPT !.actions[a] = [state |-> "proposed", requester |-> u,
                                    target |-> target, approver |-> None],
                    !.status = "investigating"])

\* request_approval
MayRequestApproval(c, a, u, expired) ==
  /\ InState(c, a, {"proposed"})
  /\ IsRequesterOrManager(c, a, u)
  /\ a \notin expired

RequestApproval(c, a) == Move(c, a, "pending_approval", "awaiting_approval")

\* approve_action: a manager other than the requester.
\* Fault for the checks: any manager approves, the requester included.
MayApproveOwn(c, a, u, expired) ==
  /\ u \in Managers
  /\ InState(c, a, {"pending_approval"})
  /\ a \notin expired

MayApprove(c, a, u, expired) ==
  /\ u \in Managers
  /\ u # c.actions[a].requester
  /\ InState(c, a, {"pending_approval"})
  /\ a \notin expired

Approve(c, a, u) ==
  Stamped([c EXCEPT !.actions[a].state = "approved",
                    !.actions[a].approver = u])

\* cancel_action: recorded as a failure; the case returns to investigation.
\* Fault for the checks: the state of the action is not looked at.
MayCancelAny(c, a, u) ==
  /\ ~ InState(c, a, {"absent"})
  /\ IsRequesterOrManager(c, a, u)

MayCancel(c, a, u) ==
  /\ InState(c, a, Undispatched)
  /\ IsRequesterOrManager(c, a, u)

\* Fault for the checks: cancelling leaves the case waiting.
CancelKeepingStatus(c, a) == Move(c, a, "failed", c.status)

Cancel(c, a) == Move(c, a, "failed", "investigating")

\* execute_action up to its first persist: the dispatch claim.
\* Fault for the checks: an approval does not run out.
MayExecuteLate(c, a, u, target, expired) ==
  /\ IsRequesterOrManager(c, a, u)
  /\ InState(c, a, {"approved"})
  /\ c.actions[a].target = target

MayExecute(c, a, u, target, expired) ==
  /\ IsRequesterOrManager(c, a, u)
  /\ InState(c, a, {"approved"})
  /\ a \notin expired
  /\ c.actions[a].target = target

Claim(c, a) == Move(c, a, "executing", "mitigating")

\* execute_action after the Jira call: what each classification of the
\* adapter's answer does to the claimed case.
Outcomes == {"confirmed", "rejected", "uncertain"}

RecordOutcome(c, a, outcome) ==
  CASE outcome = "confirmed" -> Succeed(c, a)
    [] outcome = "rejected"  -> Move(c, a, "failed", "investigating")
    [] outcome = "uncertain" -> Move(c, a, "outcome_uncertain", c.status)

\* reconcile_action: a manager, an action whose outcome is open, and the
\* project this instance talks to.
MayReconcile(c, a, u, target) ==
  /\ u \in Managers
  /\ InState(c, a, Dispatched)
  /\ c.actions[a].target = target

Reconcile(c, a) == Succeed(c, a)

===========================================================================
