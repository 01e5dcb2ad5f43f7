-------------------------- MODULE GovernedTicket --------------------------
(***************************************************************************)
(* What ADR-012 promises of an incident case, said without requests,       *)
(* versions or retries: a ticket action is proposed, approved by somebody  *)
(* else, claimed for dispatch, and then Jira holds at most one issue for   *)
(* the whole case.  An action is declared failed only when its issue does  *)
(* not and will not exist, and succeeded only when it does.  The case is   *)
(* resolved only with no action left open.                                 *)
(*                                                                         *)
(* The module says what may become true of the stored case and of Jira,    *)
(* one atomic step at a time.  IncidentCase implements it: see Promise.    *)
(***************************************************************************)
CONSTANTS Users, Managers, ActionIds, Targets, None

VARIABLES
  status,   \* lifecycle status of the case
  actions,  \* per action: its state, requester, target and approver
  issues    \* <<action, target>> pairs Jira holds

vars == <<status, actions, issues>>

Undispatched == {"proposed", "pending_approval", "approved"}
Dispatched   == {"executing", "outcome_uncertain"}

Holds(a) == <<a, actions[a].target>> \in issues

Init ==
  /\ status = "open"
  /\ actions = [a \in ActionIds |-> [state |-> "absent", requester |-> None,
                                     target |-> None, approver |-> None]]
  /\ issues = {}

\* The action a moves from one of the states `from' to the state `to', and
\* the case to the status s.
Moves(a, from, to, s) ==
  /\ actions[a].state \in from
  /\ actions' = [actions EXCEPT ![a].state = to]
  /\ status' = s
  /\ UNCHANGED issues

Propose(a) ==
  /\ \A b \in ActionIds : actions[b].state \in {"absent", "failed"}
  /\ actions[a].state = "absent"
  /\ \E u \in Users, t \in Targets :
       actions' = [actions EXCEPT ![a] = [state |-> "proposed", requester |-> u,
                                          target |-> t, approver |-> None]]
  /\ status' = "investigating"
  /\ UNCHANGED issues

RequestApproval(a) == Moves(a, {"proposed"}, "pending_approval", "awaiting_approval")

Approve(a) ==
  /\ actions[a].state = "pending_approval"
  /\ \E u \in Managers \ {actions[a].requester} :
       actions' = [actions EXCEPT ![a].state = "approved", ![a].approver = u]
  /\ UNCHANGED <<status, issues>>

Cancel(a) == Moves(a, Undispatched, "failed", "investigating")

Claim(a) == Moves(a, {"approved"}, "executing", "mitigating")

\* The dispatched call takes effect in Jira: at most once for the case.
IssueCreated(a) ==
  /\ actions[a].state \in Dispatched
  /\ issues = {}
  /\ issues' = {<<a, actions[a].target>>}
  /\ UNCHANGED <<status, actions>>

\* Confirmed by the answer or by reconciliation.
Succeed(a) == Holds(a) /\ Moves(a, Dispatched, "succeeded", "mitigating")

Reject(a) == ~ Holds(a) /\ Moves(a, {"executing"}, "failed", "investigating")

LeaveUncertain(a) ==
  /\ actions[a].state = "executing"
  /\ actions' = [actions EXCEPT ![a].state = "outcome_uncertain"]
  /\ UNCHANGED <<status, issues>>

\* Operators move the case; never away from a pending approval, and to
\* resolved only when nothing is open.
MoveCase(s) ==
  /\ status # "awaiting_approval"
  /\ s \in {"investigating", "resolved"}
  /\ s = "resolved" => \A a \in ActionIds : actions[a].state \notin Undispatched \cup Dispatched
  /\ status' = s
  /\ UNCHANGED <<actions, issues>>

Next ==
  \/ \E a \in ActionIds :
       \/ Propose(a) \/ RequestApproval(a) \/ Approve(a) \/ Cancel(a) \/ Claim(a)
       \/ IssueCreated(a) \/ Succeed(a) \/ Reject(a) \/ LeaveUncertain(a)
  \/ \E s \in {"investigating", "resolved"} : MoveCase(s)

Spec == Init /\ [][Next]_vars

===========================================================================
