------------------------- MODULE IncidentCaseProofs -------------------------
(***************************************************************************)
(* IncidentCase keeps its properties for every number of users, actions,   *)
(* targets and concurrent requests, and every capacity.  In this order:    *)
(* what each decision of CaseRecord does to a well-formed case, field by   *)
(* field; what it does to a consistent one; one lemma per action of        *)
(* IncidentCase, that it keeps IInv; and the theorems.                     *)
(***************************************************************************)
EXTENDS IncidentCaseInvariant, TLAPS

\* The document create_case starts from is well formed, and so is what it
\* stores.
LEMMA CreateFacts ==
  /\ NewCase \in Cases
  /\ Create \in Cases
  /\ Create = [NewCase EXCEPT !.version = 1]
  /\ Create.version = 1
  /\ Create.status = "open"
  /\ Create.ticket = None
  /\ Create.actions = [a \in ActionIds |-> NoAction]
<1>1. NoAction \in Actions
  BY DEF NoAction, Actions, States
<1>2. NewCase \in Cases
  BY <1>1 DEF NewCase, Cases, Statuses
<1> QED
  BY <1>1, <1>2 DEF Create, Stamped, NewCase, Cases, Statuses

\* persist changes the version and nothing else.
LEMMA StampedFacts ==
  ASSUME NEW c \in Cases
  PROVE  /\ Stamped(c) \in Cases
         /\ Stamped(c).version = c.version + 1
         /\ Stamped(c).status = c.status
         /\ Stamped(c).ticket = c.ticket
         /\ Stamped(c).actions = c.actions
         /\ Stamped(c).evidence = c.evidence
         /\ Stamped(c).evidenceState = c.evidenceState
BY DEF Stamped, Cases

\* The action table with a in another state, and what that means entry by
\* entry.
WithState(table, a, state) == [table EXCEPT ![a].state = state]

OnlyStateMoved(old, new, a, state) ==
  /\ new[a].state = state
  /\ new[a].requester = old[a].requester
  /\ new[a].target = old[a].target
  /\ new[a].approver = old[a].approver
  /\ \A b \in ActionIds \ {a} : new[b] = old[b]

\* Giving an action another state leaves the rest of the action table alone.
LEMMA WithStateFacts ==
  ASSUME NEW table \in [ActionIds -> Actions], NEW a \in ActionIds, NEW state \in States
  PROVE  /\ WithState(table, a, state) \in [ActionIds -> Actions]
         /\ OnlyStateMoved(table, WithState(table, a, state), a, state)
<1> DEFINE action == [table[a] EXCEPT !.state = state]
<1>1. /\ action \in Actions
      /\ action.state = state
      /\ action.requester = table[a].requester
      /\ action.target = table[a].target
      /\ action.approver = table[a].approver
  BY DEF Actions
<1>2. WithState(table, a, state) = [table EXCEPT ![a] = action]
  BY DEF WithState
<1> HIDE DEF action
<1> QED
  BY <1>1, <1>2 DEF OnlyStateMoved

\* Moving an action changes its state, the status, and the version.
LEMMA MoveFacts ==
  ASSUME NEW c \in Cases, NEW a \in ActionIds, NEW state \in States, NEW status \in Statuses
  PROVE  /\ Move(c, a, state, status) \in Cases
         /\ Move(c, a, state, status).version = c.version + 1
         /\ Move(c, a, state, status).status = status
         /\ Move(c, a, state, status).ticket = c.ticket
         /\ OnlyStateMoved(c.actions, Move(c, a, state, status).actions, a, state)
<1> DEFINE moved == WithState(c.actions, a, state)
           d == [c EXCEPT !.actions = moved, !.status = status]
<1>1. moved \in [ActionIds -> Actions] /\ OnlyStateMoved(c.actions, moved, a, state)
  BY WithStateFacts DEF Cases
<1>2. /\ d \in Cases /\ d.version = c.version /\ d.status = status /\ d.ticket = c.ticket
      /\ d.actions = moved
  <2> HIDE DEF moved
  <2> QED
    BY <1>1 DEF Cases
<1>3. Move(c, a, state, status) = Stamped(d)
  BY DEF Move, WithState
<1> HIDE DEF d
<1> QED
  BY <1>1, <1>2, <1>3, StampedFacts

\* Success also puts the ticket on the case.
LEMMA SucceedFacts ==
  ASSUME NEW c \in Cases, NEW a \in ActionIds
  PROVE  /\ Succeed(c, a) \in Cases
         /\ Succeed(c, a).version = c.version + 1
         /\ Succeed(c, a).status = "mitigating"
         /\ Succeed(c, a).ticket = a
         /\ OnlyStateMoved(c.actions, Succeed(c, a).actions, a, "succeeded")
<1> DEFINE moved == WithState(c.actions, a, "succeeded")
           d == [c EXCEPT !.actions = moved, !.status = "mitigating", !.ticket = a]
<1>1. moved \in [ActionIds -> Actions] /\ OnlyStateMoved(c.actions, moved, a, "succeeded")
  BY WithStateFacts DEF Cases, States
<1>2. /\ d \in Cases /\ d.version = c.version /\ d.status = "mitigating" /\ d.ticket = a
      /\ d.actions = moved
  <2> HIDE DEF moved
  <2> QED
    BY <1>1 DEF Cases, Statuses
<1>3. Succeed(c, a) = Stamped(d)
  BY DEF Succeed, WithState
<1> HIDE DEF d
<1> QED
  BY <1>1, <1>2, <1>3, StampedFacts

\* Approval also records the approver.
LEMMA ApproveFacts ==
  ASSUME NEW c \in Cases, NEW a \in ActionIds, NEW u \in Users
  PROVE  /\ Approve(c, a, u) \in Cases
         /\ Approve(c, a, u).version = c.version + 1
         /\ Approve(c, a, u).status = c.status
         /\ Approve(c, a, u).ticket = c.ticket
         /\ Approve(c, a, u).actions[a].state = "approved"
         /\ Approve(c, a, u).actions[a].requester = c.actions[a].requester
         /\ Approve(c, a, u).actions[a].target = c.actions[a].target
         /\ Approve(c, a, u).actions[a].approver = u
         /\ \A b \in ActionIds \ {a} : Approve(c, a, u).actions[b] = c.actions[b]
<1> DEFINE action == [[c.actions[a] EXCEPT !.state = "approved"] EXCEPT !.approver = u]
           table == [c.actions EXCEPT ![a] = action]
           d == [c EXCEPT !.actions = table]
<1>1. /\ action \in Actions
      /\ action.state = "approved"
      /\ action.requester = c.actions[a].requester
      /\ action.target = c.actions[a].target
      /\ action.approver = u
  <2>1. c.actions[a] \in Actions
    BY DEF Cases
  <2>2. "approved" \in States
    BY DEF States, Unresolved, Undispatched
  <2> QED
    BY <2>1, <2>2 DEF Actions
<1>2. c.actions \in [ActionIds -> Actions]
  BY DEF Cases
<1>3. /\ table \in [ActionIds -> Actions]
      /\ table[a] = action
      /\ \A b \in ActionIds \ {a} : table[b] = c.actions[b]
  <2> HIDE DEF action
  <2> QED
    BY <1>1, <1>2
<1>4. /\ d \in Cases /\ d.version = c.version /\ d.status = c.status /\ d.ticket = c.ticket
      /\ d.actions = table
  <2> HIDE DEF table
  <2> QED
    BY <1>3 DEF Cases
<1>5. Approve(c, a, u) = Stamped(d)
  BY <1>2 DEF Approve
<1> HIDE DEF d, table, action
<1> QED
  BY <1>1, <1>3, <1>4, <1>5, StampedFacts

\* A proposal fills one entry of the action table.
LEMMA ProposeFacts ==
  ASSUME NEW c \in Cases, NEW a \in ActionIds, NEW u \in Users, NEW target \in Targets
  PROVE  /\ Propose(c, a, u, target) \in Cases
         /\ Propose(c, a, u, target).version = c.version + 1
         /\ Propose(c, a, u, target).status = "investigating"
         /\ Propose(c, a, u, target).ticket = c.ticket
         /\ Propose(c, a, u, target).actions[a] =
               [state |-> "proposed", requester |-> u, target |-> target, approver |-> None]
         /\ \A b \in ActionIds \ {a} : Propose(c, a, u, target).actions[b] = c.actions[b]
<1> DEFINE action == [state |-> "proposed", requester |-> u, target |-> target, approver |-> None]
           table == [c.actions EXCEPT ![a] = action]
           d == [c EXCEPT !.actions = table, !.status = "investigating"]
<1>1. action \in Actions
  BY DEF Actions, States, Unresolved, Undispatched
<1>2. /\ table \in [ActionIds -> Actions]
      /\ table[a] = action
      /\ \A b \in ActionIds \ {a} : table[b] = c.actions[b]
  <2>1. c.actions \in [ActionIds -> Actions]
    BY DEF Cases
  <2> HIDE DEF action
  <2> QED
    BY <1>1, <2>1
<1>3. /\ d \in Cases /\ d.version = c.version /\ d.status = "investigating"
      /\ d.ticket = c.ticket /\ d.actions = table
  <2> HIDE DEF table
  <2> QED
    BY <1>2 DEF Cases, Statuses
<1>4. Propose(c, a, u, target) = Stamped(d)
  BY DEF Propose
<1> HIDE DEF d, table
<1> QED
  BY <1>2, <1>3, <1>4, StampedFacts

\* A status change, a note and an evidence refresh leave the actions and the
\* ticket alone.
LEMMA UpdateFacts ==
  ASSUME NEW c \in Cases, NEW status \in Statuses
  PROVE  /\ Update(c, status) \in Cases
         /\ Update(c, status).version = c.version + 1
         /\ Update(c, status).status = status
         /\ Update(c, status).ticket = c.ticket
         /\ Update(c, status).actions = c.actions
<1> DEFINE d == [c EXCEPT !.status = status]
<1>1. /\ d \in Cases /\ d.version = c.version /\ d.status = status
      /\ d.ticket = c.ticket /\ d.actions = c.actions
  BY DEF Cases
<1>2. Update(c, status) = Stamped(d)
  BY DEF Update
<1> HIDE DEF d
<1> QED
  BY <1>1, <1>2, StampedFacts

\* refresh_evidence touches the evidence fields only.
LEMMA RefreshEvidenceFacts ==
  ASSUME NEW c \in Cases, NEW outcome \in QueryOutcomes
  PROVE  /\ RefreshEvidence(c, outcome) \in Cases
         /\ RefreshEvidence(c, outcome).version = c.version + 1
         /\ RefreshEvidence(c, outcome).status = c.status
         /\ RefreshEvidence(c, outcome).ticket = c.ticket
         /\ RefreshEvidence(c, outcome).actions = c.actions
<1> DEFINE Plain(d) == /\ d \in Cases /\ d.version = c.version /\ d.status = c.status
                       /\ d.ticket = c.ticket /\ d.actions = c.actions
           lost == [c EXCEPT !.evidenceState = IF c.evidence = "none" THEN "unavailable" ELSE "stale"]
           found == [c EXCEPT !.evidence = outcome,
                              !.evidenceState = IF outcome = "events" THEN "success" ELSE "empty"]
<1>1. Plain(lost)
  BY DEF Cases
<1>2. ASSUME outcome # "unavailable"
      PROVE  Plain(found)
  BY <1>2, ConstantsAssumption DEF Cases, AllQueryOutcomes
<1>3. RefreshEvidence(c, outcome) = Stamped(IF outcome = "unavailable" THEN lost ELSE found)
  BY DEF RefreshEvidence
<1> HIDE DEF lost, found
<1> QED
  BY <1>1, <1>2, <1>3, StampedFacts

(***************************************************************************)
(* The same writes as equations on the whole action table.                 *)
(***************************************************************************)

\* A move stores the table with the one state changed.
LEMMA MoveActions ==
  ASSUME NEW c \in Cases, NEW a \in ActionIds, NEW state, NEW status
  PROVE  Move(c, a, state, status).actions = WithState(c.actions, a, state)
<1> DEFINE table == WithState(c.actions, a, state)
<1>1. Move(c, a, state, status) = Stamped([c EXCEPT !.actions = table, !.status = status])
  BY DEF Move, WithState, Cases
<1> HIDE DEF table
<1>2. Move(c, a, state, status).actions = table
  BY <1>1 DEF Stamped, Cases
<1> QED
  BY <1>2 DEF table

\* So does success.
LEMMA SucceedActions ==
  ASSUME NEW c \in Cases, NEW a \in ActionIds
  PROVE  Succeed(c, a).actions = WithState(c.actions, a, "succeeded")
<1> DEFINE table == WithState(c.actions, a, "succeeded")
<1>1. Succeed(c, a) = Stamped([c EXCEPT !.actions = table, !.status = "mitigating", !.ticket = a])
  BY DEF Succeed, WithState, Cases
<1> HIDE DEF table
<1>2. Succeed(c, a).actions = table
  BY <1>1 DEF Stamped, Cases
<1> QED
  BY <1>2 DEF table

\* A proposal stores the table with the one entry filled.
LEMMA ProposeActions ==
  ASSUME NEW c \in Cases, NEW a \in ActionIds, NEW u, NEW target
  PROVE  Propose(c, a, u, target).actions =
           [c.actions EXCEPT ![a] = [state |-> "proposed", requester |-> u,
                                     target |-> target, approver |-> None]]
<1> DEFINE table == [c.actions EXCEPT ![a] = [state |-> "proposed", requester |-> u,
                                              target |-> target, approver |-> None]]
<1>1. Propose(c, a, u, target) = Stamped([c EXCEPT !.actions = table, !.status = "investigating"])
  BY DEF Propose, Cases
<1> HIDE DEF table
<1>2. Propose(c, a, u, target).actions = table
  BY <1>1 DEF Stamped, Cases
<1> QED
  BY <1>2 DEF table

\* An approval stores the table with state and approver changed.
LEMMA ApproveActions ==
  ASSUME NEW c \in Cases, NEW a \in ActionIds, NEW u
  PROVE  Approve(c, a, u).actions =
           [c.actions EXCEPT ![a].state = "approved", ![a].approver = u]
<1> DEFINE table == [c.actions EXCEPT ![a].state = "approved", ![a].approver = u]
<1>1. Approve(c, a, u) = Stamped([c EXCEPT !.actions = table])
  BY DEF Approve, Cases
<1> HIDE DEF table
<1>2. Approve(c, a, u).actions = table
  BY <1>1 DEF Stamped, Cases
<1> QED
  BY <1>2 DEF table

(***************************************************************************)
(* Every decision on a consistent case yields a consistent case, one       *)
(* version later.                                                          *)
(***************************************************************************)

\* What the single-write handlers never do: touch an action that was
\* dispatched or settled, retarget one, or dispatch one.
DispatchUntouched(c, d) ==
  \A a \in ActionIds :
    /\ InState(c, a, {"succeeded", "failed"} \cup Dispatched) => d.actions[a] = c.actions[a]
    /\ ~ InState(c, a, {"absent"}) => d.actions[a].target = c.actions[a].target
    /\ InState(c, a, {"absent"} \cup Undispatched) =>
         InState(d, a, {"absent", "failed"} \cup Undispatched)

\* A write that leaves actions and ticket alone, neither enters nor leaves
\* awaiting_approval, and resolves only when nothing is open.
LEMMA SameActionsFacts ==
  ASSUME NEW c \in Cases, CaseConsistent(c), NEW d \in Cases,
         d.actions = c.actions, d.ticket = c.ticket,
         d.status = "awaiting_approval" <=> c.status = "awaiting_approval",
         d.status = "resolved" => \A a \in ActionIds : ~ InState(c, a, Unresolved)
  PROVE  CaseConsistent(d) /\ DispatchUntouched(c, d)
BY SMTT(30) DEF CaseConsistent, DispatchUntouched, InState, Cases, Actions, States

\* While the case does not await approval, no approval can have run out: a
\* proposal finds nothing but failed actions.
LEMMA ProposedAlone ==
  ASSUME NEW c \in Cases, CaseConsistent(c), NEW a \in ActionIds, MayPropose(c, a, ActionIds)
  PROVE  \A b \in ActionIds : InState(c, b, {"absent", "failed"})
<1>1. c.status # "awaiting_approval"
  BY DEF MayPropose
<1>2. \A b \in ActionIds : ~ InState(c, b, {"pending_approval"})
  BY <1>1 DEF CaseConsistent, InState
<1> QED
  BY <1>2 DEF MayPropose

\* The handlers, one by one, keep a consistent case consistent.
LEMMA ProposeKeepsConsistent ==
  ASSUME NEW c \in Cases, CaseConsistent(c), NEW a \in ActionIds, NEW u \in Users,
         NEW target \in Targets, MayPropose(c, a, ActionIds)
  PROVE  CaseConsistent(Propose(c, a, u, target)) /\ DispatchUntouched(c, Propose(c, a, u, target))
<1> DEFINE d == Propose(c, a, u, target)
<1>1. \A b \in ActionIds : InState(c, b, {"absent", "failed"})
  BY ProposedAlone
<1>2. /\ d.status = "investigating" /\ d.ticket = c.ticket
      /\ d.actions[a].state = "proposed"
      /\ \A b \in ActionIds \ {a} : d.actions[b] = c.actions[b]
  <2>1. d.actions[a] = [state |-> "proposed", requester |-> u, target |-> target, approver |-> None]
    BY ProposeFacts
  <2>2. d.actions[a].state = "proposed"
    BY <2>1
  <2> QED
    BY <2>2, ProposeFacts
<1>3. InState(c, a, {"absent"})
  BY DEF MayPropose
<1> QED
  BY <1>1, <1>2, <1>3, SMTT(30)
     DEF CaseConsistent, DispatchUntouched, InState, Undispatched, Dispatched, Unresolved

\* Requesting approval takes the case to awaiting_approval with its action.
LEMMA RequestApprovalKeepsConsistent ==
  ASSUME NEW c \in Cases, CaseConsistent(c), NEW a \in ActionIds, InState(c, a, {"proposed"})
  PROVE  CaseConsistent(RequestApproval(c, a)) /\ DispatchUntouched(c, RequestApproval(c, a))
<1> DEFINE d == RequestApproval(c, a)
<1>1. "pending_approval" \in States /\ "awaiting_approval" \in Statuses
  BY DEF States, Unresolved, Undispatched, Statuses
<1>2. /\ d.status = "awaiting_approval" /\ d.ticket = c.ticket
      /\ OnlyStateMoved(c.actions, d.actions, a, "pending_approval")
  BY <1>1, MoveFacts DEF RequestApproval
<1> QED
  BY <1>2, SMTT(30)
     DEF OnlyStateMoved, CaseConsistent, DispatchUntouched, InState, Undispatched, Dispatched, Unresolved

\* Approval keeps the status, and the approver it records is independent.
LEMMA ApproveKeepsConsistent ==
  ASSUME NEW c \in Cases, CaseConsistent(c), NEW a \in ActionIds, NEW u \in Users,
         MayApprove(c, a, u, {})
  PROVE  CaseConsistent(Approve(c, a, u)) /\ DispatchUntouched(c, Approve(c, a, u))
<1> DEFINE d == Approve(c, a, u)
<1>1. /\ d.status = c.status /\ d.ticket = c.ticket
      /\ d.actions[a].state = "approved"
      /\ d.actions[a].requester = c.actions[a].requester
      /\ d.actions[a].target = c.actions[a].target
      /\ d.actions[a].approver = u
      /\ \A b \in ActionIds \ {a} : d.actions[b] = c.actions[b]
  BY ApproveFacts
<1>2. u \in Managers \ {c.actions[a].requester} /\ InState(c, a, {"pending_approval"})
  BY DEF MayApprove
<1> QED
  BY <1>1, <1>2, SMTT(30)
     DEF CaseConsistent, DispatchUntouched, InState, Undispatched, Dispatched, Unresolved

\* Cancelling takes the case out of awaiting_approval, with its one live action.
LEMMA CancelKeepsConsistent ==
  ASSUME NEW c \in Cases, CaseConsistent(c), NEW a \in ActionIds, InState(c, a, Undispatched)
  PROVE  CaseConsistent(Cancel(c, a)) /\ DispatchUntouched(c, Cancel(c, a))
<1> DEFINE d == Cancel(c, a)
<1>1. "failed" \in States /\ "investigating" \in Statuses
  BY DEF States, Statuses
<1>2. /\ d.status = "investigating" /\ d.ticket = c.ticket
      /\ OnlyStateMoved(c.actions, d.actions, a, "failed")
  BY <1>1, MoveFacts DEF Cancel
<1> QED
  BY <1>2, SMTT(30)
     DEF OnlyStateMoved, CaseConsistent, DispatchUntouched, InState, Undispatched, Dispatched, Unresolved

\* Everything update_case, the note, evidence, proposal, approval and
\* cancellation handlers can store.
LEMMA UpdateOfFacts ==
  ASSUME NEW c \in Cases, CaseConsistent(c), NEW d, UpdateOf(c, d)
  PROVE  /\ d \in Cases
         /\ d.version = c.version + 1
         /\ CaseConsistent(d)
         /\ DispatchUntouched(c, d)
<1>1. CASE c = NewCase /\ d = Create
  <2>1. /\ d \in Cases /\ d.version = 1 /\ d.status = "open" /\ d.ticket = None
        /\ d.actions = [a \in ActionIds |-> NoAction]
    BY <1>1, CreateFacts
  <2>2. /\ c.version = 0 /\ c.status = "open" /\ c.ticket = None
        /\ c.actions = [a \in ActionIds |-> NoAction]
    BY <1>1 DEF NewCase
  <2>3. CaseConsistent(d) /\ DispatchUntouched(c, d)
    BY <2>1, <2>2, SameActionsFacts
  <2> QED
    BY <2>1, <2>2, <2>3
<1>2. CASE \E status \in Statuses : MayUpdate(c, status) /\ d = Update(c, status)
  <2>1. PICK status \in Statuses : MayUpdate(c, status) /\ d = Update(c, status)
    BY <1>2
  <2>2. /\ d \in Cases /\ d.version = c.version + 1 /\ d.status = status
        /\ d.ticket = c.ticket /\ d.actions = c.actions
    BY <2>1, UpdateFacts
  <2>3. c.status # "awaiting_approval" /\ status # "awaiting_approval"
    BY <2>1 DEF MayUpdate, Transitions, Statuses, Cases
  <2>4. status = "resolved" => \A a \in ActionIds : ~ InState(c, a, Unresolved)
    BY <2>1 DEF MayUpdate
  <2> QED
    BY <2>2, <2>3, <2>4, SameActionsFacts
<1>3. CASE d = AddNote(c)
  <2>1. /\ d \in Cases /\ d.version = c.version + 1 /\ d.status = c.status
        /\ d.ticket = c.ticket /\ d.actions = c.actions
    BY <1>3, StampedFacts DEF AddNote
  <2> QED
    BY <2>1, SameActionsFacts DEF CaseConsistent
<1>4. CASE \E outcome \in QueryOutcomes : d = RefreshEvidence(c, outcome)
  <2>1. /\ d \in Cases /\ d.version = c.version + 1 /\ d.status = c.status
        /\ d.ticket = c.ticket /\ d.actions = c.actions
    BY <1>4, RefreshEvidenceFacts
  <2> QED
    BY <2>1, SameActionsFacts DEF CaseConsistent
<1>5. CASE \E a \in ActionIds, u \in Users, target \in Targets :
             MayPropose(c, a, ActionIds) /\ d = Propose(c, a, u, target)
  <2>1. PICK a \in ActionIds, u \in Users, target \in Targets :
           MayPropose(c, a, ActionIds) /\ d = Propose(c, a, u, target)
    BY <1>5
  <2>2. d \in Cases /\ d.version = c.version + 1
    BY <2>1, ProposeFacts
  <2>3. CaseConsistent(d) /\ DispatchUntouched(c, d)
    BY <2>1, ProposeKeepsConsistent
  <2> QED
    BY <2>2, <2>3
<1>6. CASE \E a \in ActionIds, u \in Users :
             MayRequestApproval(c, a, u, {}) /\ d = RequestApproval(c, a)
  <2>1. PICK a \in ActionIds : InState(c, a, {"proposed"}) /\ d = RequestApproval(c, a)
    BY <1>6 DEF MayRequestApproval
  <2>2. "pending_approval" \in States /\ "awaiting_approval" \in Statuses
    BY DEF States, Unresolved, Undispatched, Statuses
  <2> QED
    BY <2>1, <2>2, MoveFacts, RequestApprovalKeepsConsistent DEF RequestApproval
<1>7. CASE \E a \in ActionIds, u \in Users : MayApprove(c, a, u, {}) /\ d = Approve(c, a, u)
  BY <1>7, ApproveFacts, ApproveKeepsConsistent
<1>8. CASE \E a \in ActionIds, u \in Users : MayCancel(c, a, u) /\ d = Cancel(c, a)
  <2>1. PICK a \in ActionIds : InState(c, a, Undispatched) /\ d = Cancel(c, a)
    BY <1>8 DEF MayCancel
  <2>2. "failed" \in States /\ "investigating" \in Statuses
    BY DEF States, Statuses
  <2> QED
    BY <2>1, <2>2, MoveFacts, CancelKeepsConsistent DEF Cancel
<1> QED
  BY <1>1, <1>2, <1>3, <1>4, <1>5, <1>6, <1>7, <1>8 DEF UpdateOf

\* The dispatch claim.
LEMMA ClaimFacts ==
  ASSUME NEW c \in Cases, CaseConsistent(c), NEW a \in ActionIds, InState(c, a, {"approved"})
  PROVE  /\ Claim(c, a) \in Cases
         /\ Claim(c, a).version = c.version + 1
         /\ CaseConsistent(Claim(c, a))
         /\ OnlyStateMoved(c.actions, Claim(c, a).actions, a, "executing")
<1> DEFINE d == Claim(c, a)
<1>1. "executing" \in States /\ "mitigating" \in Statuses
  BY DEF States, Unresolved, Dispatched, Statuses
<1>2. /\ d \in Cases /\ d.version = c.version + 1 /\ d.status = "mitigating"
      /\ d.ticket = c.ticket /\ OnlyStateMoved(c.actions, d.actions, a, "executing")
  BY <1>1, MoveFacts DEF Claim
<1>3. CaseConsistent(d)
  BY <1>2, SMTT(30)
     DEF OnlyStateMoved, CaseConsistent, InState, Undispatched, Dispatched, Unresolved
<1> QED
  BY <1>2, <1>3

\* Success of a dispatched action, by answer or by reconciliation.
LEMMA SuccessFacts ==
  ASSUME NEW c \in Cases, CaseConsistent(c), NEW a \in ActionIds, InState(c, a, Dispatched)
  PROVE  CaseConsistent(Succeed(c, a))
<1> DEFINE d == Succeed(c, a)
<1>1. /\ d.status = "mitigating" /\ d.ticket = a
      /\ OnlyStateMoved(c.actions, d.actions, a, "succeeded")
  BY SucceedFacts
<1> QED
  BY <1>1, SMTT(30)
     DEF OnlyStateMoved, CaseConsistent, InState, Undispatched, Dispatched, Unresolved

\* What execute_action records of Jira's answer.
SettledStates == {"succeeded", "failed", "outcome_uncertain"}

\* Each classification of the answer moves the action to its own state.
LEMMA RecordOutcomeTyped ==
  ASSUME NEW c \in Cases, NEW a \in ActionIds, NEW outcome \in Outcomes
  PROVE  LET d == RecordOutcome(c, a, outcome)
         IN  /\ d \in Cases
             /\ d.version = c.version + 1
             /\ \E s \in SettledStates : OnlyStateMoved(c.actions, d.actions, a, s)
             /\ outcome = "confirmed" => d.actions[a].state = "succeeded"
             /\ outcome = "rejected" => d.actions[a].state = "failed"
             /\ outcome = "uncertain" => d.actions[a].state = "outcome_uncertain"
<1> DEFINE d == RecordOutcome(c, a, outcome)
<1>1. /\ {"failed", "outcome_uncertain"} \subseteq States
      /\ "investigating" \in Statuses /\ c.status \in Statuses
  BY DEF States, Unresolved, Dispatched, Statuses, Cases
<1>2. CASE outcome = "confirmed"
  <2>1. d = Succeed(c, a)
    BY <1>2 DEF RecordOutcome
  <2> QED
    BY <1>2, <2>1, SucceedFacts DEF SettledStates, OnlyStateMoved
<1>3. CASE outcome = "rejected"
  <2>1. d = Move(c, a, "failed", "investigating")
    BY <1>3 DEF RecordOutcome
  <2> QED
    BY <1>1, <1>3, <2>1, MoveFacts DEF SettledStates, OnlyStateMoved
<1>4. CASE outcome = "uncertain"
  <2>1. d = Move(c, a, "outcome_uncertain", c.status)
    BY <1>4 DEF RecordOutcome
  <2> QED
    BY <1>1, <1>4, <2>1, MoveFacts DEF SettledStates, OnlyStateMoved
<1> QED
  BY <1>2, <1>3, <1>4 DEF Outcomes

\* Recording an outcome keeps the case consistent.
LEMMA OutcomeFacts ==
  ASSUME NEW c \in Cases, CaseConsistent(c), NEW a \in ActionIds, InState(c, a, {"executing"}),
         NEW outcome \in Outcomes
  PROVE  CaseConsistent(RecordOutcome(c, a, outcome))
<1> DEFINE d == RecordOutcome(c, a, outcome)
<1>1. /\ {"failed", "outcome_uncertain"} \subseteq States
      /\ "investigating" \in Statuses /\ c.status \in Statuses
  BY DEF States, Unresolved, Dispatched, Statuses, Cases
<1>2. CASE outcome = "confirmed"
  <2>1. InState(c, a, Dispatched)
    BY DEF InState, Dispatched
  <2> QED
    BY <1>2, <2>1, SuccessFacts DEF RecordOutcome
<1>3. CASE outcome = "rejected"
  <2>1. /\ d.status = "investigating" /\ d.ticket = c.ticket
        /\ OnlyStateMoved(c.actions, d.actions, a, "failed")
    BY <1>1, <1>3, MoveFacts DEF RecordOutcome
  <2> HIDE DEF d
  <2>2. CaseConsistent(d)
    BY <2>1, SMTT(30)
       DEF OnlyStateMoved, CaseConsistent, InState, Undispatched, Dispatched, Unresolved
  <2> QED
    BY <2>2 DEF d
<1>4. CASE outcome = "uncertain"
  <2>1. /\ d.status = c.status /\ d.ticket = c.ticket
        /\ OnlyStateMoved(c.actions, d.actions, a, "outcome_uncertain")
    BY <1>1, <1>4, MoveFacts DEF RecordOutcome
  <2> HIDE DEF d
  <2>2. CaseConsistent(d)
    BY <2>1, SMTT(30)
       DEF OnlyStateMoved, CaseConsistent, InState, Undispatched, Dispatched, Unresolved
  <2> QED
    BY <2>2 DEF d
<1> QED
  BY <1>2, <1>3, <1>4 DEF Outcomes

(***************************************************************************)
(* IInv is inductive.                                                      *)
(***************************************************************************)

\* The empty store with no request in flight is consistent.
LEMMA InitIInv == Init => IInv
<1> SUFFICES ASSUME Init PROVE IInv
  OBVIOUS
<1>1. TypeOK
  <2>1. Idle \in RequestRecords
    BY CreateFacts DEF Idle, RequestRecords, Phases, Ops
  <2> QED
    BY <2>1, CreateFacts DEF Init, TypeOK
<1>2. case.version = 0 /\ case.status = "open" /\ case.ticket = None
  BY DEF Init, NewCase
<1>3. \A a \in ActionIds : case.actions[a].state = "absent"
  BY DEF Init, NewCase, NoAction
<1>4. CaseConsistent(case)
  BY <1>2, <1>3, ConstantsAssumption
     DEF CaseConsistent, InState, Unresolved, Undispatched, Dispatched
<1>5. \A r \in Requests : req[r].phase = "idle"
  BY DEF Init, Idle
<1>6. RequestsConsistent
  BY <1>5 DEF RequestsConsistent, CopyCurrentOrStale, DraftDecided, ActionChosen, ClaimOwned, Owns
<1>7. CallsAccountedFor
  BY <1>3 DEF CallsAccountedFor, NoTicketFor, InState, Init
<1> QED
  BY <1>1, <1>4, <1>6, <1>7 DEF IInv, UncreatedIsEmpty, Init

\* A step that changes only what request r carries keeps the invariant if r's
\* new record is in order and r has not come to own a claim by it.
LEMMA RequestStep ==
  ASSUME IInv, NEW r \in Requests, NEW v \in RequestRecords,
         req' = [req EXCEPT ![r] = v],
         UNCHANGED <<case, expired, posts, issues, dispatched>>,
         CopyCurrentOrStale(r)', DraftDecided(r)', ActionChosen(r)',
         Owns(r)' => /\ Owns(r)
                     /\ req[r].act = v.act
                     /\ req[r].target = v.target
                     /\ v.phase # "claimed"
                     /\ v.phase = "saving" =>
                          /\ ~ InState(v.draft, v.act, {"succeeded"})
                          /\ InState(v.draft, v.act, {"failed"}) => NoTicketFor(v.act)
  PROVE  IInv'
<1>1. TypeOK'
  BY DEF IInv, TypeOK
<1>2. req'[r] = v /\ \A q \in Requests \ {r} : req'[q] = req[q]
  BY DEF IInv, TypeOK
<1>3. \A q \in Requests : Owns(q)' => Owns(q) /\ req'[q].act = req[q].act
  BY <1>2 DEF Owns
<1>4. ASSUME NEW q \in Requests \ {r}
      PROVE  /\ CopyCurrentOrStale(q)' /\ DraftDecided(q)' /\ ActionChosen(q)'
             /\ ClaimOwned(q)'
  <2>1. CopyCurrentOrStale(q) /\ DraftDecided(q) /\ ActionChosen(q) /\ ClaimOwned(q)
    BY DEF IInv, RequestsConsistent
  <2>2. req'[q] = req[q]
    BY <1>2
  <2>3. Owns(q)' <=> Owns(q)
    BY <2>2 DEF Owns
  <2>4. CopyCurrentOrStale(q)' /\ DraftDecided(q)' /\ ActionChosen(q)'
    BY <2>1, <2>2, <2>3 DEF CopyCurrentOrStale, DraftDecided, ActionChosen, Chosen
  <2>5. ClaimOwned(q)'
    BY <2>1, <2>2, <2>3, <1>3 DEF ClaimOwned, NoTicketFor
  <2> QED
    BY <2>4, <2>5
<1>5. ClaimOwned(r)'
  <2> SUFFICES ASSUME Owns(r)' PROVE ClaimOwned(r)'
    BY DEF ClaimOwned
  <2>1. ClaimOwned(r) /\ Owns(r)
    BY DEF IInv, RequestsConsistent
  <2>2. v.act = req[r].act /\ v.target = req[r].target /\ v.phase # "claimed"
    OBVIOUS
  <2>3. v.phase = "saving" => /\ ~ InState(v.draft, v.act, {"succeeded"})
                              /\ InState(v.draft, v.act, {"failed"}) => NoTicketFor(v.act)'
    BY DEF NoTicketFor
  <2> QED
    BY <1>2, <1>3, <2>1, <2>2, <2>3 DEF ClaimOwned
<1>6. RequestsConsistent'
  BY <1>4, <1>5 DEF RequestsConsistent
<1>7. /\ CaseConsistent(case)' /\ UncreatedIsEmpty' /\ CallsAccountedFor'
  BY DEF IInv, UncreatedIsEmpty, CallsAccountedFor, NoTicketFor
<1> QED
  BY <1>1, <1>6, <1>7 DEF IInv

\* The load step of every handler but reconcile_action.
LEMMA LoadedStep ==
  ASSUME IInv, NEW r \in Requests, NEW op \in {"update", "execute"},
         NEW a \in ActionIds \cup {None}, NEW target \in Targets \cup {None},
         NEW draft \in Cases, Loaded(r, op, a, target, draft),
         op = "update" => UpdateOf(case, draft),
         op = "execute" => /\ a \in ActionIds
                           /\ target \in Targets
                           /\ InState(case, a, {"approved"})
                           /\ case.actions[a].target = target
                           /\ draft = Claim(case, a)
  PROVE  IInv'
<1> DEFINE v == [phase |-> "saving", op |-> op, act |-> a, target |-> target,
                 seen |-> case, draft |-> draft]
<1>1. /\ req' = [req EXCEPT ![r] = v]
      /\ UNCHANGED <<case, expired, posts, issues, dispatched>>
  BY DEF Loaded
<1>2. case \in Cases /\ req \in [Requests -> RequestRecords]
  BY DEF IInv, TypeOK
<1>3. v \in RequestRecords
  BY <1>2 DEF RequestRecords, Phases, Ops
<1>4. /\ v.phase = "saving" /\ v.op = op /\ v.act = a /\ v.target = target
      /\ v.seen = case /\ v.draft = draft
  OBVIOUS
<1> HIDE DEF v
<1>5. req'[r] = v
  BY <1>1, <1>2
<1>6. CopyCurrentOrStale(r)'
  BY <1>1, <1>2, <1>4, <1>5 DEF CopyCurrentOrStale, Cases
<1>7. DraftDecided(r)'
  BY <1>4, <1>5 DEF DraftDecided
<1>8. ActionChosen(r)' /\ ~ Owns(r)'
  BY <1>4, <1>5 DEF ActionChosen, Chosen, Owns
<1> QED
  BY <1>1, <1>3, <1>6, <1>7, <1>8, RequestStep

\* No handler's load step breaks the invariant: a draft decided on the stored
\* case is in order however long it then takes to be saved.
LEMMA StartStep ==
  ASSUME IInv, NEW r \in Requests, StartMutation(r)
  PROVE  IInv'
<1>1. case \in Cases /\ CaseConsistent(case) /\ UncreatedIsEmpty
  BY DEF IInv, TypeOK
<1>2. ASSUME NEW draft, LoadedUpdate(r, draft), UpdateOf(case, draft)
      PROVE  IInv'
  <2>1. draft \in Cases
    BY <1>1, <1>2, UpdateOfFacts
  <2> QED
    BY <1>2, <2>1, LoadedStep DEF LoadedUpdate
<1>3. CASE StartCreate(r)
  <2>1. case = NewCase
    BY <1>1, <1>3 DEF StartCreate, Stored, UncreatedIsEmpty, Cases
  <2>2. UpdateOf(case, Create)
    BY <2>1 DEF UpdateOf
  <2>3. Loaded(r, "update", None, None, Create) /\ Create \in Cases
    BY <1>3, CreateFacts DEF StartCreate
  <2>4. "update" \in {"update", "execute"} /\ "update" # "execute"
    OBVIOUS
  <2> QED
    BY <2>2, <2>3, <2>4, LoadedStep
<1>4. CASE StartUpdate(r)
  BY <1>2, <1>4 DEF StartUpdate, UpdateOf
<1>5. CASE StartNote(r)
  BY <1>2, <1>5 DEF StartNote, UpdateOf
<1>6. CASE StartRefreshEvidence(r)
  BY <1>2, <1>6 DEF StartRefreshEvidence, UpdateOf
<1>7. CASE StartPropose(r)
  <2>1. PICK a \in ActionIds, u \in Users, target \in Targets :
           MayPropose(case, a, expired) /\ LoadedUpdate(r, Propose(case, a, u, target))
    BY <1>7 DEF StartPropose
  <2>2. MayPropose(case, a, ActionIds)
    BY <2>1 DEF MayPropose
  <2>3. UpdateOf(case, Propose(case, a, u, target))
    BY <2>2 DEF UpdateOf
  <2> QED
    BY <1>2, <2>1, <2>3
<1>8. CASE StartRequestApproval(r)
  <2>1. PICK a \in ActionIds, u \in Users :
           MayRequestApproval(case, a, u, expired) /\ LoadedUpdate(r, RequestApproval(case, a))
    BY <1>8 DEF StartRequestApproval
  <2>2. MayRequestApproval(case, a, u, {})
    BY <2>1 DEF MayRequestApproval
  <2>3. UpdateOf(case, RequestApproval(case, a))
    BY <2>2 DEF UpdateOf
  <2> QED
    BY <1>2, <2>1, <2>3
<1>9. CASE StartApprove(r)
  <2>1. PICK a \in ActionIds, u \in Users :
           MayApprove(case, a, u, expired) /\ LoadedUpdate(r, Approve(case, a, u))
    BY <1>9 DEF StartApprove
  <2>2. MayApprove(case, a, u, {})
    BY <2>1 DEF MayApprove
  <2>3. UpdateOf(case, Approve(case, a, u))
    BY <2>2 DEF UpdateOf
  <2> QED
    BY <1>2, <2>1, <2>3
<1>10. CASE StartCancel(r)
  BY <1>2, <1>10 DEF StartCancel, UpdateOf
<1>11. CASE StartExecute(r)
  <2>1. PICK a \in ActionIds, u \in Users, target \in Targets :
           MayExecute(case, a, u, target, expired) /\ Loaded(r, "execute", a, target, Claim(case, a))
    BY <1>11 DEF StartExecute
  <2>2. InState(case, a, {"approved"}) /\ case.actions[a].target = target
    BY <2>1 DEF MayExecute
  <2>3. Claim(case, a) \in Cases
    BY <1>1, <2>2, ClaimFacts
  <2> QED
    BY <2>1, <2>2, <2>3, LoadedStep
<1>12. CASE StartReconcile(r)
  <2>1. PICK a \in ActionIds, u \in Users, target \in Targets :
           /\ MayReconcile(case, a, u, target)
           /\ req' = [req EXCEPT ![r] = [phase |-> "verifying", op |-> "reconcile", act |-> a,
                                         target |-> target, seen |-> case, draft |-> NewCase]]
    BY <1>12 DEF StartReconcile
  <2> DEFINE v == [phase |-> "verifying", op |-> "reconcile", act |-> a,
                   target |-> target, seen |-> case, draft |-> NewCase]
  <2>2. v \in RequestRecords
    BY <1>1, CreateFacts DEF RequestRecords, Phases, Ops
  <2>3. /\ v.phase = "verifying" /\ v.op = "reconcile" /\ v.act = a
        /\ v.target = target /\ v.seen = case
    OBVIOUS
  <2>4. req' = [req EXCEPT ![r] = v] /\ UNCHANGED <<case, expired, posts, issues, dispatched>>
    BY <1>12, <2>1 DEF StartReconcile
  <2> HIDE DEF v
  <2>5. req'[r] = v
    BY <2>4 DEF IInv, TypeOK
  <2>6. CopyCurrentOrStale(r)'
    BY <1>1, <2>3, <2>4, <2>5 DEF CopyCurrentOrStale, Cases
  <2>7. DraftDecided(r)' /\ ~ Owns(r)'
    BY <2>3, <2>5 DEF DraftDecided, Owns
  <2>8. ActionChosen(r)'
    BY <2>1, <2>3, <2>5, <2>7 DEF ActionChosen, Chosen, MayReconcile
  <2> QED
    BY <2>2, <2>4, <2>6, <2>7, <2>8, RequestStep
<1> QED
  BY <1>3, <1>4, <1>5, <1>6, <1>7, <1>8, <1>9, <1>10, <1>11, <1>12 DEF StartMutation

\* A request that ends, by refusal or by death, takes nothing with it.
LEMMA EndStep ==
  ASSUME IInv, NEW r \in Requests, req' = [req EXCEPT ![r] = Idle],
         UNCHANGED <<case, expired, posts, issues, dispatched>>
  PROVE  IInv'
<1>1. Idle \in RequestRecords /\ Idle.phase = "idle"
  BY CreateFacts DEF Idle, RequestRecords, Phases, Ops
<1>2. req'[r].phase = "idle"
  BY <1>1 DEF IInv, TypeOK
<1>3. CopyCurrentOrStale(r)' /\ DraftDecided(r)' /\ ActionChosen(r)' /\ ~ Owns(r)'
  BY <1>2 DEF CopyCurrentOrStale, DraftDecided, ActionChosen, Owns
<1> QED
  BY <1>1, <1>3, RequestStep

\* What the owner of a claim carries once the adapter has classified the call.
LEMMA SettledFacts ==
  ASSUME IInv, NEW r \in Requests, req[r].phase \in {"claimed", "waiting"},
         NEW outcome \in Outcomes
  PROVE  /\ Settled(r, outcome) \in RequestRecords
         /\ Settled(r, outcome).phase = "saving"
         /\ Settled(r, outcome).op = "outcome"
         /\ Settled(r, outcome).act = req[r].act
         /\ Settled(r, outcome).target = req[r].target
         /\ Settled(r, outcome).seen = req[r].seen
         /\ Settled(r, outcome).draft = RecordOutcome(req[r].seen, req[r].act, outcome)
         /\ outcome = "confirmed" => InState(Settled(r, outcome).draft, req[r].act, {"succeeded"})
         /\ outcome = "rejected" => InState(Settled(r, outcome).draft, req[r].act, {"failed"})
         /\ outcome = "uncertain" =>
              InState(Settled(r, outcome).draft, req[r].act, {"outcome_uncertain"})
<1> DEFINE d == RecordOutcome(req[r].seen, req[r].act, outcome)
<1>1. req[r] \in RequestRecords
  BY DEF IInv, TypeOK
<1>2. Chosen(r, {"executing"})
  BY DEF IInv, RequestsConsistent, ActionChosen, Owns
<1>3. /\ req[r].seen \in Cases /\ req[r].act \in ActionIds
      /\ InState(req[r].seen, req[r].act, {"executing"})
  BY <1>1, <1>2 DEF RequestRecords, Chosen
<1>4. d \in Cases
  BY <1>3, RecordOutcomeTyped
<1>5. /\ outcome = "confirmed" => InState(d, req[r].act, {"succeeded"})
      /\ outcome = "rejected" => InState(d, req[r].act, {"failed"})
      /\ outcome = "uncertain" => InState(d, req[r].act, {"outcome_uncertain"})
  BY <1>3, RecordOutcomeTyped DEF InState
<1> HIDE DEF d
<1>6. Settled(r, outcome) = [req[r] EXCEPT !.phase = "saving", !.op = "outcome", !.draft = d]
  BY DEF Settled, d
<1>7. /\ Settled(r, outcome) \in RequestRecords
      /\ Settled(r, outcome).phase = "saving"
      /\ Settled(r, outcome).op = "outcome"
      /\ Settled(r, outcome).act = req[r].act
      /\ Settled(r, outcome).target = req[r].target
      /\ Settled(r, outcome).seen = req[r].seen
      /\ Settled(r, outcome).draft = d
  BY <1>1, <1>4, <1>6 DEF RequestRecords, Phases, Ops
<1> QED
  BY <1>5, <1>7 DEF d

\* The call failed to leave or was given up, and the outcome is uncertain; or
\* it could not be made, and nothing has been sent.
LEMMA UnansweredStep ==
  ASSUME IInv, NEW r \in Requests, AdapterUnavailable(r) \/ PostFails(r) \/ Timeout(r)
  PROVE  IInv'
<1>1. PICK outcome \in Outcomes :
         /\ req[r].phase \in {"claimed", "waiting"}
         /\ outcome # "confirmed"
         /\ outcome = "rejected" => req[r].phase = "claimed"
         /\ req' = [req EXCEPT ![r] = Settled(r, outcome)]
         /\ UNCHANGED <<case, expired, posts, issues, dispatched>>
  BY DEF AdapterUnavailable, PostFails, Timeout, Outcomes
<1> DEFINE v == Settled(r, outcome)
<1>3. /\ v \in RequestRecords /\ v.phase = "saving" /\ v.op = "outcome"
      /\ v.act = req[r].act /\ v.target = req[r].target /\ v.seen = req[r].seen
      /\ v.draft = RecordOutcome(req[r].seen, req[r].act, outcome)
      /\ outcome = "rejected" => InState(v.draft, v.act, {"failed"})
      /\ outcome = "uncertain" => InState(v.draft, v.act, {"outcome_uncertain"})
  BY <1>1, SettledFacts
<1>4. req' = [req EXCEPT ![r] = v]
  BY <1>1
<1> HIDE DEF v
<1>5. req'[r] = v
  BY <1>4 DEF IInv, TypeOK
<1>6. CopyCurrentOrStale(r) /\ ActionChosen(r) /\ Owns(r) /\ ClaimOwned(r)
  BY <1>1 DEF IInv, RequestsConsistent, Owns
<1>7. CopyCurrentOrStale(r)'
  BY <1>1, <1>3, <1>5, <1>6 DEF CopyCurrentOrStale
<1>8. DraftDecided(r)'
  BY <1>3, <1>5 DEF DraftDecided
<1>9. ActionChosen(r)'
  BY <1>3, <1>5, <1>6 DEF ActionChosen, Chosen
<1>10. outcome = "rejected" => NoTicketFor(v.act)
  BY <1>1, <1>3, <1>6 DEF ClaimOwned, ActionChosen, Chosen, IInv, CallsAccountedFor
<1>11. /\ ~ InState(v.draft, v.act, {"succeeded"})
       /\ InState(v.draft, v.act, {"failed"}) => NoTicketFor(v.act)
  BY <1>1, <1>3, <1>10 DEF InState, Outcomes
<1> QED
  BY <1>1, <1>3, <1>4, <1>6, <1>7, <1>8, <1>9, <1>11, RequestStep

\* The issue a manager named was found.
LEMMA VerifyStep ==
  ASSUME IInv, NEW r \in Requests, Verify(r)
  PROVE  IInv'
<1> DEFINE d == Reconcile(req[r].seen, req[r].act)
           v == [req[r] EXCEPT !.phase = "saving", !.draft = d]
<1>1. req[r] \in RequestRecords /\ req[r].phase = "verifying"
  BY DEF IInv, TypeOK, Verify
<1>2. CopyCurrentOrStale(r) /\ Chosen(r, Dispatched) /\ req[r].op = "reconcile"
  BY <1>1 DEF IInv, RequestsConsistent, ActionChosen
<1>3. d \in Cases
  BY <1>1, <1>2, SucceedFacts DEF RequestRecords, Chosen, Reconcile
<1> HIDE DEF d
<1>4. /\ req' = [req EXCEPT ![r] = v]
      /\ UNCHANGED <<case, expired, posts, issues, dispatched>>
      /\ <<req[r].act, req[r].target>> \in issues
  BY <1>1 DEF Verify, d, IInv, TypeOK, RequestRecords
<1>5. /\ v \in RequestRecords /\ v.phase = "saving" /\ v.op = "reconcile"
      /\ v.act = req[r].act /\ v.target = req[r].target /\ v.seen = req[r].seen /\ v.draft = d
  BY <1>1, <1>2, <1>3 DEF RequestRecords, Phases
<1> HIDE DEF v
<1>6. req'[r] = v
  BY <1>4 DEF IInv, TypeOK
<1>7. CopyCurrentOrStale(r)'
  BY <1>1, <1>2, <1>4, <1>5, <1>6 DEF CopyCurrentOrStale
<1>8. DraftDecided(r)'
  BY <1>4, <1>5, <1>6 DEF DraftDecided, d
<1>9. ActionChosen(r)' /\ ~ Owns(r)'
  BY <1>2, <1>5, <1>6 DEF ActionChosen, Chosen, Owns
<1> QED
  BY <1>4, <1>5, <1>7, <1>8, <1>9, RequestStep

\* The call goes out: the owner of the claim is the only one who can send it,
\* and has not done so before.
LEMMA PostStep ==
  ASSUME IInv, NEW r \in Requests, Post(r)
  PROVE  IInv'
<1> DEFINE a == req[r].act
           p == [by |-> r, act |-> a, target |-> req[r].target]
           v == [req[r] EXCEPT !.phase = "waiting"]
<1>1. /\ req \in [Requests -> RequestRecords] /\ dispatched \in [ActionIds -> Nat]
      /\ posts \subseteq Posts /\ req[r].phase = "claimed" /\ Owns(r)
  BY DEF IInv, TypeOK, Post, Owns
<1>2. Chosen(r, {"executing"}) /\ ClaimOwned(r) /\ CopyCurrentOrStale(r)
  BY <1>1 DEF IInv, RequestsConsistent, ActionChosen
<1>3. a \in ActionIds /\ req[r].target \in Targets /\ dispatched[a] = 0
  BY <1>1, <1>2 DEF Chosen, ClaimOwned
<1>4. NoTicketFor(a) /\ InState(case, a, {"executing"}) /\ case.actions[a].target = req[r].target
  BY <1>1, <1>2, <1>3 DEF ClaimOwned, IInv, CallsAccountedFor, NoTicketFor, InState
<1>5. p \in Posts /\ p.act = a /\ p.target = req[r].target
  BY <1>3 DEF Posts
<1>6. /\ v \in RequestRecords /\ v.phase = "waiting" /\ v.act = a
      /\ v.target = req[r].target /\ v.seen = req[r].seen
  BY <1>1 DEF RequestRecords, Phases
<1>7. /\ posts' = posts \cup {p}
      /\ dispatched'[a] = 1
      /\ \A b \in ActionIds \ {a} : dispatched'[b] = dispatched[b]
      /\ dispatched' \in [ActionIds -> Nat]
      /\ req' = [req EXCEPT ![r] = v]
      /\ UNCHANGED <<case, expired, issues>>
  BY <1>1, <1>3 DEF Post
<1> HIDE DEF p, v
<1>8. /\ req'[r] = v
      /\ \A q \in Requests \ {r} : req'[q] = req[q]
      /\ \A q \in Requests : Owns(q)' => Owns(q) /\ req'[q].act = req[q].act
  BY <1>1, <1>6, <1>7 DEF Owns
<1>9. \A b \in ActionIds \ {a} : NoTicketFor(b) => NoTicketFor(b)'
  BY <1>5, <1>7 DEF NoTicketFor
<1>10. TypeOK'
  BY <1>1, <1>5, <1>6, <1>7 DEF IInv, TypeOK
<1>11. ASSUME NEW q \in Requests \ {r}
       PROVE  /\ CopyCurrentOrStale(q)' /\ DraftDecided(q)' /\ ActionChosen(q)'
              /\ ClaimOwned(q)'
  <2>1. CopyCurrentOrStale(q) /\ DraftDecided(q) /\ ActionChosen(q) /\ ClaimOwned(q)
    BY DEF IInv, RequestsConsistent
  <2>2. req'[q] = req[q] /\ (Owns(q)' <=> Owns(q))
    BY <1>8 DEF Owns
  <2>3. CopyCurrentOrStale(q)' /\ DraftDecided(q)' /\ ActionChosen(q)'
    BY <1>7, <2>1, <2>2 DEF CopyCurrentOrStale, DraftDecided, ActionChosen, Chosen
  <2>4. ASSUME Owns(q) PROVE req[q].act \in ActionIds \ {a}
    BY <1>1, <1>2, <2>1, <2>4 DEF ClaimOwned, ActionChosen, Chosen
  <2>5. ASSUME Owns(q) PROVE ClaimOwned(q)'
    <3>1. PICK b \in ActionIds \ {a} : b = req[q].act
      BY <2>4, <2>5
    <3>2. dispatched'[b] = dispatched[b] /\ (NoTicketFor(b) => NoTicketFor(b)')
      BY <1>7, <1>9
    <3>3. req'[q].act = b
      BY <2>2, <3>1
    <3> QED
      BY <1>7, <1>8, <2>1, <2>2, <2>5, <3>1, <3>2, <3>3 DEF ClaimOwned, NoTicketFor
  <2> QED
    BY <2>2, <2>3, <2>5 DEF ClaimOwned
<1>12. CopyCurrentOrStale(r)' /\ DraftDecided(r)' /\ ActionChosen(r)' /\ ClaimOwned(r)'
  <2>1. CopyCurrentOrStale(r)' /\ DraftDecided(r)'
    BY <1>1, <1>2, <1>6, <1>7, <1>8 DEF CopyCurrentOrStale, DraftDecided
  <2>2. ActionChosen(r)'
    BY <1>2, <1>6, <1>8 DEF ActionChosen, Chosen
  <2>3. ClaimOwned(r)'
    BY <1>1, <1>2, <1>6, <1>7, <1>8 DEF ClaimOwned
  <2> QED
    BY <2>1, <2>2, <2>3
<1>13. CallsAccountedFor'
  <2>1. \A b \in ActionIds :
          /\ dispatched'[b] \in {0, 1}
          /\ InState(case, b, {"absent"} \cup Undispatched)' => dispatched'[b] = 0
          /\ dispatched'[b] = 0 \/ InState(case, b, {"failed"})' => NoTicketFor(b)'
          /\ InState(case, b, {"succeeded"})' => <<b, case.actions[b].target>>' \in issues'
    BY <1>4, <1>7, <1>9 DEF IInv, CallsAccountedFor, InState, Undispatched
  <2>2. \A p1, p2 \in posts' : p1.act = p2.act => p1 = p2
    BY <1>4, <1>5, <1>7 DEF IInv, CallsAccountedFor, NoTicketFor
  <2>3. /\ \A p1 \in posts' : /\ p1.target = case'.actions[p1.act].target
                              /\ \A i \in issues' : i[1] # p1.act
        /\ \A i \in issues' : i[2] = case'.actions[i[1]].target
    BY <1>4, <1>5, <1>7 DEF IInv, CallsAccountedFor, NoTicketFor
  <2> QED
    BY <2>1, <2>2, <2>3 DEF CallsAccountedFor
<1>14. CaseConsistent(case)' /\ UncreatedIsEmpty'
  BY <1>7 DEF IInv, UncreatedIsEmpty
<1> QED
  BY <1>10, <1>11, <1>12, <1>13, <1>14 DEF IInv, RequestsConsistent

\* What the call p on the wire says about its action: it was dispatched, has
\* no issue yet, and no other call could create one.
LEMMA PostOutstanding ==
  ASSUME IInv, NEW p \in posts
  PROVE  /\ p \in Posts
         /\ dispatched[p.act] = 1
         /\ ~ InState(case, p.act, {"absent", "failed"} \cup Undispatched)
         /\ p.target = case.actions[p.act].target
         /\ \A i \in issues : i[1] # p.act
         /\ \A p1 \in posts \ {p} : p1.act # p.act
<1>1. p \in Posts /\ p.act \in ActionIds
  BY DEF IInv, TypeOK, Posts
<1>2. ~ NoTicketFor(p.act)
  BY DEF NoTicketFor
<1>3. dispatched[p.act] = 1 /\ ~ InState(case, p.act, {"failed"})
  BY <1>1, <1>2 DEF IInv, CallsAccountedFor
<1>4. ~ InState(case, p.act, {"absent"} \cup Undispatched)
  <2>1. InState(case, p.act, {"absent"} \cup Undispatched) => dispatched[p.act] = 0
    BY <1>1 DEF IInv, CallsAccountedFor
  <2> QED
    BY <1>3, <2>1
<1>5. ~ InState(case, p.act, {"absent", "failed"} \cup Undispatched)
  BY <1>3, <1>4 DEF InState
<1> QED
  BY <1>1, <1>3, <1>5 DEF IInv, CallsAccountedFor

\* Jira handles a call, whether its sender still waits or not.
LEMMA JiraStep ==
  ASSUME IInv, NEW p \in posts, NEW outcome \in Outcomes, Answered(p, outcome),
         \/ issues' = issues /\ outcome # "confirmed"
         \/ issues' = issues \cup {<<p.act, p.target>>} /\ outcome # "rejected"
  PROVE  IInv'
<1> DEFINE w == p.by
           v == Settled(w, outcome)
<1>1. /\ p \in Posts /\ p.act \in ActionIds /\ p.target \in Targets /\ w \in Requests
      /\ dispatched[p.act] = 1
      /\ p.target = case.actions[p.act].target
      /\ ~ InState(case, p.act, {"absent", "failed"} \cup Undispatched)
      /\ \A i \in issues : i[1] # p.act
      /\ \A p1 \in posts \ {p} : p1.act # p.act
  BY PostOutstanding DEF Posts
<1>2. /\ posts' = posts \ {p}
      /\ req' = [req EXCEPT ![w] = IF Awaits(w, p) THEN v ELSE req[w]]
      /\ UNCHANGED <<case, expired, dispatched>>
      /\ issues \subseteq issues'
      /\ \A i \in issues' \ issues : i = <<p.act, p.target>>
  BY DEF Answered
<1>3. ASSUME Awaits(w, p)
      PROVE  /\ v \in RequestRecords /\ v.phase = "saving" /\ v.op = "outcome"
             /\ v.act = p.act /\ v.target = req[w].target /\ v.seen = req[w].seen
             /\ v.draft = RecordOutcome(req[w].seen, p.act, outcome)
             /\ Owns(w) /\ req[w].act = p.act
             /\ InState(v.draft, p.act, {"succeeded"}) => outcome = "confirmed"
             /\ InState(v.draft, p.act, {"failed"}) => outcome = "rejected"
  <2>1. req[w].phase \in {"claimed", "waiting"} /\ req[w].act = p.act /\ Owns(w)
    BY <1>3 DEF Awaits, Owns
  <2> QED
    BY <1>1, <2>1, SettledFacts DEF InState, Outcomes
<1> HIDE DEF v
<1>4. /\ \A q \in Requests : req'[q] = req[q] \/ (q = w /\ Awaits(w, p) /\ req'[q] = v)
      /\ req \in [Requests -> RequestRecords] /\ req' \in [Requests -> RequestRecords]
  BY <1>1, <1>2, <1>3 DEF IInv, TypeOK
<1>5. TypeOK'
  BY <1>1, <1>2, <1>4 DEF IInv, TypeOK
<1>6. \A q \in Requests : Owns(q)' => Owns(q) /\ req'[q].act = req[q].act
  BY <1>3, <1>4 DEF Owns
<1>7. \A b \in ActionIds \ {p.act} : NoTicketFor(b) => NoTicketFor(b)'
  BY <1>2 DEF NoTicketFor
<1>8. ~ NoTicketFor(p.act)
  BY DEF NoTicketFor
<1>9. ASSUME NEW q \in Requests, req'[q] = req[q]
      PROVE  /\ CopyCurrentOrStale(q)' /\ DraftDecided(q)' /\ ActionChosen(q)'
             /\ ClaimOwned(q)'
  <2>1. CopyCurrentOrStale(q) /\ DraftDecided(q) /\ ActionChosen(q) /\ ClaimOwned(q)
    BY DEF IInv, RequestsConsistent
  <2>2. Owns(q)' <=> Owns(q)
    BY <1>9 DEF Owns
  <2>3. CopyCurrentOrStale(q)' /\ DraftDecided(q)' /\ ActionChosen(q)'
    BY <1>2, <1>9, <2>1, <2>2 DEF CopyCurrentOrStale, DraftDecided, ActionChosen, Chosen
  <2>4. ASSUME Owns(q) PROVE ClaimOwned(q)'
    <3>1. PICK b \in ActionIds : b = req[q].act
      BY <2>1, <2>4 DEF ActionChosen, Chosen
    <3>2. NoTicketFor(b) => NoTicketFor(b)'
      BY <1>7, <1>8
    <3> QED
      BY <1>2, <1>6, <1>9, <2>1, <2>2, <2>4, <3>1, <3>2 DEF ClaimOwned, NoTicketFor
  <2> QED
    BY <2>2, <2>3, <2>4 DEF ClaimOwned
<1>10. ASSUME Awaits(w, p), req'[w] = v
       PROVE  /\ CopyCurrentOrStale(w)' /\ DraftDecided(w)' /\ ActionChosen(w)'
              /\ ClaimOwned(w)'
  <2>1. CopyCurrentOrStale(w) /\ ActionChosen(w) /\ ClaimOwned(w)
    BY <1>1 DEF IInv, RequestsConsistent
  <2>2. CopyCurrentOrStale(w)' /\ DraftDecided(w)' /\ ActionChosen(w)'
    BY <1>2, <1>3, <1>10, <2>1 DEF CopyCurrentOrStale, DraftDecided, ActionChosen, Chosen, Awaits
  <2>3. InState(v.draft, p.act, {"failed"}) => NoTicketFor(p.act)'
    BY <1>1, <1>2, <1>3, <1>10 DEF NoTicketFor
  <2>4. InState(v.draft, p.act, {"succeeded"}) => <<p.act, req[w].target>> \in issues'
    BY <1>1, <1>3, <1>10, <2>1 DEF ClaimOwned
  <2>5. ClaimOwned(w)'
    BY <1>1, <1>2, <1>3, <1>6, <1>10, <2>1, <2>3, <2>4 DEF ClaimOwned, NoTicketFor
  <2> QED
    BY <2>2, <2>5
<1>11. RequestsConsistent'
  BY <1>4, <1>9, <1>10 DEF RequestsConsistent
<1>12. CallsAccountedFor'
  <2>1. \A b \in ActionIds :
          /\ dispatched'[b] \in {0, 1}
          /\ InState(case, b, {"absent"} \cup Undispatched)' => dispatched'[b] = 0
          /\ dispatched'[b] = 0 \/ InState(case, b, {"failed"})' => NoTicketFor(b)'
          /\ InState(case, b, {"succeeded"})' => <<b, case.actions[b].target>>' \in issues'
    BY <1>1, <1>2, <1>7 DEF IInv, CallsAccountedFor, InState
  <2>2. \A p1, p2 \in posts' : p1.act = p2.act => p1 = p2
    BY <1>2 DEF IInv, CallsAccountedFor
  <2>3. /\ \A p1 \in posts' : /\ p1.target = case'.actions[p1.act].target
                              /\ \A i \in issues' : i[1] # p1.act
        /\ \A i \in issues' : i[2] = case'.actions[i[1]].target
    BY <1>1, <1>2 DEF IInv, CallsAccountedFor
  <2> QED
    BY <2>1, <2>2, <2>3 DEF CallsAccountedFor
<1>13. CaseConsistent(case)' /\ UncreatedIsEmpty'
  BY <1>2 DEF IInv, UncreatedIsEmpty
<1> QED
  BY <1>5, <1>11, <1>12, <1>13 DEF IInv

\* What any draft that reaches the store does to it, whichever handler made
\* it: the case stays consistent, no action changes its target, and nobody
\* loses the claim it holds.
Replaces(r, d) ==
  /\ d \in Cases
  /\ d.version = case.version + 1
  /\ CaseConsistent(d)
  /\ \A b \in ActionIds :
       /\ ~ InState(case, b, {"absent"}) => d.actions[b].target = case.actions[b].target
       /\ InState(d, b, {"absent"} \cup Undispatched) => dispatched[b] = 0
       /\ InState(d, b, {"failed"}) => NoTicketFor(b)
       /\ InState(d, b, {"succeeded"}) => <<b, d.actions[b].target>> \in issues
       /\ InState(case, b, {"failed", "succeeded"}) => d.actions[b] = case.actions[b]
  /\ \A q \in Requests \ {r} : Owns(q) =>
       /\ InState(d, req[q].act, {"executing", "succeeded"})
       /\ d.actions[req[q].act].target = case.actions[req[q].act].target

\* The four kinds of draft, each on the copy that is still the stored case.
LEMMA WrittenUpdate ==
  ASSUME IInv, NEW r \in Requests, NEW d, UpdateOf(case, d)
  PROVE  Replaces(r, d)
<1>1. /\ d \in Cases /\ d.version = case.version + 1
      /\ CaseConsistent(d) /\ DispatchUntouched(case, d)
  BY UpdateOfFacts DEF IInv, TypeOK
<1>2. ASSUME NEW b \in ActionIds
      PROVE  /\ InState(case, b, {"succeeded", "failed"} \cup Dispatched) =>
                  d.actions[b] = case.actions[b]
             /\ ~ InState(case, b, {"absent"}) => d.actions[b].target = case.actions[b].target
             /\ InState(case, b, {"absent"} \cup Undispatched) =>
                  InState(d, b, {"absent", "failed"} \cup Undispatched)
             /\ InState(case, b, {"absent"} \cup Undispatched) => dispatched[b] = 0
             /\ dispatched[b] = 0 \/ InState(case, b, {"failed"}) => NoTicketFor(b)
             /\ InState(case, b, {"succeeded"}) => <<b, case.actions[b].target>> \in issues
             /\ case.actions[b].state \in States
  BY <1>1 DEF DispatchUntouched, IInv, CallsAccountedFor, TypeOK, Cases, Actions
<1>3. ASSUME NEW b \in ActionIds
      PROVE  /\ InState(d, b, {"absent"} \cup Undispatched) => dispatched[b] = 0
             /\ InState(d, b, {"failed"}) => NoTicketFor(b)
             /\ InState(d, b, {"succeeded"}) => <<b, d.actions[b].target>> \in issues
             /\ InState(case, b, {"failed", "succeeded"}) => d.actions[b] = case.actions[b]
  <2>1. CASE InState(case, b, {"succeeded", "failed"} \cup Dispatched)
    BY <1>2, <2>1 DEF InState, Dispatched, Undispatched
  <2>2. CASE InState(case, b, {"absent"} \cup Undispatched)
    BY <1>2, <2>2 DEF InState, Undispatched
  <2> QED
    BY <1>2, <2>1, <2>2 DEF InState, States, Unresolved
<1>4. ASSUME NEW q \in Requests \ {r}, Owns(q)
      PROVE  /\ InState(d, req[q].act, {"executing", "succeeded"})
             /\ d.actions[req[q].act].target = case.actions[req[q].act].target
  <2>1. ClaimOwned(q) /\ ActionChosen(q)
    BY DEF IInv, RequestsConsistent
  <2>2. PICK b \in ActionIds : b = req[q].act /\ InState(case, b, {"executing", "succeeded"})
    BY <1>4, <2>1 DEF ClaimOwned, ActionChosen, Chosen
  <2>3. InState(case, b, {"succeeded", "failed"} \cup Dispatched)
    BY <2>2 DEF InState, Dispatched
  <2>4. d.actions[b] = case.actions[b]
    BY <1>2, <2>3
  <2> QED
    BY <2>2, <2>4 DEF InState
<1> QED
  BY <1>1, <1>2, <1>3, <1>4 DEF Replaces

\* A draft that moves one action, which no other request owns unless it moves
\* to success.
LEMMA WrittenMove ==
  ASSUME IInv, NEW r \in Requests, NEW d \in Cases, NEW a \in ActionIds,
         d.version = case.version + 1, CaseConsistent(d),
         NEW s \in {"executing"} \cup SettledStates,
         OnlyStateMoved(case.actions, d.actions, a, s),
         InState(case, a, {"approved"} \cup Dispatched),
         s = "failed" => NoTicketFor(a),
         s = "succeeded" => <<a, case.actions[a].target>> \in issues,
         \A q \in Requests \ {r} : Owns(q) => req[q].act # a \/ s = "succeeded"
  PROVE  Replaces(r, d)
<1>1. /\ d.actions[a].state = s
      /\ d.actions[a].target = case.actions[a].target
      /\ \A b \in ActionIds \ {a} : d.actions[b] = case.actions[b]
  BY DEF OnlyStateMoved
<1>2. s \notin {"absent"} \cup Undispatched
  BY DEF SettledStates, Undispatched
<1>3. ASSUME NEW b \in ActionIds
      PROVE  /\ ~ InState(case, b, {"absent"}) => d.actions[b].target = case.actions[b].target
             /\ InState(d, b, {"absent"} \cup Undispatched) => dispatched[b] = 0
             /\ InState(d, b, {"failed"}) => NoTicketFor(b)
             /\ InState(d, b, {"succeeded"}) => <<b, d.actions[b].target>> \in issues
             /\ InState(case, b, {"failed", "succeeded"}) => d.actions[b] = case.actions[b]
  <2>1. CASE b = a
    BY <1>1, <1>2, <2>1 DEF InState, Dispatched
  <2>2. CASE b # a
    BY <1>1, <2>2 DEF InState, IInv, CallsAccountedFor
  <2> QED
    BY <2>1, <2>2
<1>4. ASSUME NEW q \in Requests \ {r}, Owns(q)
      PROVE  /\ InState(d, req[q].act, {"executing", "succeeded"})
             /\ d.actions[req[q].act].target = case.actions[req[q].act].target
  <2>1. ClaimOwned(q) /\ ActionChosen(q)
    BY DEF IInv, RequestsConsistent
  <2>2. PICK b \in ActionIds : b = req[q].act /\ InState(case, b, {"executing", "succeeded"})
    BY <1>4, <2>1 DEF ClaimOwned, ActionChosen, Chosen
  <2>3. b # a \/ s = "succeeded"
    BY <1>4, <2>2
  <2> QED
    BY <1>1, <2>2, <2>3 DEF InState
<1> QED
  BY <1>3, <1>4 DEF Replaces

\* The draft of a request that may save is a replacement of the stored case.
LEMMA WrittenReplaces ==
  ASSUME IInv, NEW r \in Requests, Written(r)
  PROVE  /\ req[r].seen = case
         /\ Replaces(r, req[r].draft)
         /\ req[r].op = "execute" =>
              /\ Chosen(r, {"approved"})
              /\ OnlyStateMoved(case.actions, req[r].draft.actions, req[r].act, "executing")
<1> DEFINE c == req[r].seen
           d == req[r].draft
           a == req[r].act
<1>1. /\ req[r].phase = "saving" /\ c.version = case.version
      /\ CopyCurrentOrStale(r) /\ DraftDecided(r) /\ ActionChosen(r) /\ ClaimOwned(r)
  BY DEF Written, VersionUnchanged, IInv, RequestsConsistent
<1>2. c = case /\ case \in Cases /\ CaseConsistent(case)
  BY <1>1 DEF CopyCurrentOrStale, IInv, TypeOK
<1>3. req[r].op \in {"update", "execute", "outcome", "reconcile"}
  BY <1>1 DEF DraftDecided
<1>4. CASE req[r].op = "update"
  <2>1. UpdateOf(case, d)
    BY <1>1, <1>2, <1>4 DEF DraftDecided
  <2>2. Replaces(r, d)
    BY <2>1, WrittenUpdate
  <2> QED
    BY <1>2, <1>4, <2>2
<1>5. CASE req[r].op = "execute"
  <2>1. Chosen(r, {"approved"}) /\ d = Claim(case, a)
    BY <1>1, <1>2, <1>5 DEF DraftDecided, ActionChosen
  <2>2. a \in ActionIds /\ InState(case, a, {"approved"})
    BY <1>2, <2>1 DEF Chosen
  <2>3. /\ d \in Cases /\ d.version = case.version + 1 /\ CaseConsistent(d)
        /\ OnlyStateMoved(case.actions, d.actions, a, "executing")
    BY <1>2, <2>1, <2>2, ClaimFacts
  <2>4. /\ \A q \in Requests \ {r} : Owns(q) => req[q].act # a
        /\ "executing" \in {"executing"} \cup SettledStates
        /\ "executing" # "failed" /\ "executing" # "succeeded"
        /\ InState(case, a, {"approved"} \cup Dispatched)
    BY <2>2 DEF IInv, RequestsConsistent, ClaimOwned, InState
  <2> HIDE DEF d, a
  <2>5. Replaces(r, d)
    BY <2>2, <2>3, <2>4, WrittenMove
  <2> QED
    BY <1>2, <2>1, <2>3, <2>5 DEF d, a
<1>6. CASE req[r].op = "outcome"
  <2>1. Owns(r) /\ Chosen(r, {"executing"})
    BY <1>1, <1>6 DEF Owns, ActionChosen
  <2>2. a \in ActionIds /\ InState(case, a, {"executing"})
    BY <1>2, <2>1 DEF Chosen
  <2>3. PICK outcome \in Outcomes : d = RecordOutcome(case, a, outcome)
    BY <1>1, <1>2, <1>6 DEF DraftDecided
  <2>4. d \in Cases /\ d.version = case.version + 1 /\ CaseConsistent(d)
    BY <1>2, <2>2, <2>3, RecordOutcomeTyped, OutcomeFacts
  <2>5. PICK s \in SettledStates : OnlyStateMoved(case.actions, d.actions, a, s)
    BY <1>2, <2>2, <2>3, RecordOutcomeTyped
  <2>6. /\ InState(d, a, {"failed"}) => NoTicketFor(a)
        /\ InState(d, a, {"succeeded"}) => <<a, req[r].target>> \in issues
        /\ case.actions[a].target = req[r].target
        /\ \A q \in Requests \ {r} : Owns(q) => req[q].act # a
    BY <1>1, <2>1 DEF ClaimOwned
  <2>7. /\ s = "failed" => NoTicketFor(a)
        /\ s = "succeeded" => <<a, case.actions[a].target>> \in issues
        /\ InState(case, a, {"approved"} \cup Dispatched)
    BY <2>2, <2>5, <2>6 DEF OnlyStateMoved, InState, Dispatched
  <2> HIDE DEF d, a
  <2>8. Replaces(r, d)
    BY <2>2, <2>4, <2>5, <2>6, <2>7, WrittenMove
  <2> QED
    BY <1>2, <1>6, <2>8 DEF d
<1>7. CASE req[r].op = "reconcile"
  <2>1. /\ Chosen(r, Dispatched) /\ d = Reconcile(case, a)
        /\ <<a, req[r].target>> \in issues
    BY <1>1, <1>2, <1>7 DEF DraftDecided, ActionChosen
  <2>2. /\ a \in ActionIds /\ InState(case, a, Dispatched)
        /\ InState(case, a, {"approved"} \cup Dispatched)
        /\ <<a, case.actions[a].target>> \in issues
    BY <1>2, <2>1 DEF Chosen, InState
  <2>3. /\ d \in Cases /\ d.version = case.version + 1 /\ CaseConsistent(d)
        /\ OnlyStateMoved(case.actions, d.actions, a, "succeeded")
    BY <1>2, <2>1, <2>2, SucceedFacts, SuccessFacts DEF Reconcile
  <2>4. "succeeded" \in {"executing"} \cup SettledStates /\ "succeeded" # "failed"
    BY DEF SettledStates
  <2> HIDE DEF d, a
  <2>5. Replaces(r, d)
    BY <2>2, <2>3, <2>4, WrittenMove
  <2> QED
    BY <1>2, <1>7, <2>5 DEF d
<1> QED
  BY <1>3, <1>4, <1>5, <1>6, <1>7

\* A draft is stored, with or without the handler learning of it; the one that
\* stored a dispatch claim and learns of it now owns the claim.
LEMMA SaveStep ==
  ASSUME IInv, NEW r \in Requests, Save(r) \/ SaveUnacknowledged(r)
  PROVE  IInv'
<1> DEFINE d == req[r].draft
           a == req[r].act
           v == [[req[r] EXCEPT !.phase = "claimed"] EXCEPT !.seen = d]
<1>1. Written(r) /\ case' = d /\ UNCHANGED <<expired, posts, issues, dispatched>>
  BY DEF Save, SaveUnacknowledged, Written
<1>2. /\ req[r].seen = case /\ Replaces(r, d)
      /\ req[r].op = "execute" =>
           Chosen(r, {"approved"}) /\ OnlyStateMoved(case.actions, d.actions, a, "executing")
  BY <1>1, WrittenReplaces
<1>3. Idle \in RequestRecords /\ Idle.phase = "idle"
  BY CreateFacts DEF Idle, RequestRecords, Phases, Ops
<1>4. d \in Cases /\ d.version = case.version + 1 /\ CaseConsistent(d) /\ case \in Cases
      /\ req \in [Requests -> RequestRecords] /\ req[r] \in RequestRecords
  BY <1>2 DEF Replaces, IInv, TypeOK
<1>5. /\ v \in RequestRecords /\ v.phase = "claimed" /\ v.act = a /\ v.op = req[r].op
      /\ v.target = req[r].target /\ v.seen = d
  BY <1>4 DEF RequestRecords, Phases
<1>6. \/ req' = [req EXCEPT ![r] = Idle]
      \/ req[r].op = "execute" /\ req' = [req EXCEPT ![r] = v]
  BY DEF Save, SaveUnacknowledged
<1> HIDE DEF v
<1>7. /\ \A q \in Requests \ {r} : req'[q] = req[q]
      /\ req'[r] = Idle \/ (req[r].op = "execute" /\ req'[r] = v)
      /\ req' \in [Requests -> RequestRecords]
  BY <1>3, <1>4, <1>5, <1>6
<1>8. TypeOK'
  BY <1>1, <1>4, <1>7 DEF IInv, TypeOK
<1>9. \A q \in Requests \ {r} : Owns(q)' <=> Owns(q)
  BY <1>7 DEF Owns
<1>10. ASSUME req[r].op = "execute"
       PROVE  /\ a \in ActionIds /\ req[r].target \in Targets
              /\ InState(case, a, {"approved"}) /\ case.actions[a].target = req[r].target
              /\ d.actions[a].state = "executing" /\ d.actions[a].target = req[r].target
              /\ \A q \in Requests \ {r} : Owns(q) => req[q].act # a
              /\ dispatched[a] = 0
  <2>1. /\ a \in ActionIds /\ req[r].target \in Targets
        /\ InState(case, a, {"approved"}) /\ case.actions[a].target = req[r].target
        /\ d.actions[a].state = "executing" /\ d.actions[a].target = req[r].target
    BY <1>2, <1>10 DEF Chosen, OnlyStateMoved
  <2>2. \A q \in Requests : Owns(q) => InState(case, req[q].act, {"executing", "succeeded"})
    BY DEF IInv, RequestsConsistent, ClaimOwned
  <2>3. dispatched[a] = 0
    <3>1. InState(case, a, {"absent"} \cup Undispatched)
      BY <2>1 DEF InState, Undispatched
    <3> QED
      BY <2>1, <3>1 DEF IInv, CallsAccountedFor
  <2>4. ASSUME NEW q \in Requests, Owns(q) PROVE req[q].act # a
    BY <2>1, <2>2, <2>4 DEF InState
  <2> QED
    BY <2>1, <2>3, <2>4
<1>11. ASSUME NEW q \in Requests \ {r}
       PROVE  /\ CopyCurrentOrStale(q)' /\ DraftDecided(q)' /\ ActionChosen(q)'
              /\ ClaimOwned(q)'
  <2>1. CopyCurrentOrStale(q) /\ DraftDecided(q) /\ ActionChosen(q) /\ ClaimOwned(q)
    BY DEF IInv, RequestsConsistent
  <2>2. req'[q] = req[q] /\ (Owns(q)' <=> Owns(q))
    BY <1>7, <1>9
  <2>3. CopyCurrentOrStale(q)'
    BY <1>1, <1>4, <2>1, <2>2 DEF CopyCurrentOrStale, IInv, TypeOK, RequestRecords, Cases
  <2>4. DraftDecided(q)' /\ ActionChosen(q)'
    BY <1>1, <2>1, <2>2 DEF DraftDecided, ActionChosen, Chosen
  <2>5. ASSUME Owns(q) PROVE ClaimOwned(q)'
    <3>1. /\ InState(d, req[q].act, {"executing", "succeeded"})
          /\ d.actions[req[q].act].target = case.actions[req[q].act].target
      BY <1>2, <2>5 DEF Replaces
    <3>2. \A q1 \in Requests : Owns(q1)' /\ req'[q1].act = req[q].act => q1 = q
      <4>1. ASSUME NEW q1 \in Requests \ {r}, Owns(q1)', req'[q1].act = req[q].act
            PROVE  q1 = q
        BY <1>7, <1>9, <2>1, <2>5, <4>1 DEF ClaimOwned
      <4>2. ~ (Owns(r)' /\ req'[r].act = req[q].act)
        BY <1>3, <1>5, <1>7, <1>10, <2>5 DEF Owns
      <4> QED
        BY <4>1, <4>2
    <3>3. InState(case, req[q].act, {"executing", "succeeded"})' <=>
            InState(d, req[q].act, {"executing", "succeeded"})
      BY <1>1, <2>2 DEF InState
    <3> QED
      BY <1>1, <2>1, <2>2, <2>5, <3>1, <3>2, <3>3 DEF ClaimOwned, NoTicketFor
  <2> QED
    BY <2>2, <2>3, <2>4, <2>5 DEF ClaimOwned
<1>12. CopyCurrentOrStale(r)' /\ DraftDecided(r)' /\ ActionChosen(r)' /\ ClaimOwned(r)'
  <2>1. CASE req'[r] = Idle
    BY <1>3, <2>1 DEF CopyCurrentOrStale, DraftDecided, ActionChosen, ClaimOwned, Owns
  <2>2. CASE req[r].op = "execute" /\ req'[r] = v
    <3>1. CopyCurrentOrStale(r)' /\ DraftDecided(r)'
      BY <1>1, <1>4, <1>5, <2>2 DEF CopyCurrentOrStale, DraftDecided, Cases
    <3>2. ActionChosen(r)'
      BY <1>5, <1>10, <2>2 DEF ActionChosen, Chosen, InState
    <3>3. \A q \in Requests : Owns(q)' /\ req'[q].act = a => q = r
      BY <1>7, <1>9, <1>10, <2>2
    <3>4. ClaimOwned(r)'
      BY <1>1, <1>5, <1>10, <2>2, <3>3 DEF ClaimOwned, InState
    <3> QED
      BY <3>1, <3>2, <3>4
  <2> QED
    BY <1>7, <2>1, <2>2
<1>13. CallsAccountedFor'
  <2>1. ASSUME NEW b \in ActionIds
        PROVE  /\ dispatched[b] \in {0, 1}
               /\ InState(d, b, {"absent"} \cup Undispatched) => dispatched[b] = 0
               /\ dispatched[b] = 0 \/ InState(d, b, {"failed"}) => NoTicketFor(b)
               /\ InState(d, b, {"succeeded"}) => <<b, d.actions[b].target>> \in issues
               /\ dispatched[b] = 1 => d.actions[b].target = case.actions[b].target
    <3>1. dispatched[b] \in {0, 1} /\ (dispatched[b] = 0 => NoTicketFor(b))
      BY DEF IInv, CallsAccountedFor
    <3>2. InState(case, b, {"absent"} \cup Undispatched) => dispatched[b] = 0
      BY DEF IInv, CallsAccountedFor
    <3>3. dispatched[b] = 1 => ~ InState(case, b, {"absent"})
      BY <3>2 DEF InState
    <3> QED
      BY <1>2, <3>1, <3>3 DEF Replaces
  <2>2. \A p \in posts : p.act \in ActionIds /\ d.actions[p.act].target = case.actions[p.act].target
    BY <2>1, PostOutstanding DEF Posts
  <2>3. ASSUME NEW i \in issues
        PROVE  i[1] \in ActionIds /\ d.actions[i[1]].target = case.actions[i[1]].target
    <3>1. i[1] \in ActionIds
      BY DEF IInv, TypeOK
    <3>2. ~ NoTicketFor(i[1])
      BY DEF NoTicketFor
    <3>3. dispatched[i[1]] = 1
      BY <3>1, <3>2 DEF IInv, CallsAccountedFor
    <3> QED
      BY <2>1, <3>1, <3>3
  <2>4. /\ \A p, q \in posts : p.act = q.act => p = q
        /\ \A p \in posts : /\ p.target = case.actions[p.act].target
                            /\ \A i \in issues : i[1] # p.act
        /\ \A i \in issues : i[2] = case.actions[i[1]].target
    BY DEF IInv, CallsAccountedFor
  <2>5. /\ \A p \in posts : p.target = d.actions[p.act].target
        /\ \A i \in issues : i[2] = d.actions[i[1]].target
    BY <2>2, <2>3, <2>4
  <2> HIDE DEF d
  <2> QED
    BY <1>1, <2>1, <2>4, <2>5 DEF CallsAccountedFor, NoTicketFor, InState
<1>14. UncreatedIsEmpty' /\ CaseConsistent(case)'
  BY <1>1, <1>4 DEF UncreatedIsEmpty, Cases
<1> QED
  BY <1>8, <1>11, <1>12, <1>13, <1>14 DEF IInv, RequestsConsistent

\* Time passing changes nothing a request or the case depends on to be
\* consistent: expiry only forbids.
LEMMA ExpireStep ==
  ASSUME IInv, NEW a \in ActionIds, Expire(a)
  PROVE  IInv'
<1>1. UNCHANGED <<case, req, posts, issues, dispatched>> /\ expired' \subseteq ActionIds
  BY DEF Expire, IInv, TypeOK
<1>2. TypeOK'
  BY <1>1 DEF IInv, TypeOK
<1>3. RequestsConsistent'
  BY <1>1 DEF IInv, RequestsConsistent, CopyCurrentOrStale, DraftDecided, ActionChosen, Chosen,
              ClaimOwned, Owns, NoTicketFor
<1>4. CaseConsistent(case)' /\ UncreatedIsEmpty' /\ CallsAccountedFor'
  BY <1>1 DEF IInv, UncreatedIsEmpty, CallsAccountedFor, NoTicketFor
<1> QED
  BY <1>2, <1>3, <1>4 DEF IInv

\* The invariant is inductive: one case per action of a request, of Jira and
\* of the clock.
LEMMA NextIInv == IInv /\ [Next]_vars => IInv'
<1> SUFFICES ASSUME IInv, [Next]_vars PROVE IInv'
  OBVIOUS
<1>1. CASE UNCHANGED vars
  <2>1. UNCHANGED <<case, req, expired, posts, issues, dispatched>>
    BY <1>1 DEF vars
  <2>2. TypeOK'
    BY <2>1 DEF IInv, TypeOK
  <2>3. RequestsConsistent'
    BY <2>1 DEF IInv, RequestsConsistent, CopyCurrentOrStale, DraftDecided, ActionChosen,
                Chosen, ClaimOwned, Owns, NoTicketFor
  <2>4. CaseConsistent(case)' /\ UncreatedIsEmpty' /\ CallsAccountedFor'
    BY <2>1 DEF IInv, UncreatedIsEmpty, CallsAccountedFor, NoTicketFor
  <2> QED
    BY <2>2, <2>3, <2>4 DEF IInv
<1>2. ASSUME NEW r \in Requests, StartMutation(r) PROVE IInv'
  BY <1>2, StartStep
<1>3. ASSUME NEW r \in Requests, ContinueMutation(r) PROVE IInv'
  <2>1. CASE Save(r) \/ SaveUnacknowledged(r)
    BY <2>1, SaveStep
  <2>2. CASE SaveRefused(r) \/ Abandon(r)
    BY <2>2, EndStep DEF SaveRefused, Abandon
  <2>3. CASE Post(r)
    BY <2>3, PostStep
  <2>4. CASE AdapterUnavailable(r) \/ PostFails(r) \/ Timeout(r)
    BY <2>4, UnansweredStep
  <2>5. CASE Verify(r)
    BY <2>5, VerifyStep
  <2> QED
    BY <1>3, <2>1, <2>2, <2>3, <2>4, <2>5 DEF ContinueMutation
<1>4. CASE JiraCreates
  <2>1. PICK p \in posts, outcome \in {"confirmed", "uncertain"} :
           issues' = issues \cup {<<p.act, p.target>>} /\ Answered(p, outcome)
    BY <1>4 DEF JiraCreates
  <2> QED
    BY <2>1, JiraStep DEF Outcomes
<1>5. CASE JiraRefuses
  <2>1. PICK p \in posts, outcome \in {"rejected", "uncertain"} :
           issues' = issues /\ Answered(p, outcome)
    BY <1>5 DEF JiraRefuses
  <2> QED
    BY <2>1, JiraStep DEF Outcomes
<1>6. ASSUME NEW a \in ActionIds, Expire(a) PROVE IInv'
  BY <1>6, ExpireStep
<1> QED
  BY <1>1, <1>2, <1>3, <1>4, <1>5, <1>6 DEF Next

\* The stored case, the requests in flight, the calls on the wire and Jira
\* stay consistent with one another in every reachable state.
THEOREM InductiveInvariant == Spec => []IInv
BY InitIInv, NextIInv, PTL DEF Spec

(***************************************************************************)
(* The properties the runs check, for every value of the constants.        *)
(***************************************************************************)

\* The variables keep the shape of the documents and calls they stand for.
THEOREM TypeCorrect == Spec => []TypeOK
<1>1. IInv => TypeOK
  BY DEF IInv
<1> QED
  BY <1>1, InductiveInvariant, PTL

\* However many execute requests race, crash or retry, an approved action is
\* sent to Jira at most once.
THEOREM DispatchedAtMostOnce == Spec => []AtMostOneDispatch
<1>1. ASSUME IInv, NEW a \in ActionIds PROVE dispatched[a] <= 1
  <2>1. dispatched[a] = 0 \/ dispatched[a] = 1
    BY <1>1 DEF IInv, CallsAccountedFor
  <2> QED
    BY <2>1
<1>2. IInv => AtMostOneDispatch
  BY <1>1 DEF AtMostOneDispatch
<1> QED
  BY <1>2, InductiveInvariant, PTL

\* A failed action has no issue and never will: it is safe to propose another.
THEOREM FailureIsDefinite == Spec => []FailedMeansNoTicket
<1>1. IInv => FailedMeansNoTicket
  BY DEF IInv, CallsAccountedFor, NoTicketFor, FailedMeansNoTicket
<1> QED
  BY <1>1, InductiveInvariant, PTL

\* An action with an issue was dispatched and has not failed.
LEMMA IssueFacts ==
  ASSUME IInv, NEW i \in issues
  PROVE  /\ i = <<i[1], i[2]>> /\ i[1] \in ActionIds /\ i[2] = case.actions[i[1]].target
         /\ ~ InState(case, i[1], {"absent", "failed"} \cup Undispatched)
<1>1. i = <<i[1], i[2]>> /\ i[1] \in ActionIds /\ i[2] = case.actions[i[1]].target
  BY DEF IInv, TypeOK, CallsAccountedFor
<1>2. PICK a \in ActionIds : a = i[1]
  BY <1>1
<1>3. ~ NoTicketFor(a)
  BY <1>2 DEF NoTicketFor
<1>4. dispatched[a] # 0 /\ ~ InState(case, a, {"failed"})
  BY <1>3 DEF IInv, CallsAccountedFor
<1>5. ~ InState(case, a, {"absent"} \cup Undispatched)
  BY <1>4 DEF IInv, CallsAccountedFor
<1> QED
  BY <1>1, <1>2, <1>4, <1>5 DEF InState

\* At most one issue is ever created for a case, through whichever action.
THEOREM CaseHasOneTicket == Spec => []OneTicketPerCase
<1>1. ASSUME IInv, NEW i \in issues, NEW j \in issues PROVE i = j
  <2>1. /\ i = <<i[1], i[2]>> /\ i[1] \in ActionIds /\ i[2] = case.actions[i[1]].target
        /\ ~ InState(case, i[1], {"absent", "failed"} \cup Undispatched)
    BY <1>1, IssueFacts
  <2>2. /\ j = <<j[1], j[2]>> /\ j[1] \in ActionIds /\ j[2] = case.actions[j[1]].target
        /\ ~ InState(case, j[1], {"absent", "failed"} \cup Undispatched)
    BY <1>1, IssueFacts
  <2>3. /\ ~ InState(case, i[1], {"absent", "failed"})
        /\ ~ InState(case, j[1], {"absent", "failed"})
    BY <2>1, <2>2 DEF InState
  <2>4. i[1] = j[1]
    BY <1>1, <2>1, <2>2, <2>3 DEF IInv, CaseConsistent
  <2> QED
    BY <2>1, <2>2, <2>4
<1>2. IInv => OneTicketPerCase
  BY <1>1 DEF OneTicketPerCase
<1> QED
  BY <1>2, InductiveInvariant, PTL

\* Every issue was approved by a manager other than its requester, for the
\* project it is in.
THEOREM TicketsAreApproved == Spec => []TicketWasIndependentlyApproved
<1>1. ASSUME IInv, NEW i \in issues
      PROVE  /\ case.actions[i[1]].approver \in Managers \ {case.actions[i[1]].requester}
             /\ case.actions[i[1]].target = i[2]
  <2>1. PICK a \in ActionIds : a = i[1]
    BY <1>1, IssueFacts
  <2>2. case.actions[a].state \in States
    BY <1>1 DEF IInv, TypeOK, Cases, Actions
  <2>3. InState(case, a, {"approved", "succeeded"} \cup Dispatched)
    BY <1>1, <2>1, <2>2, IssueFacts DEF InState, States, Unresolved
  <2> QED
    BY <1>1, <2>1, <2>3, IssueFacts DEF IInv, CaseConsistent
<1>2. IInv => TicketWasIndependentlyApproved
  BY <1>1 DEF TicketWasIndependentlyApproved
<1> QED
  BY <1>2, InductiveInvariant, PTL

\* A resolved case has nothing open, whatever raced with its resolution.
THEOREM ResolvedIsClean == Spec => []ResolvedHasNothingOpen
<1>1. IInv => ResolvedHasNothingOpen
  BY DEF IInv, CaseConsistent, ResolvedHasNothingOpen
<1> QED
  BY <1>1, InductiveInvariant, PTL

\* The case awaits approval exactly while an approval is open.
THEOREM ApprovalLocksTheCase == Spec => []AwaitingIffApprovalOpen
<1>1. IInv => AwaitingIffApprovalOpen
  BY DEF IInv, CaseConsistent, AwaitingIffApprovalOpen
<1> QED
  BY <1>1, InductiveInvariant, PTL

\* The ticket recorded on the case is that of its succeeded action, in Jira.
THEOREM TicketsAreReal == Spec => []RecordedTicketExists
<1>1. ASSUME IInv, NEW a \in ActionIds
      PROVE  /\ case.ticket = a <=> InState(case, a, {"succeeded"})
             /\ case.ticket = a => <<a, case.actions[a].target>> \in issues
  BY <1>1 DEF IInv, CaseConsistent, CallsAccountedFor
<1>2. IInv => RecordedTicketExists
  BY <1>1 DEF RecordedTicketExists
<1> QED
  BY <1>2, InductiveInvariant, PTL

\* The stored case changes only when a request stores its draft.
LEMMA OnlyWritesChangeTheCase ==
  ASSUME [Next]_vars, case' # case
  PROVE  \E r \in Requests : Written(r) /\ case' = req[r].draft
BY DEF Next, vars, StartMutation, ContinueMutation, StartCreate, StartUpdate, StartNote,
       StartRefreshEvidence, StartPropose, StartRequestApproval, StartApprove, StartCancel,
       StartExecute, StartReconcile, LoadedUpdate, Loaded, Save, SaveUnacknowledged, Written,
       SaveRefused, Post, AdapterUnavailable, PostFails, Timeout, Verify, Abandon, JiraCreates, JiraRefuses,
       Answered, Expire

\* Writes are serialized by the version: each replaces exactly the case its
\* handler read.
THEOREM WritesAreSerialized == Spec => SerializedUpdates
<1>1. ASSUME IInv, [Next]_vars, case' # case
      PROVE  /\ case'.version = case.version + 1
             /\ \E r \in Requests :
                  req[r].phase = "saving" /\ req[r].seen = case /\ req[r].draft = case'
  <2>1. PICK r \in Requests : Written(r) /\ case' = req[r].draft
    BY <1>1, OnlyWritesChangeTheCase
  <2>2. req[r].seen = case /\ Replaces(r, req[r].draft)
    BY <1>1, <2>1, WrittenReplaces
  <2> QED
    BY <2>1, <2>2 DEF Written, Replaces
<1>2. IInv /\ [Next]_vars =>
        [ /\ case'.version = case.version + 1
          /\ \E r \in Requests :
               req[r].phase = "saving" /\ req[r].seen = case /\ req[r].draft = case' ]_case
  BY <1>1
<1> QED
  BY <1>2, InductiveInvariant, PTL DEF Spec, SerializedUpdates

\* What is settled stays settled.
THEOREM SettlementIsFinal == Spec => SettledActionsStay
<1>1. ASSUME IInv, [Next]_vars, case' # case, NEW a \in ActionIds,
             InState(case, a, {"failed", "succeeded"})
      PROVE  case'.actions[a] = case.actions[a]
  <2>1. PICK r \in Requests : Written(r) /\ case' = req[r].draft
    BY <1>1, OnlyWritesChangeTheCase
  <2>2. Replaces(r, req[r].draft)
    BY <1>1, <2>1, WrittenReplaces
  <2> QED
    BY <1>1, <2>1, <2>2 DEF Replaces
<1>2. IInv /\ [Next]_vars =>
        [\A a \in ActionIds :
           InState(case, a, {"failed", "succeeded"}) => case'.actions[a] = case.actions[a]]_case
  BY <1>1
<1> QED
  BY <1>2, InductiveInvariant, PTL DEF Spec, SettledActionsStay

(***************************************************************************)
(* Expiry.  What a handler decides on an expired action does not advance   *)
(* it, and nothing that happens to a request later makes its draft do so.  *)
(***************************************************************************)

\* d leaves a where it is in c, or takes it where no ticket can come of it.
Rests(c, d, a) == d.actions[a].state = c.actions[a].state \/ ~ InState(d, a, Advanced)

LEMMA MoveRests ==
  ASSUME NEW c \in Cases, NEW d, NEW a \in ActionIds, NEW b \in ActionIds, NEW state,
         OnlyStateMoved(c.actions, d.actions, b, state), a # b \/ state \notin Advanced
  PROVE  Rests(c, d, a)
BY DEF OnlyStateMoved, Rests, InState

LEMMA LoadedRests ==
  ASSUME IInv, NEW r \in Requests, NEW a, NEW op, NEW act, NEW target, NEW draft,
         Loaded(r, op, act, target, draft), Rests(case, draft, a)
  PROVE  ~ Advances(r, a)'
<1>1. req'[r].seen = case /\ req'[r].draft = draft
  BY DEF Loaded, IInv, TypeOK
<1> QED
  BY <1>1 DEF Advances, Rests, InState

LEMMA StartRests ==
  ASSUME IInv, NEW r \in Requests, StartMutation(r), NEW a \in expired
  PROVE  ~ Advances(r, a)'
<1>1. case \in Cases /\ UncreatedIsEmpty /\ a \in ActionIds
  BY DEF IInv, TypeOK
<1>2. ASSUME NEW draft, LoadedUpdate(r, draft), Rests(case, draft, a)
      PROVE  ~ Advances(r, a)'
  BY <1>2, LoadedRests DEF LoadedUpdate
<1>3. CASE StartCreate(r)
  <2>1. Loaded(r, "update", None, None, Create) /\ case = NewCase
    BY <1>1, <1>3 DEF StartCreate, Stored, UncreatedIsEmpty, Cases
  <2>2. Rests(case, Create, a)
    BY <2>1, CreateFacts DEF Rests, NewCase
  <2> QED
    BY <2>1, <2>2, LoadedRests
<1>4. CASE StartUpdate(r)
  <2>1. PICK s \in Statuses : MayUpdate(case, s) /\ LoadedUpdate(r, Update(case, s))
    BY <1>4 DEF StartUpdate
  <2>2. Rests(case, Update(case, s), a)
    BY <1>1, <2>1, UpdateFacts DEF Rests
  <2> QED
    BY <1>2, <2>1, <2>2
<1>5. CASE StartNote(r)
  <2>1. Rests(case, AddNote(case), a)
    BY <1>1, StampedFacts DEF Rests, AddNote
  <2> QED
    BY <1>2, <1>5, <2>1 DEF StartNote
<1>6. CASE StartRefreshEvidence(r)
  <2>1. PICK outcome \in QueryOutcomes : LoadedUpdate(r, RefreshEvidence(case, outcome))
    BY <1>6 DEF StartRefreshEvidence
  <2>2. Rests(case, RefreshEvidence(case, outcome), a)
    BY <1>1, <2>1, RefreshEvidenceFacts DEF Rests
  <2> QED
    BY <1>2, <2>1, <2>2
<1>7. CASE StartPropose(r)
  <2>1. PICK b \in ActionIds, u \in Users, target \in Targets :
           LoadedUpdate(r, Propose(case, b, u, target))
    BY <1>7 DEF StartPropose
  <2> DEFINE proposal == [state |-> "proposed", requester |-> u, target |-> target,
                          approver |-> None]
             d == Propose(case, b, u, target)
  <2>2. d.actions = [case.actions EXCEPT ![b] = proposal]
    BY <1>1, ProposeActions
  <2>3. case.actions \in [ActionIds -> Actions] /\ proposal.state \notin Advanced
    BY <1>1 DEF Cases, Advanced
  <2> HIDE DEF proposal, d
  <2>4. d.actions[a] = (IF a = b THEN proposal ELSE case.actions[a])
    BY <1>1, <2>2, <2>3
  <2>5. Rests(case, d, a)
    BY <2>3, <2>4 DEF Rests, InState
  <2> QED
    BY <1>2, <2>1, <2>5 DEF d
<1>8. CASE StartRequestApproval(r)
  <2>1. PICK b \in ActionIds, u \in Users :
           MayRequestApproval(case, b, u, expired) /\ LoadedUpdate(r, RequestApproval(case, b))
    BY <1>8 DEF StartRequestApproval
  <2>2. b # a /\ "pending_approval" \in States /\ "awaiting_approval" \in Statuses
    BY <2>1 DEF MayRequestApproval, States, Unresolved, Undispatched, Statuses
  <2>3. Rests(case, RequestApproval(case, b), a)
    BY <1>1, <2>2, MoveFacts, MoveRests DEF RequestApproval
  <2> QED
    BY <1>2, <2>1, <2>3
<1>9. CASE StartApprove(r)
  <2>1. PICK b \in ActionIds, u \in Users :
           MayApprove(case, b, u, expired) /\ LoadedUpdate(r, Approve(case, b, u))
    BY <1>9 DEF StartApprove
  <2>2. b # a /\ case.actions \in [ActionIds -> Actions]
    BY <1>1, <2>1 DEF MayApprove, Cases
  <2> DEFINE d == Approve(case, b, u)
  <2>3. d.actions = [case.actions EXCEPT ![b].state = "approved", ![b].approver = u]
    BY <1>1, ApproveActions
  <2> HIDE DEF d
  <2>4. d.actions[a] = case.actions[a]
    BY <1>1, <2>2, <2>3
  <2> QED
    BY <1>2, <2>1, <2>4 DEF Rests, d
<1>10. CASE StartCancel(r)
  <2>1. PICK b \in ActionIds, u \in Users : LoadedUpdate(r, Cancel(case, b))
    BY <1>10 DEF StartCancel
  <2>2. "failed" \in States /\ "investigating" \in Statuses /\ "failed" \notin Advanced
    BY DEF States, Statuses, Advanced
  <2>3. Rests(case, Cancel(case, b), a)
    BY <1>1, <2>2, MoveFacts, MoveRests DEF Cancel
  <2> QED
    BY <1>2, <2>1, <2>3
<1>11. CASE StartExecute(r)
  <2>1. PICK b \in ActionIds, u \in Users, target \in Targets :
           MayExecute(case, b, u, target, expired) /\ Loaded(r, "execute", b, target, Claim(case, b))
    BY <1>11 DEF StartExecute
  <2>2. b # a /\ OnlyStateMoved(case.actions, Claim(case, b).actions, b, "executing")
    BY <2>1, ClaimFacts DEF MayExecute, IInv, TypeOK
  <2>3. Rests(case, Claim(case, b), a)
    BY <1>1, <2>2, MoveRests
  <2> QED
    BY <2>1, <2>3, LoadedRests
<1>12. CASE StartReconcile(r)
  <2>1. req'[r].phase = "verifying"
    BY <1>12 DEF StartReconcile, IInv, TypeOK
  <2> QED
    BY <2>1 DEF Advances
<1> QED
  BY <1>3, <1>4, <1>5, <1>6, <1>7, <1>8, <1>9, <1>10, <1>11, <1>12 DEF StartMutation

\* Neither the outcome of a call nor a reconciliation advances an action.
LEMMA SettledRests ==
  ASSUME IInv, NEW r \in Requests, NEW outcome \in Outcomes, NEW a \in ActionIds,
         req[r].phase \in {"claimed", "waiting"}, req'[r] = Settled(r, outcome)
  PROVE  ~ Advances(r, a)'
<1> DEFINE c == req[r].seen
           d == RecordOutcome(c, req[r].act, outcome)
<1>1. Chosen(r, {"executing"}) /\ c \in Cases
  BY DEF IInv, TypeOK, RequestsConsistent, ActionChosen, Owns, RequestRecords
<1>2. PICK s \in SettledStates : OnlyStateMoved(c.actions, d.actions, req[r].act, s)
  BY <1>1, RecordOutcomeTyped DEF Chosen
<1>3. s \notin Advanced
  BY DEF SettledStates, Advanced
<1>4. Rests(c, d, a)
  BY <1>1, <1>2, <1>3, MoveRests DEF Chosen
<1>5. req'[r].seen = c /\ req'[r].draft = d
  BY SettledFacts
<1> QED
  BY <1>4, <1>5 DEF Advances, Rests, InState

LEMMA VerifyRests ==
  ASSUME IInv, NEW r \in Requests, Verify(r), NEW a \in ActionIds
  PROVE  ~ Advances(r, a)'
<1> DEFINE c == req[r].seen
           d == Reconcile(c, req[r].act)
<1>1. req[r] \in RequestRecords /\ req[r].phase = "verifying" /\ Chosen(r, Dispatched)
  BY DEF IInv, TypeOK, Verify, RequestsConsistent, ActionChosen
<1>2. c \in Cases /\ OnlyStateMoved(c.actions, d.actions, req[r].act, "succeeded")
  BY <1>1, SucceedFacts DEF RequestRecords, Chosen, Reconcile
<1> HIDE DEF d
<1>3. Rests(c, d, a)
  <2>1. "succeeded" \notin Advanced /\ req[r].act \in ActionIds
    BY <1>1 DEF Chosen, Advanced
  <2> QED
    BY <1>2, <2>1, MoveRests
<1>4. req'[r].seen = c /\ req'[r].draft = d
  BY <1>1 DEF Verify, IInv, TypeOK, RequestRecords, d
<1> QED
  BY <1>3, <1>4 DEF Advances, Rests, InState

\* What can happen to the record of one request.
LEMMA RecordChanges ==
  ASSUME IInv, [Next]_vars, NEW r \in Requests, req'[r] # req[r]
  PROVE  \/ StartMutation(r) \/ Verify(r)
         \/ req'[r].phase # "saving"
         \/ /\ req[r].phase \in {"claimed", "waiting"}
            /\ \E outcome \in Outcomes : req'[r] = Settled(r, outcome)
<1>1. req \in [Requests -> RequestRecords]
  BY DEF IInv, TypeOK
<1>2. ASSUME NEW q \in Requests, StartMutation(q)
      PROVE  StartMutation(r)
  <2>1. \A x \in Requests \ {q} : req'[x] = req[x]
    BY <1>1, <1>2 DEF StartMutation, StartCreate, StartUpdate, StartNote, StartRefreshEvidence,
       StartPropose, StartRequestApproval, StartApprove, StartCancel, StartExecute,
       StartReconcile, LoadedUpdate, Loaded
  <2> QED
    BY <1>2, <2>1
<1>3. ASSUME NEW q \in Requests, ContinueMutation(q), q # r
      PROVE  FALSE
  BY <1>1, <1>3 DEF ContinueMutation, Save, SaveUnacknowledged, SaveRefused, Post,
     AdapterUnavailable, PostFails, Timeout, Verify, Abandon
<1>4. ASSUME ContinueMutation(r), ~ Verify(r)
      PROVE  \/ req'[r].phase # "saving"
             \/ /\ req[r].phase \in {"claimed", "waiting"}
                /\ \E outcome \in Outcomes : req'[r] = Settled(r, outcome)
  <2>1. CASE Save(r) \/ SaveUnacknowledged(r) \/ SaveRefused(r) \/ Abandon(r)
    <3>1. Idle.phase # "saving"
      BY DEF Idle
    <3>2. CASE SaveUnacknowledged(r) \/ SaveRefused(r) \/ Abandon(r)
      BY <1>1, <3>1, <3>2 DEF SaveUnacknowledged, SaveRefused, Abandon
    <3>3. CASE Save(r)
      <4>1. CASE req[r].op = "execute"
        <5>1. req'[r] = [req[r] EXCEPT !.phase = "claimed", !.seen = req[r].draft]
          BY <1>1, <3>3, <4>1 DEF Save
        <5> QED
          BY <1>1, <5>1 DEF RequestRecords
      <4>2. CASE req[r].op # "execute"
        BY <1>1, <3>1, <3>3, <4>2 DEF Save
      <4> QED
        BY <4>1, <4>2
    <3> QED
      BY <2>1, <3>2, <3>3
  <2>2. CASE Post(r)
    BY <1>1, <2>2 DEF Post, RequestRecords
  <2>3. CASE AdapterUnavailable(r) \/ PostFails(r) \/ Timeout(r)
    BY <1>1, <2>3 DEF AdapterUnavailable, PostFails, Timeout, Outcomes
  <2> QED
    BY <1>4, <2>1, <2>2, <2>3 DEF ContinueMutation
<1>5. ASSUME NEW p \in posts, NEW outcome \in Outcomes, Answered(p, outcome)
      PROVE  req[r].phase = "waiting" /\ req'[r] = Settled(r, outcome)
  BY <1>1, <1>5 DEF Answered, Awaits
<1>6. CASE Next
  BY <1>2, <1>3, <1>4, <1>5, <1>6 DEF Next, JiraCreates, JiraRefuses, Outcomes, Expire
<1>7. CASE UNCHANGED vars
  BY <1>7 DEF vars
<1> QED
  BY <1>6, <1>7

\* After its hour an action advances only by what was decided before.
THEOREM ExpiredIsNotAdvanced == Spec => ExpiredActionsRest
<1>1. ASSUME IInv, [Next]_vars, NEW a \in expired, NEW r \in Requests, Advances(r, a)'
      PROVE  Advances(r, a)
  <2>1. a \in ActionIds
    BY <1>1 DEF IInv, TypeOK
  <2>2. CASE req'[r] = req[r]
    BY <1>1, <2>2 DEF Advances, InState
  <2>3. CASE req'[r] # req[r]
    <3>1. req'[r].phase = "saving"
      BY <1>1 DEF Advances
    <3> QED
      BY <1>1, <2>1, <2>3, <3>1, RecordChanges, StartRests, VerifyRests, SettledRests
  <2> QED
    BY <2>2, <2>3
<1>2. ASSUME IInv, [Next]_vars, NEW a \in expired,
             case'.actions[a].state # case.actions[a].state, InState(case', a, Advanced)
      PROVE  \E r \in Requests : Advances(r, a)
  <2>1. PICK r \in Requests : Written(r) /\ case' = req[r].draft
    BY <1>2, OnlyWritesChangeTheCase
  <2>2. req[r].seen = case /\ req[r].phase = "saving"
    BY <1>2, <2>1, WrittenReplaces DEF Written
  <2> QED
    BY <1>2, <2>1, <2>2 DEF Advances
<1>3. IInv /\ [Next]_vars =>
        [\A a \in expired :
           /\ \A r \in Requests : Advances(r, a)' => Advances(r, a)
           /\ case'.actions[a].state # case.actions[a].state /\ InState(case', a, Advanced)
                => \E r \in Requests : Advances(r, a)]_vars
  BY <1>1, <1>2
<1> QED
  BY <1>3, InductiveInvariant, PTL DEF Spec, ExpiredActionsRest

(***************************************************************************)
(* IncidentCase implements GovernedTicket.                                 *)
(***************************************************************************)

\* A write that changes neither status, actions nor issues is no step of the
\* abstract specification.
AbstractStep == Abstract!Next \/ UNCHANGED Abstract!vars

\* Moving an action is the abstract move between the same states.
LEMMA MoveRefines ==
  ASSUME NEW c \in Cases, c = case, NEW a \in ActionIds, NEW state \in States,
         NEW s \in Statuses, case' = Move(case, a, state, s), NEW from,
         case.actions[a].state \in from, issues' = issues
  PROVE  Abstract!Moves(a, from, state, s)
<1>1. case'.actions = WithState(case.actions, a, state) /\ case'.status = s
  BY MoveActions, MoveFacts
<1> QED
  BY <1>1 DEF Abstract!Moves, WithState

\* Success refines the abstract success: the issue is known to exist.
LEMMA SuccessRefines ==
  ASSUME IInv, NEW a \in ActionIds, case' = Succeed(case, a), InState(case, a, Dispatched),
         <<a, case.actions[a].target>> \in issues, issues' = issues
  PROVE  AbstractStep
<1>1. /\ case'.actions = WithState(case.actions, a, "succeeded")
      /\ case'.status = "mitigating"
  BY SucceedActions, SucceedFacts DEF IInv, TypeOK
<1>2. Abstract!Moves(a, Abstract!Dispatched, "succeeded", "mitigating")
  BY <1>1 DEF Abstract!Moves, WithState, InState, Dispatched, Abstract!Dispatched
<1>3. Abstract!Succeed(a)
  BY <1>2 DEF Abstract!Succeed, Abstract!Holds
<1> QED
  BY <1>3 DEF AbstractStep, Abstract!Next

\* Every single-write handler performs an abstract step or none.
LEMMA UpdateRefines ==
  ASSUME IInv, UpdateOf(case, case'), issues' = issues
  PROVE  AbstractStep
<1>1. case \in Cases /\ CaseConsistent(case)
  BY DEF IInv, TypeOK
<1>2. ASSUME case'.status = case.status, case'.actions = case.actions
      PROVE  AbstractStep
  BY <1>2 DEF AbstractStep, Abstract!vars
<1>3. CASE case = NewCase /\ case' = Create
  <2>1. /\ case.status = "open" /\ case.actions = [a \in ActionIds |-> NoAction]
        /\ case'.status = "open" /\ case'.actions = [a \in ActionIds |-> NoAction]
    BY <1>3, CreateFacts DEF NewCase
  <2> QED
    BY <1>2, <2>1
<1>4. CASE \E s \in Statuses : MayUpdate(case, s) /\ case' = Update(case, s)
  <2>1. PICK s \in Statuses : MayUpdate(case, s) /\ case' = Update(case, s)
    BY <1>4
  <2>2. case'.status = s /\ case'.actions = case.actions
    BY <1>1, <2>1, UpdateFacts
  <2>3. case.status # "awaiting_approval" /\ s \in {"investigating", "resolved"}
    BY <1>1, <2>1 DEF MayUpdate, Transitions, Statuses, Cases
  <2>4. s = "resolved" => \A a \in ActionIds :
           case.actions[a].state \notin Abstract!Undispatched \cup Abstract!Dispatched
    BY <2>1 DEF MayUpdate, InState, Unresolved, Undispatched, Dispatched,
                Abstract!Undispatched, Abstract!Dispatched
  <2>5. Abstract!MoveCase(s)
    BY <2>2, <2>3, <2>4 DEF Abstract!MoveCase
  <2> QED
    BY <2>3, <2>5 DEF AbstractStep, Abstract!Next
<1>5. CASE case' = AddNote(case)
  BY <1>1, <1>2, <1>5, StampedFacts DEF AddNote
<1>6. CASE \E outcome \in QueryOutcomes : case' = RefreshEvidence(case, outcome)
  BY <1>1, <1>2, <1>6, RefreshEvidenceFacts
<1>7. CASE \E a \in ActionIds, u \in Users, target \in Targets :
             MayPropose(case, a, ActionIds) /\ case' = Propose(case, a, u, target)
  <2>1. PICK a \in ActionIds, u \in Users, target \in Targets :
           MayPropose(case, a, ActionIds) /\ case' = Propose(case, a, u, target)
    BY <1>7
  <2>2. \A b \in ActionIds : case.actions[b].state \in {"absent", "failed"}
    BY <1>1, <2>1, ProposedAlone DEF InState
  <2>3. case.actions[a].state = "absent"
    BY <2>1 DEF MayPropose, InState
  <2>4. case'.actions = [case.actions EXCEPT ![a] = [state |-> "proposed", requester |-> u,
                                                     target |-> target, approver |-> None]]
    BY <1>1, <2>1, ProposeActions
  <2>5. case'.status = "investigating"
    BY <1>1, <2>1, ProposeFacts
  <2>6. Abstract!Propose(a)
    BY <2>2, <2>3, <2>4, <2>5 DEF Abstract!Propose
  <2> QED
    BY <2>6 DEF AbstractStep, Abstract!Next
<1>8. CASE \E a \in ActionIds, u \in Users :
             MayRequestApproval(case, a, u, {}) /\ case' = RequestApproval(case, a)
  <2>1. PICK a \in ActionIds : InState(case, a, {"proposed"}) /\ case' = RequestApproval(case, a)
    BY <1>8 DEF MayRequestApproval
  <2>2. "pending_approval" \in States /\ "awaiting_approval" \in Statuses
    BY DEF States, Unresolved, Undispatched, Statuses
  <2>3. Abstract!RequestApproval(a)
    BY <1>1, <2>1, <2>2, MoveRefines DEF RequestApproval, InState, Abstract!RequestApproval
  <2> QED
    BY <2>3 DEF AbstractStep, Abstract!Next
<1>9. CASE \E a \in ActionIds, u \in Users : MayApprove(case, a, u, {}) /\ case' = Approve(case, a, u)
  <2>1. PICK a \in ActionIds, u \in Users :
           MayApprove(case, a, u, {}) /\ case' = Approve(case, a, u)
    BY <1>9
  <2>2. case'.actions = [case.actions EXCEPT ![a].state = "approved", ![a].approver = u]
    BY <1>1, <2>1, ApproveActions
  <2>3. case'.status = case.status
    BY <1>1, <2>1, ApproveFacts
  <2>4. case.actions[a].state = "pending_approval" /\ u \in Managers \ {case.actions[a].requester}
    BY <2>1 DEF MayApprove, InState
  <2>5. Abstract!Approve(a)
    BY <2>2, <2>3, <2>4 DEF Abstract!Approve
  <2> QED
    BY <2>5 DEF AbstractStep, Abstract!Next
<1>10. CASE \E a \in ActionIds, u \in Users : MayCancel(case, a, u) /\ case' = Cancel(case, a)
  <2>1. PICK a \in ActionIds : InState(case, a, Undispatched) /\ case' = Cancel(case, a)
    BY <1>10 DEF MayCancel
  <2>2. "failed" \in States /\ "investigating" \in Statuses
    BY DEF States, Statuses
  <2>3. case.actions[a].state \in Abstract!Undispatched
    BY <2>1 DEF InState, Undispatched, Abstract!Undispatched
  <2>4. Abstract!Cancel(a)
    BY <1>1, <2>1, <2>2, <2>3, MoveRefines DEF Cancel, Abstract!Cancel
  <2> QED
    BY <2>4 DEF AbstractStep, Abstract!Next
<1> QED
  BY <1>3, <1>4, <1>5, <1>6, <1>7, <1>8, <1>9, <1>10 DEF UpdateOf

\* A stored draft is an abstract step or none.
LEMMA WrittenRefines ==
  ASSUME IInv, NEW r \in Requests, Written(r), issues' = issues
  PROVE  AbstractStep
<1> DEFINE d == req[r].draft
           a == req[r].act
<1>1. /\ req[r].phase = "saving" /\ req[r].seen = case /\ case' = d
      /\ case \in Cases /\ CaseConsistent(case)
      /\ DraftDecided(r) /\ ActionChosen(r) /\ ClaimOwned(r)
  BY WrittenReplaces DEF Written, IInv, TypeOK, RequestsConsistent
<1>2. req[r].op \in {"update", "execute", "outcome", "reconcile"}
  BY <1>1 DEF DraftDecided
<1>3. CASE req[r].op = "update"
  <2>1. UpdateOf(case, case')
    BY <1>1, <1>3 DEF DraftDecided
  <2> QED
    BY <2>1, UpdateRefines
<1>4. CASE req[r].op = "execute"
  <2>1. /\ a \in ActionIds /\ InState(case, a, {"approved"})
        /\ case' = Claim(case, a)
    BY <1>1, <1>4 DEF DraftDecided, ActionChosen, Chosen
  <2>2. "executing" \in States /\ "mitigating" \in Statuses
    BY DEF States, Unresolved, Dispatched, Statuses
  <2> HIDE DEF a
  <2>3. Abstract!Claim(a)
    BY <1>1, <2>1, <2>2, MoveRefines DEF Claim, InState, Abstract!Claim
  <2> QED
    BY <2>1, <2>3 DEF AbstractStep, Abstract!Next
<1>5. CASE req[r].op = "outcome"
  <2>1. PICK outcome \in Outcomes : case' = RecordOutcome(case, a, outcome)
    BY <1>1, <1>5 DEF DraftDecided
  <2>2. /\ a \in ActionIds /\ InState(case, a, {"executing"}) /\ Owns(r)
        /\ case.actions[a].target = req[r].target
        /\ InState(case', a, {"failed"}) => NoTicketFor(a)
        /\ InState(case', a, {"succeeded"}) => <<a, req[r].target>> \in issues
    BY <1>1, <1>5 DEF ActionChosen, Chosen, ClaimOwned, Owns
  <2>3. /\ outcome = "confirmed" => InState(case', a, {"succeeded"})
        /\ outcome = "rejected" => InState(case', a, {"failed"})
    BY <1>1, <2>1, <2>2, RecordOutcomeTyped DEF InState
  <2>4. /\ {"failed", "outcome_uncertain"} \subseteq States
        /\ "investigating" \in Statuses /\ case.status \in Statuses
    BY <1>1 DEF States, Unresolved, Dispatched, Statuses, Cases
  <2> HIDE DEF a
  <2>5. CASE outcome = "confirmed"
    <3>1. InState(case, a, Dispatched) /\ <<a, case.actions[a].target>> \in issues
      BY <2>2, <2>3, <2>5 DEF InState, Dispatched
    <3> QED
      BY <2>1, <2>2, <2>5, <3>1, SuccessRefines DEF RecordOutcome
  <2>6. CASE outcome = "rejected"
    <3>1. Abstract!Moves(a, {"executing"}, "failed", "investigating")
      BY <1>1, <2>1, <2>2, <2>4, <2>6, MoveRefines DEF RecordOutcome, InState
    <3>2. ~ Abstract!Holds(a)
      BY <2>2, <2>3, <2>6 DEF NoTicketFor, Abstract!Holds
    <3>3. Abstract!Reject(a)
      BY <3>1, <3>2 DEF Abstract!Reject
    <3> QED
      BY <2>2, <3>3 DEF AbstractStep, Abstract!Next
  <2>7. CASE outcome = "uncertain"
    <3>1. case' = Move(case, a, "outcome_uncertain", case.status)
      BY <2>1, <2>7 DEF RecordOutcome
    <3>2. Abstract!Moves(a, {"executing"}, "outcome_uncertain", case.status)
      BY <1>1, <2>2, <2>4, <3>1, MoveRefines DEF InState
    <3>3. Abstract!LeaveUncertain(a)
      BY <3>2 DEF Abstract!Moves, Abstract!LeaveUncertain
    <3> QED
      BY <2>2, <3>3 DEF AbstractStep, Abstract!Next
  <2> QED
    BY <2>5, <2>6, <2>7 DEF Outcomes
<1>6. CASE req[r].op = "reconcile"
  <2>1. /\ a \in ActionIds /\ InState(case, a, Dispatched)
        /\ case' = Succeed(case, a) /\ <<a, case.actions[a].target>> \in issues
    BY <1>1, <1>6 DEF DraftDecided, ActionChosen, Chosen, Reconcile
  <2> HIDE DEF a
  <2> QED
    BY <2>1, SuccessRefines
<1> QED
  BY <1>2, <1>3, <1>4, <1>5, <1>6

\* Jira creating an issue is the abstract creation of the case's only one.
LEMMA CreationRefines ==
  ASSUME IInv, NEW p \in posts, issues' = issues \cup {<<p.act, p.target>>}, case' = case
  PROVE  AbstractStep
<1>1. /\ p.act \in ActionIds
      /\ ~ InState(case, p.act, {"absent", "failed"} \cup Undispatched)
      /\ p.target = case.actions[p.act].target
      /\ \A i \in issues : i[1] # p.act
  BY PostOutstanding DEF Posts
<1>2. issues = {}
  <2>1. ASSUME NEW i \in issues PROVE FALSE
    <3>1. /\ i[1] \in ActionIds
          /\ ~ InState(case, i[1], {"absent", "failed"} \cup Undispatched)
      BY <2>1, IssueFacts
    <3>2. /\ ~ InState(case, i[1], {"absent", "failed"})
          /\ ~ InState(case, p.act, {"absent", "failed"})
      BY <1>1, <3>1 DEF InState
    <3>3. i[1] = p.act
      BY <1>1, <3>1, <3>2 DEF IInv, CaseConsistent
    <3> QED
      BY <1>1, <2>1, <3>3
  <2> QED
    BY <2>1
<1>3. case.actions[p.act].state \in Dispatched
  <2>1. case.actions[p.act].state \in States
    BY <1>1 DEF IInv, TypeOK, Cases, Actions
  <2>2. ~ InState(case, p.act, {"succeeded"})
    <3>1. InState(case, p.act, {"succeeded"}) => <<p.act, case.actions[p.act].target>> \in issues
      BY <1>1 DEF IInv, CallsAccountedFor
    <3> QED
      BY <1>2, <3>1
  <2> QED
    BY <1>1, <2>1, <2>2 DEF InState, States, Unresolved
<1>4. Abstract!IssueCreated(p.act)
  BY <1>1, <1>2, <1>3 DEF Abstract!IssueCreated, Dispatched, Abstract!Dispatched
<1> QED
  BY <1>1, <1>4 DEF AbstractStep, Abstract!Next

\* The stored case and Jira keep the promise of ADR-012, for every number of
\* requests, users, actions and targets: GovernedTicket is implemented.
THEOREM KeepsThePromise == Spec => Promise
<1>1. Init => Abstract!Init
  BY DEF Init, NewCase, NoAction, Abstract!Init
<1>2. ASSUME IInv, [Next]_vars PROVE AbstractStep
  <2>1. CASE case' # case
    <3>1. PICK r \in Requests : Written(r)
      BY <1>2, <2>1, OnlyWritesChangeTheCase
    <3>2. issues' = issues
      BY <1>2, <2>1 DEF Next, vars, JiraCreates, JiraRefuses, Answered, Expire, StartMutation,
           ContinueMutation, StartCreate, StartUpdate, StartNote, StartRefreshEvidence,
           StartPropose, StartRequestApproval, StartApprove, StartCancel, StartExecute,
           StartReconcile, LoadedUpdate, Loaded, Save, SaveUnacknowledged, SaveRefused, Post,
           AdapterUnavailable, PostFails, Timeout, Verify, Abandon
    <3> QED
      BY <1>2, <3>1, <3>2, WrittenRefines
  <2>2. CASE case' = case /\ issues' = issues
    BY <2>2 DEF AbstractStep, Abstract!vars
  <2>3. CASE case' = case /\ issues' # issues
    <3>1. JiraCreates
      BY <1>2, <2>3 DEF Next, vars, JiraRefuses, Expire, StartMutation,
           ContinueMutation, StartCreate, StartUpdate, StartNote, StartRefreshEvidence,
           StartPropose, StartRequestApproval, StartApprove, StartCancel, StartExecute,
           StartReconcile, LoadedUpdate, Loaded, Save, SaveUnacknowledged, SaveRefused, Post,
           AdapterUnavailable, PostFails, Timeout, Verify, Abandon
    <3>2. PICK p \in posts : issues' = issues \cup {<<p.act, p.target>>}
      BY <3>1 DEF JiraCreates
    <3> QED
      BY <1>2, <2>3, <3>2, CreationRefines
  <2> QED
    BY <2>1, <2>2, <2>3
<1>3. IInv /\ [Next]_vars => [Abstract!Next]_(Abstract!vars)
  BY <1>2 DEF AbstractStep
<1> QED
  BY <1>1, <1>3, InductiveInvariant, PTL DEF Spec, Promise, Abstract!Spec

===========================================================================
