----------------------- MODULE IncidentCaseInvariant -----------------------
(***************************************************************************)
(* The inductive invariant of IncidentCase.  The properties of the stored  *)
(* case survive a step only because of what the requests in flight carry:  *)
(* a copy that is either the stored case itself or out of date, a draft    *)
(* that some handler's decision makes of that copy, and, between claim and *)
(* outcome, sole ownership of the dispatched action.                       *)
(***************************************************************************)
EXTENDS IncidentCase

\* d is what one of the single-write handlers makes of c.  Expiry is left
\* out: it only ever forbids, and a draft may be stored after the hour.
UpdateOf(c, d) ==
  \/ c = NewCase /\ d = Create
  \/ \E status \in Statuses : MayUpdate(c, status) /\ d = Update(c, status)
  \/ d = AddNote(c)
  \/ \E outcome \in QueryOutcomes : d = RefreshEvidence(c, outcome)
  \/ \E a \in ActionIds, u \in Users, target \in Targets :
       MayPropose(c, a, ActionIds) /\ d = Propose(c, a, u, target)
  \/ \E a \in ActionIds, u \in Users :
       MayRequestApproval(c, a, u, {}) /\ d = RequestApproval(c, a)
  \/ \E a \in ActionIds, u \in Users : MayApprove(c, a, u, {}) /\ d = Approve(c, a, u)
  \/ \E a \in ActionIds, u \in Users : MayCancel(c, a, u) /\ d = Cancel(c, a)

\* r holds the dispatch claim of its action.
Owns(r) ==
  \/ req[r].phase \in {"claimed", "waiting"}
  \/ req[r].phase = "saving" /\ req[r].op = "outcome"

\* The stored document is consistent in itself.
CaseConsistent(c) ==
  /\ \A a, b \in ActionIds :
       ~ InState(c, a, {"absent", "failed"}) /\ ~ InState(c, b, {"absent", "failed"}) => a = b
  /\ c.status = "awaiting_approval" <=>
       \E a \in ActionIds : InState(c, a, {"pending_approval", "approved"})
  /\ c.status = "resolved" => \A a \in ActionIds : ~ InState(c, a, Unresolved)
  /\ \A a \in ActionIds : c.ticket = a <=> InState(c, a, {"succeeded"})
  /\ \A a \in ActionIds :
       InState(c, a, {"approved", "succeeded"} \cup Dispatched) =>
         c.actions[a].approver \in Managers \ {c.actions[a].requester}

\* Before it is created the case is the empty document.
UncreatedIsEmpty == case.version = 0 => case = NewCase

\* What a request loaded is the stored case, or an older version of it.
CopyCurrentOrStale(r) ==
  req[r].phase # "idle" =>
    /\ req[r].seen.version <= case.version
    /\ req[r].seen.version = case.version => req[r].seen = case

\* What a request wants stored is a handler's decision on its copy.
DraftDecided(r) ==
  LET c == req[r].seen
      d == req[r].draft
      a == req[r].act
  IN  req[r].phase = "saving" =>
        /\ req[r].op \in {"update", "execute", "outcome", "reconcile"}
        /\ req[r].op = "update"    => UpdateOf(c, d)
        /\ req[r].op = "execute"   => d = Claim(c, a)
        /\ req[r].op = "outcome"   => \E outcome \in Outcomes : d = RecordOutcome(c, a, outcome)
        /\ req[r].op = "reconcile" => d = Reconcile(c, a) /\ <<a, req[r].target>> \in issues

\* A request that works on an action chose it by its state and its target.
Chosen(r, states) ==
  LET a == req[r].act
  IN  /\ a \in ActionIds
      /\ req[r].target \in Targets
      /\ InState(req[r].seen, a, states)
      /\ req[r].seen.actions[a].target = req[r].target

ActionChosen(r) ==
  /\ req[r].phase = "saving" /\ req[r].op = "execute" => Chosen(r, {"approved"})
  /\ req[r].phase = "saving" /\ req[r].op = "reconcile" => Chosen(r, Dispatched)
  /\ req[r].phase = "verifying" => Chosen(r, Dispatched) /\ req[r].op = "reconcile"
  /\ Owns(r) => Chosen(r, {"executing"})

\* Neither a call that could create an issue for a nor an issue of a.
NoTicketFor(a) == /\ \A p \in posts : p.act # a
                  /\ \A i \in issues : i[1] # a

\* A claim has one owner; only reconciliation settles the action under it,
\* and the outcome the owner is about to record is the truth about Jira.
ClaimOwned(r) ==
  LET a == req[r].act
  IN  Owns(r) =>
        /\ InState(case, a, {"executing", "succeeded"})
        /\ case.actions[a].target = req[r].target
        /\ \A q \in Requests : Owns(q) /\ req[q].act = a => q = r
        /\ req[r].phase = "claimed" => dispatched[a] = 0
        /\ req[r].phase = "saving" =>
             /\ InState(req[r].draft, a, {"failed"}) => NoTicketFor(a)
             /\ InState(req[r].draft, a, {"succeeded"}) => <<a, req[r].target>> \in issues

RequestsConsistent ==
  \A r \in Requests :
    CopyCurrentOrStale(r) /\ DraftDecided(r) /\ ActionChosen(r) /\ ClaimOwned(r)

\* Calls on the wire and issues in Jira stem from one dispatch of a claim.
CallsAccountedFor ==
  /\ \A a \in ActionIds :
       /\ dispatched[a] \in {0, 1}
       /\ InState(case, a, {"absent"} \cup Undispatched) => dispatched[a] = 0
       /\ dispatched[a] = 0 \/ InState(case, a, {"failed"}) => NoTicketFor(a)
       /\ InState(case, a, {"succeeded"}) => <<a, case.actions[a].target>> \in issues
  /\ \A p, q \in posts : p.act = q.act => p = q
  /\ \A p \in posts : /\ p.target = case.actions[p.act].target
                      /\ \A i \in issues : i[1] # p.act
  /\ \A i \in issues : i[2] = case.actions[i[1]].target

IInv ==
  /\ TypeOK
  /\ CaseConsistent(case)
  /\ UncreatedIsEmpty
  /\ RequestsConsistent
  /\ CallsAccountedFor

===========================================================================
