----------------------------- MODULE Approvals -----------------------------
(***************************************************************************)
(* A request for temporary read-only access, opened by the chat pipeline   *)
(* and decided through POST /approvals/{id}/approve and .../deny.          *)
(*                                                                         *)
(* decide_approval reads the approval, refuses unless it is pending, and   *)
(* writes the decision over whatever is stored by then; the endpoint adds  *)
(* the audit event afterwards.  SQLite reads what was written last; the    *)
(* query of DynamoDB is eventually consistent and may still answer what    *)
(* was there before.  An administrator can reset the store at any time:    *)
(* SQLite in one transaction, DynamoDB partition by partition, the audit   *)
(* events before the approvals, each in batches of what a query returned.  *)
(*                                                                         *)
(* The endpoint's own read, for the team of the requester, looks at fields *)
(* no decision changes; it is one with decide_approval's read here.        *)
(***************************************************************************)
EXTENDS Naturals

CONSTANTS
  Deciders,      \* managers and admins; others get 403
  Admins,        \* those who may decide for any team
  TeamMembers,   \* those of the requester's team
  Requests,      \* how many decisions are in flight at once
  Backends,      \* the stores a deployment may run on
  None

ASSUME DecidersAssumption ==
  /\ Admins \subseteq Deciders /\ TeamMembers \subseteq Deciders
  /\ None \notin Deciders
  /\ Backends \subseteq {"sqlite", "dynamodb"}

VARIABLES
  backend,  \* the store of this deployment
  stored,   \* the approval in the store
  lagging,  \* what an eventually consistent read may still return
  req,      \* per slot: the decision request it runs
  events,   \* audit events <<verdict, decider>> in the store
  resetting, \* a reset of DynamoDB has yet to delete the approvals
  excuse    \* history: why the stored decision may have no event: the request
            \* that stored it died before, or a reset deleted the event

vars == <<backend, stored, lagging, req, events, resetting, excuse>>

Verdicts  == {"approved", "denied"}
Approvals == [status : {"unopened", "pending", "deleted"} \cup Verdicts,
              decidedBy : Deciders \cup {None}]

Undecided(status) == [status |-> status, decidedBy |-> None]

Idle == [phase |-> "idle", decider |-> None, verdict |-> "approved"]

Decision(q) == <<q.verdict, q.decider>>
Standing    == <<stored.status, stored.decidedBy>>

Init ==
  /\ backend \in Backends
  /\ stored = Undecided("unopened")
  /\ lagging = Undecided("unopened")
  /\ req = [r \in Requests |-> Idle]
  /\ events = {}
  /\ resetting = FALSE
  /\ excuse = "none"

---------------------------------------------------------------------------

\* Fault for the checks: the team is not compared.
MayDecideAnywhere(d) == d \in Deciders

MayDecide(d) == d \in Admins \cup TeamMembers

\* add_approval, once: its identifier is new.
Open ==
  /\ stored.status = "unopened"
  /\ stored' = Undecided("pending")
  /\ UNCHANGED <<backend, lagging, req, events, resetting, excuse>>

Readable == IF backend = "dynamodb" THEN {stored, lagging} ELSE {stored}

\* Fault for the checks: the status is not looked at.
LoadAny(r, d, verdict) ==
  /\ req[r].phase = "idle"
  /\ MayDecide(d)
  /\ \E read \in Readable : read.status \in {"pending"} \cup Verdicts
  /\ req' = [req EXCEPT ![r] = [phase |-> "saving", decider |-> d, verdict |-> verdict]]
  /\ UNCHANGED <<backend, stored, lagging, events, resetting, excuse>>

\* The reads and checks; 404, 403 and 409 change nothing.
Load(r, d, verdict) ==
  /\ req[r].phase = "idle"
  /\ MayDecide(d)
  /\ \E read \in Readable : read.status = "pending"
  /\ req' = [req EXCEPT ![r] = [phase |-> "saving", decider |-> d, verdict |-> verdict]]
  /\ UNCHANGED <<backend, stored, lagging, events, resetting, excuse>>

\* Fault for the checks: the handler returns before its add_event.
SaveOnly(r) ==
  /\ req[r].phase = "saving"
  /\ stored' = [status |-> req[r].verdict, decidedBy |-> req[r].decider]
  /\ req' = [req EXCEPT ![r] = Idle]
  /\ excuse' = "none"
  /\ UNCHANGED <<backend, lagging, events, resetting>>

\* INSERT OR REPLACE, put_item: no condition, and no approval need be there.
Save(r) ==
  /\ req[r].phase = "saving"
  /\ stored' = [status |-> req[r].verdict, decidedBy |-> req[r].decider]
  /\ req' = [req EXCEPT ![r].phase = "auditing"]
  /\ excuse' = "none"
  /\ UNCHANGED <<backend, lagging, events, resetting>>

Audit(r) ==
  /\ req[r].phase = "auditing"
  /\ events' = events \cup {Decision(req[r])}
  /\ req' = [req EXCEPT ![r] = Idle]
  /\ UNCHANGED <<backend, stored, lagging, resetting, excuse>>

\* The process dies or the store raises.
Abandon(r) ==
  /\ req[r].phase # "idle"
  /\ req' = [req EXCEPT ![r] = Idle]
  /\ excuse' = IF req[r].phase = "auditing" /\ Decision(req[r]) = Standing
                THEN "died" ELSE excuse
  /\ UNCHANGED <<backend, stored, lagging, events, resetting>>

Replicate ==
  /\ backend = "dynamodb"
  /\ lagging # stored
  /\ lagging' = stored
  /\ UNCHANGED <<backend, stored, req, events, resetting, excuse>>

Present == stored.status \in {"pending"} \cup Verdicts

\* SQLite deletes audit events and approvals in one transaction.
ResetAtOnce ==
  /\ backend = "sqlite" /\ Present
  /\ stored' = Undecided("deleted")
  /\ events' = {} /\ excuse' = "none"
  /\ UNCHANGED <<backend, lagging, req, resetting>>

\* DynamoDB deletes the events its query returned, which may be any of them:
\* it reads one page, eventually consistent, and can be cut off between batches.
ResetEvents ==
  /\ backend = "dynamodb"
  /\ \E gone \in SUBSET events :
       /\ events' = events \ gone
       /\ excuse' = IF Standing \in gone THEN "reset" ELSE excuse
  /\ resetting' = TRUE
  /\ UNCHANGED <<backend, stored, lagging, req>>

\* Then the approval, if its query returned it.
ResetApproval ==
  /\ resetting /\ Present
  /\ stored' = Undecided("deleted")
  /\ resetting' = FALSE
  /\ excuse' = "none"
  /\ UNCHANGED <<backend, lagging, req, events>>

\* The reset dies before it gets to the approval, or its query missed it.
ResetPasses ==
  /\ resetting
  /\ resetting' = FALSE
  /\ UNCHANGED <<backend, stored, lagging, req, events, excuse>>

Next ==
  \/ Open \/ Replicate
  \/ ResetAtOnce \/ ResetEvents \/ ResetApproval \/ ResetPasses
  \/ \E r \in Requests :
       \/ \E d \in Deciders, verdict \in Verdicts : Load(r, d, verdict)
       \/ Save(r) \/ Audit(r) \/ Abandon(r)

Spec == Init /\ [][Next]_vars

---------------------------------------------------------------------------
(* Properties.                                                             *)

\* Every variable keeps its shape.
TypeOK ==
  /\ backend \in Backends
  /\ stored \in Approvals
  /\ lagging \in Approvals
  /\ req \in [Requests -> [phase : {"idle", "saving", "auditing"},
                           decider : Deciders \cup {None}, verdict : Verdicts]]
  /\ events \subseteq Verdicts \X Deciders
  /\ resetting \in BOOLEAN
  /\ excuse \in {"none", "died", "reset"}

\* A stored decision names who took it, an admin or somebody of the
\* requester's team, and every audited one was taken by such a person, even
\* if the approval was decided twice or written back after a reset (the
\* checks of approve and deny, the fields decide_approval sets).
DecidedByEntitled ==
  /\ stored.status \in Verdicts => stored.decidedBy \in Admins \cup TeamMembers
  /\ \A e \in events : e[2] \in Admins \cup TeamMembers

\* The verdict and the decider in the store are those of an audit event, or
\* of a request that is about to write it, unless that request died before, or
\* a reset of DynamoDB, which deletes the events first, has taken the event and
\* left the approval standing, for a moment or for good.  A decision written
\* over another, or back after a reset, starts with no excuse (decide_approval
\* with the add_event after it, in approve and deny; DynamoStore.reset).
DecisionsAreAudited ==
  stored.status \in Verdicts =>
    \/ Standing \in events
    \/ \E r \in Requests : req[r].phase = "auditing" /\ Decision(req[r]) = Standing
    \/ excuse # "none"

\* The decision is in the store, every read returns it, and no request holds
\* an earlier read.
Settled ==
  /\ stored.status \in Verdicts
  /\ backend = "dynamodb" => lagging = stored
  /\ \A r \in Requests : req[r].phase # "saving"

\* Two deciders can overwrite each other only while they overlap, or while
\* reads lag: a settled decision stays settled, and what it is, until the
\* store is reset (the pending check of decide_approval).
SettledUntilReset ==
  [][Settled => (Settled' /\ stored' = stored) \/ stored'.status = "deleted"]_vars

\* services/api/tests/test_api.py:679, test_approval_decisions_are_pending_only:
\* after one decision the other gets 409.  Two requests that both read the
\* approval pending both decide it, and both decisions are audited.
DecidedOnce == \A e, f \in events : e = f

===========================================================================
