--------------------------- MODULE IncidentCase ---------------------------
(***************************************************************************)
(* One incident case under concurrent API requests.                        *)
(*                                                                         *)
(* FastAPI runs the handlers of services/api/app/incidents.py in threads,  *)
(* and Lambda in processes, with nothing shared but the store.  A mutation *)
(* loads the case, decides on its private copy, and hands the changed copy *)
(* to save_case, which stores it only if the version is the one loaded.    *)
(* Two handlers leave the process in between: execute_action stores a      *)
(* dispatch claim, posts to Jira, and stores the outcome in a second write;*)
(* reconcile_action reads an issue from Jira between its load and its save.*)
(*                                                                         *)
(* A request carries `seen', the case as loaded, and `draft', the case it  *)
(* wants stored.  Requests can die at any step, a write can be applied     *)
(* with its acknowledgement lost, a post can outlive the request that sent *)
(* it, and wall-clock time can pass an action's expiry at any moment.      *)
(*                                                                         *)
(* authorize and the version in the request body decide nothing here: a    *)
(* refusal (503, 403, or 409 on a version other than the loaded one)       *)
(* leaves every variable as it was, so only requests that pass are shown.  *)
(***************************************************************************)
EXTENDS CaseRecord

CONSTANT Requests      \* request slots: how many handlers run at once

VARIABLES
  case,        \* the stored item; version 0 while there is none
  req,         \* per slot, the request it runs
  expired,     \* actions whose expires_at has passed
  posts,       \* create-issue calls sent and not yet handled by Jira
  issues,      \* <<action, target>>: issues that exist in Jira
  dispatched   \* history: create-issue calls ever sent, per action

vars == <<case, req, expired, posts, issues, dispatched>>

Phases == {"idle", "saving", "claimed", "waiting", "verifying"}
Ops    == {None, "update", "execute", "outcome", "reconcile"}

\* The target is the project in the settings of the instance that serves it.
Idle == [phase |-> "idle", op |-> None, act |-> None, target |-> None,
         seen |-> NewCase, draft |-> NewCase]

RequestRecords == [phase : Phases, op : Ops,
                   act : ActionIds \cup {None}, target : Targets \cup {None},
                   seen : Cases, draft : Cases]

Posts == [by : Requests, act : ActionIds, target : Targets]

Init ==
  /\ case = NewCase
  /\ req = [r \in Requests |-> Idle]
  /\ expired = {}
  /\ posts = {}
  /\ issues = {}
  /\ dispatched = [a \in ActionIds |-> 0]

Stored == case.version > 0

---------------------------------------------------------------------------
(* Handlers, up to the call of persist.                                    *)

\* r leaves the load step with a draft that persist will try to store.
Loaded(r, op, a, target, draft) ==
  /\ req[r].phase = "idle"
  /\ req' = [req EXCEPT ![r] = [phase |-> "saving", op |-> op, act |-> a,
                                target |-> target, seen |-> case, draft |-> draft]]
  /\ UNCHANGED <<case, expired, posts, issues, dispatched>>

\* A handler that changes the case in one write.
LoadedUpdate(r, draft) == Stored /\ Loaded(r, "update", None, None, draft)

\* incident_id is a fresh uuid: no two requests create the same case.
StartCreate(r) ==
  /\ ~ Stored
  /\ \A q \in Requests : req[q].phase = "idle"
  /\ Loaded(r, "update", None, None, Create)

StartUpdate(r) ==
  \E status \in Statuses :
    MayUpdate(case, status) /\ LoadedUpdate(r, Update(case, status))

StartNote(r) == LoadedUpdate(r, AddNote(case))

StartRefreshEvidence(r) ==
  \E outcome \in QueryOutcomes : LoadedUpdate(r, RefreshEvidence(case, outcome))

StartPropose(r) ==
  \E a \in ActionIds, u \in Users, target \in Targets :
    /\ MayPropose(case, a, expired)
    /\ LoadedUpdate(r, Propose(case, a, u, target))

StartRequestApproval(r) ==
  \E a \in ActionIds, u \in Users :
    /\ MayRequestApproval(case, a, u, expired)
    /\ LoadedUpdate(r, RequestApproval(case, a))

StartApprove(r) ==
  \E a \in ActionIds, u \in Users :
    /\ MayApprove(case, a, u, expired)
    /\ LoadedUpdate(r, Approve(case, a, u))

StartCancel(r) ==
  \E a \in ActionIds, u \in Users :
    /\ MayCancel(case, a, u)
    /\ LoadedUpdate(r, Cancel(case, a))

StartExecute(r) ==
  /\ Stored
  /\ \E a \in ActionIds, u \in Users, target \in Targets :
       /\ MayExecute(case, a, u, target, expired)
       /\ Loaded(r, "execute", a, target, Claim(case, a))

\* The issue is read from Jira after the load: see Verify.
StartReconcile(r) ==
  /\ Stored
  /\ req[r].phase = "idle"
  /\ \E a \in ActionIds, u \in Users, target \in Targets :
       /\ MayReconcile(case, a, u, target)
       /\ req' = [req EXCEPT ![r] = [phase |-> "verifying", op |-> "reconcile", act |-> a,
                                     target |-> target, seen |-> case, draft |-> NewCase]]
  /\ UNCHANGED <<case, expired, posts, issues, dispatched>>

---------------------------------------------------------------------------
(* persist and save_case.                                                  *)

\* Fault for the checks: the condition on the version is dropped.
VersionNotRegressed(r) == req[r].seen.version <= case.version

\* The conditional write of SQLite's UPDATE ... AND version = ? and of
\* DynamoDB's #v = :v; for version 0 it is the insert that must be new.
VersionUnchanged(r) == req[r].seen.version = case.version

\* The capacity check precedes the write.
Fits(r) == req[r].draft.version <= Capacity

Written(r) ==
  /\ req[r].phase = "saving"
  /\ Fits(r)
  /\ VersionUnchanged(r)
  /\ case' = req[r].draft

\* The write is applied and acknowledged.  A dispatch claim goes on to Jira
\* with the claimed case in hand; every other request is done.
Save(r) ==
  /\ Written(r)
  /\ req' = [req EXCEPT ![r] = IF req[r].op = "execute"
                               THEN [req[r] EXCEPT !.phase = "claimed", !.seen = req[r].draft]
                               ELSE Idle]
  /\ UNCHANGED <<expired, posts, issues, dispatched>>

\* The write is applied and the handler sees an error: a lost DynamoDB
\* response, retried by the SDK into a failed condition or surfaced as 5xx.
SaveUnacknowledged(r) ==
  /\ Written(r)
  /\ req' = [req EXCEPT ![r] = Idle]
  /\ UNCHANGED <<expired, posts, issues, dispatched>>

\* 413 before the write, or 409 from it.
SaveRefused(r) ==
  /\ req[r].phase = "saving"
  /\ ~ Fits(r) \/ ~ VersionUnchanged(r)
  /\ req' = [req EXCEPT ![r] = Idle]
  /\ UNCHANGED <<case, expired, posts, issues, dispatched>>

---------------------------------------------------------------------------
(* The Jira call of execute_action, and Jira itself.                       *)

\* r turns the adapter's classification into the draft of its second write.
Settled(r, outcome) ==
  [req[r] EXCEPT !.phase = "saving", !.op = "outcome",
                 !.draft = RecordOutcome(req[r].seen, req[r].act, outcome)]

Post(r) ==
  /\ req[r].phase = "claimed"
  /\ posts' = posts \cup {[by |-> r, act |-> req[r].act, target |-> req[r].target]}
  /\ dispatched' = [dispatched EXCEPT ![req[r].act] = @ + 1]
  /\ req' = [req EXCEPT ![r].phase = "waiting"]
  /\ UNCHANGED <<case, expired, issues>>

\* The settings name the project but lack Jira's credentials, which
\* execute_action does not look at: nothing is sent, and the result is `failed'.
AdapterUnavailable(r) ==
  /\ req[r].phase = "claimed"
  /\ req' = [req EXCEPT ![r] = Settled(r, "rejected")]
  /\ UNCHANGED <<case, expired, posts, issues, dispatched>>

\* The connection fails: nothing was sent, the adapter cannot tell.
PostFails(r) ==
  /\ req[r].phase = "claimed"
  /\ req' = [req EXCEPT ![r] = Settled(r, "uncertain")]
  /\ UNCHANGED <<case, expired, posts, issues, dispatched>>

Awaits(r, p) == p.by = r /\ req[r].phase = "waiting" /\ req[r].act = p.act

\* Jira handles post p; its sender, if it still waits, gets the answer.
Answered(p, outcome) ==
  /\ posts' = posts \ {p}
  /\ req' = [req EXCEPT ![p.by] = IF Awaits(p.by, p) THEN Settled(p.by, outcome) ELSE @]
  /\ UNCHANGED <<case, expired, dispatched>>

\* 201 with a verified key, or a success nobody can read: 5xx, malformed.
JiraCreates ==
  \E p \in posts, outcome \in {"confirmed", "uncertain"} :
    /\ issues' = issues \cup {<<p.act, p.target>>}
    /\ Answered(p, outcome)

\* No issue is created: a definite 4xx, or a 5xx, 408 or 409.
JiraRefuses ==
  \E p \in posts, outcome \in {"rejected", "uncertain"} :
    /\ issues' = issues
    /\ Answered(p, outcome)

\* Fault for the checks: a timeout is taken for a refusal.
TimeoutAsRefusal(r) ==
  /\ req[r].phase = "waiting"
  /\ req' = [req EXCEPT ![r] = Settled(r, "rejected")]
  /\ UNCHANGED <<case, expired, posts, issues, dispatched>>

\* The client gives up waiting; the post may still be handled later.
Timeout(r) ==
  /\ req[r].phase = "waiting"
  /\ req' = [req EXCEPT ![r] = Settled(r, "uncertain")]
  /\ UNCHANGED <<case, expired, posts, issues, dispatched>>

\* Fault for the checks: the key the manager typed is trusted.
VerifyUnchecked(r) ==
  /\ req[r].phase = "verifying"
  /\ req' = [req EXCEPT ![r].phase = "saving",
                        ![r].draft = Reconcile(req[r].seen, req[r].act)]
  /\ UNCHANGED <<case, expired, posts, issues, dispatched>>

\* reconcile_action reads the issue the manager named: its key, project and
\* summary must be those of the action.
Verify(r) ==
  /\ req[r].phase = "verifying"
  /\ <<req[r].act, req[r].target>> \in issues
  /\ req' = [req EXCEPT ![r].phase = "saving",
                        ![r].draft = Reconcile(req[r].seen, req[r].act)]
  /\ UNCHANGED <<case, expired, posts, issues, dispatched>>

---------------------------------------------------------------------------

\* The request ends without another effect: the process dies or the Lambda
\* times out, the store raises before writing, the Jira read fails.
Abandon(r) ==
  /\ req[r].phase # "idle"
  /\ req' = [req EXCEPT ![r] = Idle]
  /\ UNCHANGED <<case, expired, posts, issues, dispatched>>

\* One hour after the proposal.
Expire(a) ==
  /\ a \notin expired
  /\ ~ InState(case, a, {"absent"})
  /\ expired' = expired \cup {a}
  /\ UNCHANGED <<case, req, posts, issues, dispatched>>

StartMutation(r) ==
  \/ StartCreate(r) \/ StartUpdate(r) \/ StartNote(r) \/ StartRefreshEvidence(r)
  \/ StartPropose(r) \/ StartRequestApproval(r) \/ StartApprove(r)
  \/ StartCancel(r) \/ StartExecute(r) \/ StartReconcile(r)

ContinueMutation(r) ==
  \/ Save(r) \/ SaveUnacknowledged(r) \/ SaveRefused(r)
  \/ Post(r) \/ AdapterUnavailable(r) \/ PostFails(r) \/ Timeout(r)
  \/ Verify(r) \/ Abandon(r)

Next ==
  \/ \E r \in Requests : StartMutation(r) \/ ContinueMutation(r)
  \/ JiraCreates \/ JiraRefuses
  \/ \E a \in ActionIds : Expire(a)

Spec == Init /\ [][Next]_vars

---------------------------------------------------------------------------
(* Properties.                                                             *)

\* Every variable keeps the shape of the documents and calls it stands for.
TypeOK ==
  /\ case \in Cases
  /\ req \in [Requests -> RequestRecords]
  /\ expired \subseteq ActionIds
  /\ posts \subseteq Posts
  /\ issues \subseteq ActionIds \X Targets
  /\ dispatched \in [ActionIds -> Nat]

\* However many operators execute the same approved action at once, and
\* whatever crashes or retries, its create-issue call is sent at most once
\* (the dispatch claim of execute_action).
AtMostOneDispatch == \A a \in ActionIds : dispatched[a] <= 1

\* A case never gets two Jira issues, not even through a second action
\* proposed after the first one was declared failed: a failed action has no
\* issue, and no call on its way that could still create one (the uncertain
\* outcome of JiraTicketAdapter.create_ticket, cancel_action's state check).
FailedMeansNoTicket ==
  \A a \in ActionIds : InState(case, a, {"failed"}) =>
    /\ \A p \in posts : p.act # a
    /\ \A i \in issues : i[1] # a

\* All issues created for a case are one issue (propose_action's check of
\* the earlier actions).
OneTicketPerCase == \A i, j \in issues : i = j

\* An issue in Jira was approved by a manager who did not request it, and is
\* in the project the approval was given for, although instances with
\* different settings may serve the steps (approve_action, execute_action).
TicketWasIndependentlyApproved ==
  \A i \in issues :
    LET action == case.actions[i[1]]
    IN  /\ action.approver \in Managers \ {action.requester}
        /\ action.target = i[2]

\* A resolved case has no action that is open or of unknown outcome, although
\* the check in update_case was made on a copy loaded earlier.
ResolvedHasNothingOpen ==
  case.status = "resolved" => \A a \in ActionIds : ~ InState(case, a, Unresolved)

\* The case awaits approval exactly while an action is pending or approved:
\* no other handler's write takes it out of that status, so the transition
\* table of update_case can lock it (update_case, cancel_action).
AwaitingIffApprovalOpen ==
  case.status = "awaiting_approval" <=>
    \E a \in ActionIds : InState(case, a, {"pending_approval", "approved"})

\* The ticket shown on the case is that of its succeeded action, and exists
\* in Jira (execute_action's outcome, reconcile_action's verification).
RecordedTicketExists ==
  \A a \in ActionIds :
    /\ case.ticket = a <=> InState(case, a, {"succeeded"})
    /\ case.ticket = a => <<a, case.actions[a].target>> \in issues

\* The comment in execute_action: "A crash leaves a reconcilable state".  An
\* action left dispatched, with no request and no call working on it any
\* more, can be settled only by reconcile_action, which wants its issue to
\* exist; a claim that died before Jira created one can never be settled.
StrandedClaimIsReconcilable ==
  \A a \in ActionIds :
    /\ InState(case, a, Dispatched)
    /\ \A r \in Requests : req[r].act # a
    /\ \A p \in posts : p.act # a
    => <<a, case.actions[a].target>> \in issues

\* docs/operations/incident-workflow.md:58: "An external outcome that cannot
\* be persisted leaves a reconcilable dispatch claim."  The claim may take
\* the last of the space persist allows, and then neither the outcome nor
\* the reconciliation can be stored.
ClaimLeavesRoomToSettle ==
  \A a \in ActionIds : InState(case, a, Dispatched) => case.version < Capacity

\* Every write replaces exactly the case its handler loaded, and moves the
\* version by one: no update is lost between a load and a save.
SerializedUpdates ==
  [][ /\ case'.version = case.version + 1
      /\ \E r \in Requests : req[r].phase = "saving" /\ req[r].seen = case /\ req[r].draft = case'
    ]_case

\* A settled action is never reopened or resettled by a late writer.
SettledActionsStay ==
  [][\A a \in ActionIds :
       InState(case, a, {"failed", "succeeded"}) => case'.actions[a] = case.actions[a]]_case

Advanced == {"pending_approval", "approved", "executing"}

\* r has decided to take action a a step towards Jira.
Advances(r, a) ==
  /\ req[r].phase = "saving"
  /\ req[r].draft.actions[a].state # req[r].seen.actions[a].state
  /\ InState(req[r].draft, a, Advanced)

\* Once its hour has passed, an action is sent for approval, approved or
\* claimed for dispatch only by a request that had loaded the case before: no
\* handler decides on it anew, whichever it is and however old its copy, and
\* those under way only get fewer (unexpired, which looks at the clock when
\* the case is loaded and not again at the save, so that a claim may still be
\* stored, and the issue created, after the hour).
ExpiredActionsRest ==
  [][\A a \in expired :
       /\ \A r \in Requests : Advances(r, a)' => Advances(r, a)
       /\ case'.actions[a].state # case.actions[a].state /\ InState(case', a, Advanced)
            => \E r \in Requests : Advances(r, a)]_vars

\* The stored case and Jira together implement GovernedTicket: each write is
\* one atomic step of it, every other step leaves it unchanged.
Abstract == INSTANCE GovernedTicket
              WITH status <- case.status, actions <- case.actions

Promise == Abstract!Spec

===========================================================================
