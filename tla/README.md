# AegisDesk in TLA+

AegisDesk is a FastAPI service (`services/api/app`) with a Next.js front end. It
does two things that must not go wrong: it lets operators open a Jira ticket
from an incident case only after an independent approval, and it lets employees
chat with a model only within the limits of policy, quota and redaction. This
directory holds TLA+ models of that program and of what surrounds it - Jira,
CloudWatch, Cost Explorer, Cognito, the page in the browser -, the TLC
configurations that check them on small instances, and TLAPS proofs of what
matters most for instances of every size. Every definition is translated from
the source; `PROJECT.json` maps each one to its lines. Paths below are relative
to `services/api/app` unless they start elsewhere.

## The system

Each component with its state, its operations, what it talks to, where it is
hard, and what makes it correct.

**Incident cases** (`incidents.py`). One JSON document per case: version,
status, proposed ticket actions, final ticket, evidence, notes, timeline.
Operations: create, update status, add note, refresh evidence, propose, request
approval, approve, cancel, execute, reconcile. Each loads the document from the
store, decides on its copy and saves it if the version has not moved; `execute`
saves a dispatch claim, calls the ticket adapter, and saves the outcome in a
second write; `reconcile` reads an issue from Jira between load and save. Hard:
handlers run in threads and in separate Lambda instances, the process can die
between the two writes, a call to Jira can time out and still take effect.
Correct: one dispatch per approved action, one ticket per case, no ticket
without an independent approval, nothing recorded that did not happen, nothing
lost between a load and a save.

**Store** (`store.py`). Two implementations of one interface: `DemoStore` (one
SQLite connection and a lock) and `DynamoStore`. State: cases, audit events,
legacy approvals, route records, quota counters. `save_case` is conditional;
approvals, quota counters and events are written without a condition, and all
of DynamoDB's queries but the one for cases are eventually consistent. Hard:
read-check-write from two requests; `DynamoStore.reset` deletes one partition
after another, in batches, audit events before approvals, and leaves cases
alone.

**Ticket adapters** (`adapters.py`). Jira, ServiceNow, local fixture, and an
adapter that always refuses. `JiraTicketAdapter.create_ticket` classifies every
answer as confirmed, rejected or uncertain. Hard: an unreadable success and a
timeout are neither success nor failure, and a claim may find no adapter at all.
Correct: "rejected" is only said when no issue was or will be created.

**CloudWatch evidence** (`adapters.py`, `incident_context.py`). Starts a Logs
Insights query and polls it a bounded number of times, between the load and the
save of the case; a failure keeps the earlier evidence. The query runs on at
CloudWatch when nobody waits for it any more. Hard: seconds pass between load
and save, refreshes overlap, a query shows rows before it is complete. Correct:
the state shown tells how the last refresh ended and what is stored, evidence is
the whole result of a query that completed and is never replaced by an older
one, and a refresh ends.

**Chat pipeline** (`main.py`, with `redaction.py`, `clarification.py`,
`model_router.py`, `llm.py`, `tools.py`, `knowledge_base.py`). `process_chat`
runs one message through size check, quota, redaction, intent, policy, routing,
tools and model, writing an audit event at each stage. Hard: many early returns,
each with its own events; a policy outage halfway; fallback from the model.
Correct: no external model call with unredacted secrets or against the kill
switch, a tool only when policy allowed it, a trail from which `replay` tells
what happened.

**Quota** (`main.py`, `store.py`, `policy.py`). A counter per role, team and
day. Count, policy decision and increment are three steps. Correct: the limit.

**Legacy approvals** (`main.py`, `store.py`). Opened by the chat pipeline,
decided by a manager of the team or an admin. `decide_approval` reads, checks
and overwrites. Correct: decided once.

**Policy** (`policy.py`, `policy_engine.py`, `policies/*.rego`). The same rules
in Python and in Rego for OPA; fails closed when OPA cannot be asked. Correct:
both answer alike.

**Cost Explorer** (`cost_explorer.py`). A summary cached with an expiry, under a
key shared by all instances; made up when Cost Explorer is disabled, and cached
then, too. Hard: requests miss together and overwrite each other, DynamoDB's
reads lag, instances of two configurations run side by side. Correct: nothing
is served beyond its lifetime and the time of one request, and made-up figures
disappear once Cost Explorer is enabled.

**Identity** (`auth.py`, `cognito_auth.py`). Token verification; provisioning
of evaluation personas in Cognito in three calls that can fail, race or be sent
twice, and sign-in with a password derived from a seed. Correct: a token
carries the team and role its client was told, credentials that are shown
work, and a persona that works is not broken by other logins.

**Audit and replay** (`store.py`, `main.py`). Events are appended; old ones are
deleted when events are read; `replay` rebuilds a request from what is left.

**Incident workspace** (`apps/web/app/incident-workspace.tsx`). Keeps the case
last received and sends its version with each mutation; answers can arrive out
of order. Executing an action writes the case twice, with a call to Jira in
between. Correct: a change that takes effect was decided on what was shown, the
page shows what it was told, and a person is never stuck.

Without state worth modelling: redaction patterns, knowledge base matching,
trace identifiers, the MCP fixture server (`services/mcp-tools`), the rest of
the front end, Terraform, evaluation and load scripts. "Not modelled" gives the
reasons; `PROJECT.json` lists every part, and under `hazards` the lines where
the hard behaviour bites.

## Modules

| Module | Models |
|---|---|
| `CaseRecord` | the case document and every handler's decision on it, without state |
| `IncidentCase` | the handlers as concurrent requests over the store and Jira |
| `GovernedTicket` | the abstract promise: one atomic step per decision, no versions or requests |
| `IncidentCaseInvariant` | the inductive invariant of `IncidentCase` |
| `MCIncidentCase` | instance for TLC, with the symmetry |
| `IncidentCaseProofs` | lemmas on decisions, requests and calls; the induction; the theorems |
| `EvidenceRefresh`, `EvidenceRefreshProofs` | a refresh with its CloudWatch query, from load to save; proofs |
| `WorkspaceClient`, `WorkspaceClientProofs` | a person at the page, against the version checks of the API; proofs |
| `ChatPolicy` | the chat, model route and tool rules, in Python and in Rego |
| `ChatPipeline`, `ChatPipelineProofs` | one message through `process_chat`, its audit trail, its replay and what its answer says of itself; proofs |
| `CostCache`, `MCCostCache`, `CostCacheProofs` | the cached cost summary over time; instance for TLC; proofs |
| `Approvals`, `ApprovalsProofs` | deciding a request for temporary access; proofs |
| `Quota`, `QuotaProofs` | the daily counter of a role and team; proofs |
| `PersonaLogin`, `PersonaLoginProofs` | provisioning and sign-in of a Cognito persona; proofs |

The first six form one stack. `EvidenceRefresh` extends `CaseRecord`, too: it
takes the one handler apart that `IncidentCase` shortens, and its
`RefreshTakesEffectAtOnce` is what entitles `IncidentCase` to load and decide in
one step. `WorkspaceClient` keeps of a case only the version, and of a handler
its two version checks. `ChatPipeline` extends `ChatPolicy`; the others stand
alone, because the pipeline touches them only through the store: it opens
approvals, which are then decided by other requests, takes whatever answer the
quota gives, and finds in the cost cache (`CachedCosts`) whatever `CostCache`
can leave there.

Operators commented "Fault for the checks" are wrong variants of the definition
that follows them. No specification uses them: they serve to confirm that each
property notices the mistake.

### `CaseRecord` and `IncidentCase`

A handler `execute_action` is a guard `MayExecute(c, a, u, target, expired)`,
the conditions under which it does not answer 4xx, and an effect `Claim(c, a)`,
the document given to `persist`. `IncidentCase` runs such decisions in request
slots:

| Code | Model |
|---|---|
| `load` | the copy `seen` taken in `Start...(r)` |
| decision on the copy | `draft` |
| `persist`, `save_case` | `Save`, `SaveUnacknowledged` (written, response lost), `SaveRefused` (409, 413) |
| `execute_action`'s call | `AdapterUnavailable` (no credentials), `Post`, `PostFails`, `Timeout`; Jira's side `JiraCreates`, `JiraRefuses` |
| `reconcile_action`'s read | `Verify` |
| process death, 5xx | `Abandon` |
| `expires_at` passing | `Expire` |

A post stays in `posts` until Jira handles it, whether or not the request that
sent it still waits: that is how a ticket can appear after a timeout, a crash
or a lost answer. `dispatched` is a history variable.

Loading and deciding are one step because nothing shared is touched between them
except Jira, for which there is `Verify`, and CloudWatch, for which there is
`EvidenceRefresh`. The version in the request body and the authorization only
add refusals that change nothing, so only requests that pass them are shown
(`WorkspaceClient` shows the others). The size bound of a document is counted in
timeline events (`Capacity`): every write appends one.

Abstracted: texts and timestamps; the policy decision, which permits ticket
creation and triage to each role in both implementations; the fingerprint of an
action, none of whose inputs is ever rewritten.

### `EvidenceRefresh`

| Code | Model |
|---|---|
| `load` in `refresh_evidence` | `Load` |
| `start_query` | `StartQuery`, `StartFails` |
| one turn of `_poll_results` | `PollComplete`, `PollAgain`, `PollGivesUp`, `CallRaises` |
| `persist`, `save_case` | `Save`, `SaveRefused` |
| process death, Lambda timeout | `Abandon` |
| CloudWatch | `RowsAppear`, `QueryEnds` |
| every other handler of the case | `OtherWrite` |

Queries are numbered as they are started. Two history variables:
`origin` is the number of the one whose result is stored, `latest` how the last
refresh that was stored ended. Rows are there or not. The pause
between polls and the time window of the query are left out.

### `WorkspaceClient`

The page's state is `shown`, `selected`, `loading`, `busy` and `error`, as in
the component; a call in flight is in a slot and goes `sent`, `loaded` (between
`load` and `persist` of a change), `claimed` (between the two writes of an
execution), `ok` or `error`, and its answer waits until the page takes it. A
change of one write is `Save`; `execute_action` is `Claim` and `Settle`, which
another writer may come between. `Fits` is the check of version (409) and size
(413, counted in versions) that precedes each write. `Refresh`, `Select`,
`Change` and `Create` are the buttons with the conditions under which they are
enabled; `Remount` is another tab or identity, whose page forgets everything
while the old one's calls go on. `OtherWrite` is anybody else. `Lose` is a
rejected `fetch`: the page has its error at once, while the handler ends or goes
on for nobody. `acked`, `raced`, `outdated` and `displayed` are history
variables; `outdated` are the cases that were changed while the list on display
was being loaded.

### `ChatPolicy` and `ChatPipeline`

`process_chat` is one long function without loops, so the model is a program
counter `stage` and one action per stretch between early returns and external
calls: `CheckSize`, `OverQuota`/`WithinQuota`, `Redact`, `Decide` (policy, route
and its three overrides), `NoContext`/`LoadContext`, the model (`NoModel`,
`BedrockDisabled`, `BedrockAnswers`, `BedrockFails`), `RecordRoute`, one action
per tool and outcome, `Announce` (the tool's audit event, after its effect),
`Complete`. `PolicyOutage` is the 503 of each policy evaluation; `Crash` can
strike between any two actions. The message is its intent, its clarity, what
redaction finds in it and whether it names an incident: what the code branches
on. The instance's settings are chosen once and never change. `trail` holds the
audit events with the fields replay reads. `Surviving` is what retention may
have left of them, and `Replays` what `build_request_replay` makes of it, from
the snapshot (`Snapshots`) or without. `modelUsed` is `bedrock_answer_used`,
`toolStatus` the status in the ticket tool's result, which the response carries
beside the answer; `AnswerSources`, `TrustedSourceScore` and `Score` are what
the response says of itself.

Rego is modelled by its evaluation: all rules whose bodies hold contribute, two
different results are an error, none is the default or an undefined result, and
the API answers 503 for error and undefined.

Abstracted: texts, citations and their event, prices, tokens, trace identifiers.

### `CostCache`

`get_cost_summary` is `Hit`, or `Miss` with `QueryAnswers`, `QueryFails` and
`Store`; data is as old as the question it answers. Time passes in `Tick`s, each
as long as the platform lets a request run, times `MaxTime`; data grows older by
one and an entry has one less left, in the table and in `lagging`, which is what
DynamoDB's reads may still return and what `Replicate` brings up to date.
`TimeOut` is the Lambda's timeout in `infra/terraform/main.tf`. `Deploy` starts
instances of another configuration beside the old ones and then retires either;
`Reset` is the administrator's.

### `Approvals`

`decide_approval` is `Load` (reads and checks), `Save` (the unconditional
write) and `Audit` (the endpoint's event), each of which can be the last before
a crash. `lagging` is what DynamoDB's eventually consistent query may still
return. The administrator's reset stops no decision in flight: SQLite's is one
step, `ResetAtOnce`; DynamoDB's deletes some of the events (`ResetEvents`) and
later the approval (`ResetApproval`) or not (`ResetPasses`), as it reads one
page, eventually consistent, and can be cut off. `excuse`, history, is why the
stored decision may have no event.

### `Quota`

`Check` is `quota_count` with the policy's answer, `Increment` the counter's
increment. `Readable` lets a read miss `MaxLag` increments; `Resends` lets an
increment be applied twice; `NewDay` changes the key under a request that has
been allowed. `served` is a history variable.

### `PersonaLogin`

One Cognito user, `persona`, and the logins that provision it: `CreateUser`,
`UserExists`, `SetPassword`, `UpdateTeam`, `AddToGroup` are the calls of
`_ensure_user`, each with the outcome Cognito gives it; `CreateUserResent` is a
creation whose answer was lost and which the SDK sends again, `UpdateTeam` may
likewise happen twice; `SignIn` and
`SignInRefused` end `persona-token`, `HostedSignIn` and `Exchange` are the person
at the Hosted UI and `oauth/exchange`. `Abandon` is a call that raises, a process
that dies or a person who leaves; `RotateSeed` a deployment. A token is what
`_decode_cognito_token` reads from it. `unfinished` (the user's maker will not set
its password any more) and a login's `alone` are history.

## Runs

| Run | Question | Bounds |
|---|---|---|
| `case_lifecycle` | is the document always consistent with itself and with Jira, does it implement `GovernedTicket`? | 2 requests, 2 actions, 11 writes |
| `case_instances` | with instances set up differently and every evidence outcome: can a ticket appear without independent approval for its project, or twice, or an update be lost, or an expired action be moved on? | 2 requests, 1 action, 2 projects, 7 writes |
| `case_stranded_claim` | violated: a crash leaves a reconcilable state | |
| `case_full_claim` | violated: a claim can always be settled | |
| `evidence_refresh` | is evidence complete, its state right, and is it never replaced by older; is a refresh atomic, and does it end? | 2 refreshes, 2 attempts, 2 queries, 4 versions |
| `workspace` | are changes applied to what was shown, does the page show what it was told, does a person get through? | 2 cases of 3 versions, 2 calls, 1 foreign and 1 own change, 1 lost call, 2 pages |
| `chat_requests` | is every call to Bedrock permitted, do the two policies agree, do records, replay and response tell what happened, does an outage leave an effect, do fixtures obey the boundary? | every role, engine, intent, finding, switch and adapter |
| `cost_cache` | how old may a summary get, and does a made-up one go away? | 2 requests, 3 configurations of 2 scopes, lifetime 1, request time 1 |
| `approvals` | who decides, is it accounted for, and does a decision stay? | 2 decisions in flight, 3 deciders, both stores |
| `approvals_race` | violated: the second decision gets 409 | SQLite |
| `quota` | by how much can the limit be exceeded? | limit 2, 3 requests, lag 1, 2 days, 7 increments |
| `persona_login` | do credentials, tokens and what clients are told agree, and does a working persona stay one? | 2 logins, 2 teams, 1 rotation |

A type invariant that TLAPS proves need not be checked by TLC as well:
the case, `chat_requests`, `approvals` and `persona_login` runs do without theirs.

*Cases.* The shortest way to a ticket takes five writes after creation (propose,
request, approve, claim, outcome), so 7 writes let any one of them be contended
and still finish; 11 let a first action be cancelled, rejected or left uncertain
at any stage and a second one go through. Two requests suffice for every race
of a load with another's save. Request slots and action names are
interchangeable, and no property of these two runs is a liveness property, so
TLC reduces by their permutations.

*Evidence.* Two refreshes overlap in every way; the first attempt may find the
query running, and the last one, too; the fourth version is the one that does
not fit. Both queries may succeed, so one can come late.

*Workspace.* A change and a list are under way at once, before and after a page
is left; one foreign change makes what is shown stale, one lost call makes it
uncertain; the second case is created while the first is on display. Three
versions are the first one, somebody else's and a person's change, or the two
writes of an execution; a claim can take the last of them, so that the outcome
gets 413.

*Chat.* A request has no loop, so its run explores it completely, with every
setting varied. `CachedCosts` holds an absent and a made-up entry; a real one is
told from the latter by its name only.

*Cost.* With a lifetime of one tick an entry lives through the tick it was made
in and the next; a request may span one. Every configuration can be replaced by
every other, back and forth.

*Approvals and quota.* Two decisions overlap in every way, before, during and
after a reset of either store. The limit is reached on either day with all three
requests admitted on the last free place; 7 increments leave room for repeated
ones.

*Personas.* Two logins interleave with each other and with one rotation, each
with either team and either way of signing in; calls are answered, fail or are
sent twice.

`chat_requests` disables the deadlock check because a request ends; `approvals`
because an approval that was deleted stays deleted. The others check it.

### Fairness

Nothing in the case, chat, approval and quota models has fairness, and no
liveness is claimed of them: the code has no background worker, every step
waits for a person, and after a crash nothing resumes by itself.

* `EvidenceRefresh`: a thread that was not killed goes on (`WF` of `Continue`
  for each request). CloudWatch need not ever finish a query. Under this alone
  `RefreshEnds` shows that the attempt limit ends every refresh.
* `CostCache`: time passes, the platform ends what has run too long, and
  DynamoDB's replicas catch up (`WF` of `Tick`, `TimeOut`, `Replicate`). Nobody
  need ask, and Cost Explorer need not answer. `FallbackFades` is a claim about
  behaviours in which the configuration settles.
* `PersonaLogin`: the API goes on with a login it has begun (`WF` of `Provision`
  for each login), unless it dies. The person at the Hosted UI need not.
* `WorkspaceClient`: calls end (`WF` of `Serve` and `Arrive`: the page sets no
  timeout, but browser, gateway and Lambda do), and the person is persistent:
  refreshing, opening a case and pressing one of its buttons happen if they are
  possible again and again (`SF`). `PersonGetsThrough` then says that the page
  and the API never shut such a person out, as long as others do not write
  without end or fill the case up (`MaxOthers`, `Capacity`).

### Disagreements with the documentation

The violated runs are disagreements with what the repository says:

* The comment at the dispatch claim says that a crash leaves a reconcilable
  state. If the process dies before Jira has made the issue, there is nothing
  to reconcile with, and cancel, propose and resolve are all refused.
* The workflow document says that an outcome that cannot be persisted leaves a
  reconcilable claim. The claim may take the last of the document's space, and
  then reconciliation is refused with 413 as well.
* Two concurrent decisions of an approval both succeed; a test expects the
  second to be refused. Nothing guards the read and the write together.

Smaller ones were met while modelling and show in the models, without a run of
their own. About the incident cases:

* `create_case` stores `evidence_state = "empty"` (`incidents.py:159`), which
  `docs/operations/incident-workflow.md` (lines 9 and 41) defines as a completed
  query without matches. A new case therefore looks like one that was asked
  about and found clean. `EvidenceStateMatchesEvidence` states what holds: empty
  is a completed query without a match, *or* no refresh ever.
* An instance whose settings name the Jira project but lack its credentials
  passes the checks of `execute_action` and fails after the claim.
* The hour of an approval is looked at when a case is loaded only: a claim may
  be stored, and the issue created, after it (`ExpiredActionsRest`).
* A query that a refresh gives up on is never stopped and goes on at CloudWatch.
* In the workspace, a list that was read before a change and arrives after it
  takes the change, or a case just created, off the screen until the next
  refresh (`OwnChangeStaysShown` excepts exactly this); a case can be listed
  twice; and `fetch` has no timeout, so a call that hangs keeps the buttons
  disabled.

About the chat:

* A request that policy does not allow, or that needs an approval, keeps the
  route `bedrock` with `external_call` set although no model is called
  (`RecordedRouteWasTaken` says so); it is counted as a cloud model request, and
  the trust score, which `docs/architecture/api-contracts.md` says tells of
  external model use, that Bedrock "was used only after" the controls.
* Under `customer_strict` the made-up cost summary is still served when Cost
  Explorer is disabled, or from the cache, although `README.md` says that it
  blocks fixtures.
* A cached made-up summary is labelled "AWS Cost Explorer cache", and a chat
  shows it as "AWS cost summary from local_fallback".
* "OPA/Rego policy decision" is named as a source with the Python engine, too;
  `trusted_source_found` is always true, as documents are found for every
  intent.
* A vague incident request that names an incident is answered with "I need more
  context before querying incident logs" (`clarification.py`) after
  `LoadContext` queried them.
* ServiceNow's uncertain outcome is told as "Ticket creation did not complete",
  and its audit event does not tell it from a failure: only the status in the
  tool result does (`EffectsAreTold`).
* The failed cost query of a manager is audited as `approval.requested`, which
  `docs/architecture/audit-event-model.md` defines as human approval required.

About the rest:

* `docs/architecture/system-architecture.md` says that quotas are enforced;
  `AdmissionBounded` is what holds when requests run concurrently. The two
  stores count `quota.denied` differently in `denied_actions`.
* An older, or a made-up, cost summary can overwrite a fresh one.
* `store.py` reads the first page of each DynamoDB query only.
* `docs/deployment/self-hosted.md` has the persona seed rotated, but
  `_ensure_user` never resets the password of a user that exists: after a
  rotation every persona made before it is locked out. A persona whose creator
  died between two calls is likewise never repaired, nor is one whose creation
  was answered so late that the SDK sent it again: its maker is told that the
  user exists and skips the password. The Hosted UI lets the user of such a
  persona choose a password, which the API does not know.
* A reset of DynamoDB that is cut off, or that misses the approval, leaves a
  decision in the store whose event it has deleted. A decision in flight is
  written back after a reset.
* The actor returned beside a persona token is the one that was asked for, not
  the one in the token.

## Proofs

### Incident cases

All for arbitrary sets of users, managers, actions, projects and requests, and
any capacity, under `ConstantsAssumption` (managers are users, `None` is
none of them). Proved of `IncidentCase!Spec`:
`TypeOK`, `AtMostOneDispatch`, `FailedMeansNoTicket`, `OneTicketPerCase`,
`TicketWasIndependentlyApproved`, `ResolvedHasNothingOpen`,
`AwaitingIffApprovalOpen`, `RecordedTicketExists`, `SerializedUpdates`,
`SettledActionsStay`, `ExpiredActionsRest`, and `Promise`, that it implements
`GovernedTicket`.
`EvidenceStateMatchesEvidence` is proved where refreshes are modelled in full,
see below.

None of these is inductive. They hold of the stored case only because of what
the requests in flight may carry, so `IInv` adds:

* `CaseConsistent`: at most one action is neither absent nor failed; status,
  ticket and approver agree with it.
* `CopyCurrentOrStale` and `DraftDecided`: a request's copy is the stored case
  or an older version, and its draft is a handler's decision on that copy.
  Since the conditional write demands equal versions, a draft that is stored is
  a decision on the *current* case. This turns each write into the atomic step
  the abstract module takes.
* `ClaimOwned`: between claim and outcome one request owns the action. Others
  can only reconcile it to success, so the outcome it records is true: a
  failure is recorded only after Jira refused or nothing was sent, with no call
  left on its way.
* `CallsAccountedFor`: calls and issues stem from the one dispatch of a claim.

The first part of `IncidentCaseProofs` shows that every decision maps consistent
documents to consistent ones; its last has one lemma per action, combined in
`NextIInv`. `ExpiredIsNotAdvanced` looks at each handler's start: none puts forth
a draft that advances an expired action, and only a draft can be stored. The
other action properties and the refinement follow from `IInv` step by
step. `case_lifecycle`'s bounds were used to check `IInv` with TLC beforehand.

### Evidence refreshes

For any number of requests, attempts, queries and versions. `IInv` says what a
copy that is seconds old is worth: if it has the stored version it is the stored
case (`CopyCurrentOrStale`), and then the request's query has a higher number
than the one whose result is stored (`QueryIsNewer`), because it was started
after the copy was made and queries are numbered as they start
(`StartedInOrder`). Together with the conditional write this makes a refresh
atomic (`RefreshIsAtomic`) and evidence monotonic (`EvidenceIsNeverOlder`), the
latter by no check of query times, which the code does not have. That evidence
is complete needs that a request about to save found its query complete and
that completed queries do not change (`OutcomeIsResult`).

`RefreshesComeToAnEnd` is what of `RefreshEnds` holds without fairness: a
running refresh is at most `Attempts + 3` steps from its end (`StepsLeft`), each
of its steps brings it nearer, and nobody else's touches it. That it takes these
steps is fairness, and remains with TLC.

### Chat pipeline

All eight properties of `chat_requests`, and the type invariant, for any roles,
engines, adapters, switches and findings within `PolicyAssumption` and
`AdapterAssumption`. The invariant has four parts:

* `RequestInv` relates the request's fields to each other at each stage: nothing
  has been decided or called before its stage, a route to Bedrock was permitted
  and an answer of Bedrock's came by one, an effect goes with the status and
  answer it got.
* `TrailInv` says of each stored event that it tells the truth: a policy event
  or a snapshot has the request's decision, a route record or a snapshot its
  route. `Truthful` speaks of one event, so it survives the deletion of others;
  `ReplaysAreTruthful` follows for whatever is left.
* `RouteTaken` ties a stored route record to the calls made and to the fallback
  event, in both directions.
* `EffectsTold` is the announcement of effects.

The properties seldom hold by themselves: that a recorded route was taken depends
on when the fallback may still happen, that an outage leaves no effect on policy
being asked before the tool. The trail is reasoned about as the set of its
elements, since its order matters to no property.

### Personas

For any number of logins, teams and rotations: a user is created once, so at
most one login sets its password (`OneSetter`), and until it has, no seed's
password works; afterwards the password is that of some seed, or the maker died
or took the update branch after a lost answer (`PasswordExcused`). The other
half of `IInv` says what a login past its calls may rely on: the team it wrote
unless it was not alone, and a group membership exactly where there is a group.
`WorkingLasts` needs the former half: the only call that replaces a password
would be the creator's, and it is not there any more.
`ProvisioningIsNeverDropped` is `ProvisioningCompletes` without its fairness: a
half-made persona whose maker lives, and knows that it is the maker, has exactly
that login about to finish it, and no step takes a persona back.

### Quota and approvals

`ExcessIsBounded`: for every limit, lag and set of requests, at most `MaxLag +
|Requests| - 1` requests a day are served beyond the limit. The bound is not
inductive for the served requests alone, because those already allowed will be
served whatever the counter says; `IInv` bounds both together and adds that
every served request was counted. The bounds
`LastDay` and `MaxCount` are arbitrary.

`DecisionsAreEntitled` and `SettledDecisionsStay` hold for any numbers of
deciders and decisions in flight. Since a decision is written without a second
look, the invariant is that every request carrying one is entitled to it; that a
settled decision stays needs that no reader can still see it pending and nobody
carries an earlier read, which is what `Settled` says.

`DecisionsAreAccountedFor` carries every decision from the request that holds it
to its event or its loss, one step at a time; a reset must be given its order,
since a decision whose event is deleted first is accounted for by nothing else.

### Cost cache

For any scopes, configurations and requests in flight, any lifetime and any
limit on a request's time, under `LifetimeAssumption` and `NothingAssumption`
(the absent entry is not a cost summary). `LifetimeIsSpentOnce` speaks of
entries only, and is lost when a request that missed stores its answer with a
full lifetime; so `IInv` adds that an answer under way is no older than its
request has run (`RequestOK`, since it is as old as the question), which the
platform bounds. That ageing stays within the bound then needs no assumption:
while an entry has lifetime left its data is younger than `TTL + MaxTime`.

`ScopesAreKeptApart` says that configurations sharing the table never answer for
another's scope, since scope is in the key; that they do share entries of
different *truth*, made up or real, is what `FallbackFades` is about, and
`MadeUpStaysAway` proves its safety half: once no made-up summary is stored,
lagging or about to be stored, none appears while Cost Explorer is enabled
everywhere.

### Incident workspace

For any cases, calls, remounts, losses and changes, under the module's
assumptions. `OwnChangeStaysShown` says nothing of calls, yet it is a list
arriving late that could break it. `IInv` therefore follows calls from the page
to the API and back:

* `Founded`: a change carries the version displayed to its sender, or the next
  one once it has stored its claim, and that version exists; an answer is no
  newer than the store.
* `Expected`: a list the page is still waiting for, once read, has everything the
  page shows, except the cases it was told about meanwhile (`raced`, which are
  `outdated` once it arrives); of the other cases, one that is being changed is on
  display.
* `OneList`: the page waits for one list at a time. Without it the older of two
  could arrive last. `CreatesApart`: no other call knows a case before its
  creation is answered.
* `VersionsOK`: the page is behind the store.

`ChangesApplyAsDisplayed` follows from `Founded` and the version checks at the
load and at each write; that no case outgrows its capacity from the size check
at each write, by whatever path it gets there.

### Model-checked only

`FallbackFades`, `RefreshEnds`, `ProvisioningCompletes` and `PersonGetsThrough`:
liveness under fairness is out of the prover's reach. Of the first three the
part that needs no fairness is proved (`MadeUpStaysAway`,
`RefreshesComeToAnEnd`, `ProvisioningIsNeverDropped`). `PersonGetsThrough` has no
such part: its argument is strong fairness alone, since any single attempt may be
refused.

Every other property of the passing runs is a theorem.

## Not modelled

* *Redaction* (`redaction.py`) is regular expressions over text; `ChatPipeline`
  takes every subset of what they may find. *Knowledge base* matching and
  excerpts are functions of fixed files.
* *JWT verification* is a library's, and the local token issuers keep no state;
  what a Cognito token means once it is verified is in `PersonaLogin`.
* *First-page reads.* `_query_payloads` reads one page of each DynamoDB query. A
  page is a megabyte: at the size of a model every query fits, and a bound small
  enough to be reached would only restate the missing loop.
* *Export, metrics, listing and configuration endpoints* read and never write.
* *The MCP server* (`services/mcp-tools`) answers from fixed fixtures, and the
  API does not call it.
* *The rest of the front end* is presentation; *Terraform*, *evaluations* and
  *scripts* are not part of the running program. From Terraform the models take
  the Lambda's timeout.

What would be worth adding: resets of each table while requests of every kind
run, which today `Approvals`, `Quota` and `CostCache` have for their own table.
