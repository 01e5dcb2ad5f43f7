--------------------------- MODULE ChatPipeline ---------------------------
(***************************************************************************)
(* One POST /chat through process_chat of services/api/app/main.py: size   *)
(* check, quota, redaction, policy and routing, incident context, model,   *)
(* route record, tool, and the snapshot for replay.  Each action is a      *)
(* stretch of the handler up to its next early return or external call,    *)
(* with the audit events it appends.  The process can die between any two. *)
(*                                                                         *)
(* Abstracted: the texts, of which only what was detected in the message   *)
(* remains; the text of knowledge citations and their event; reasons,      *)
(* trace identifiers and prices.  A route is its provider: the code sets   *)
(* external_call exactly where it sets the provider to bedrock.  The quota *)
(* counter is module Quota's subject; here its answer is arbitrary.        *)
(***************************************************************************)
EXTENDS ChatPolicy, Naturals, Sequences

CONSTANTS
  TicketSystems,  \* values of AEGISDESK_TICKET_ADAPTER that are in use
  LogSources,     \* values of AEGISDESK_INCIDENT_CONTEXT_ADAPTER in use
  CachedCosts,    \* what the cost cache may hold when the request arrives
  Flags,          \* the switches that are on in some instance
  Findings        \* what redaction may find in a message

ASSUME AdapterAssumption ==
  /\ TicketSystems \subseteq {"local", "jira", "servicenow", "unsupported"}
  /\ LogSources \subseteq {"local_fixture", "cloudwatch"}
  /\ CachedCosts \subseteq {"nothing", "aws_cost_explorer", "local_fallback"}
  /\ Flags \subseteq {"killSwitch", "strict", "bedrock", "costExplorer"}
  /\ Findings \subseteq {"pii", "secrets"}

VARIABLES
  settings,   \* how the instance is configured; never changes
  message,    \* the request, as the classifiers see it; never changes
  stage,      \* where process_chat stands
  decision,   \* the chat policy's decision
  route,      \* provider of the model route
  calls,      \* history: external services that were called
  evidence,   \* sources the answer draws on
  answer,     \* which branch wrote the answer
  modelUsed,  \* bedrock_answer_used: the answer is to name Bedrock as its source
  approval,   \* whether an approval request was stored
  ticket,     \* whether the ticket system has a record of this request
  toolStatus, \* status in the ticket tool's result, which the response carries
  trail,      \* audit events of the request, in the order they were stored
  reply       \* what the client got

vars == <<settings, message, stage, decision, route, calls, evidence, answer,
          modelUsed, approval, ticket, toolStatus, trail, reply>>

\* `on' holds the switches of this instance.
Settings == [engine : Engines, on : SUBSET Flags,
             tickets : TicketSystems, logs : LogSources, cachedCost : CachedCosts]

On(flag) == flag \in settings.on

\* assess_clarification: what may be missing depends on the intent.
Clarity(intent) ==
  CASE intent = "support_guidance" -> {"complete"}
    [] intent = "incident_triage"  -> {"complete", "partial_guidance"}
    [] OTHER                       -> {"complete", "blocked_pending_details"}

\* `incident' says that the message or its context names an incident, which
\* only triage looks at; `found' is what redaction finds.
Messages == { m \in [role : Roles, intent : Intents, oversized : BOOLEAN,
                     found : SUBSET Findings, incident : BOOLEAN,
                     clarity : {"complete", "partial_guidance", "blocked_pending_details"}] :
              /\ m.clarity \in Clarity(m.intent)
              /\ m.incident => m.intent = "incident_triage" }

Found(kind) == kind \in message.found

Stages  == {"size", "quota", "redaction", "policy", "context", "model", "route",
            "tool", "announce", "completion", "done"}
Replies == {"none", "ok", "too_large", "over_quota", "unavailable", "lost"}
AnswerKinds == {"none", "control", "clarification", "bedrock", "ticket", "no_ticket",
                "approval", "cost", "no_cost"}
ToolStatuses == {"none", "open", "failed", "outcome_uncertain"}

\* Audit events carry the policy output or the route where the code puts them.
EventTypes ==
  {"request.rejected", "quota.allowed", "quota.denied", "request.received",
   "redaction.completed", "pii.detected", "secret.detected", "clarification.requested",
   "model.kill_switch_applied", "data_boundary.external_model_blocked",
   "model.route.adjusted", "policy.allowed", "policy.denied", "approval.requested",
   "incident.context.loaded", "model.fallback", "model.route.selected",
   "tool.called", "tool.blocked", "response.completed"}

Events == [type : EventTypes, policy : Decisions \cup {"none"}, route : {"none", "local", "bedrock"}]

Event(type)    == [type |-> type, policy |-> "none", route |-> "none"]
If(cond, type) == IF cond THEN <<Event(type)>> ELSE <<>>
Audited(types) == \E i \in DOMAIN trail : trail[i].type \in types

Init ==
  /\ settings \in Settings
  /\ message \in Messages
  /\ stage = "size"
  /\ decision = "none"
  /\ route = "none"
  /\ calls = {}
  /\ evidence = {}
  /\ answer = "none"
  /\ modelUsed = FALSE
  /\ approval = FALSE
  /\ ticket = FALSE
  /\ toolStatus = "none"
  /\ trail = <<>>
  /\ reply = "none"

---------------------------------------------------------------------------

Goes(from, to, events) ==
  /\ stage = from
  /\ stage' = to
  /\ trail' = trail \o events
  /\ UNCHANGED <<settings, message>>

\* An HTTPException: the request ends with this status.
Fails(from, status, events) ==
  /\ Goes(from, "done", events)
  /\ reply' = status
  /\ UNCHANGED <<decision, route, calls, evidence, answer, modelUsed, approval, ticket, toolStatus>>

CheckSize ==
  IF message.oversized
  THEN Fails("size", "too_large", <<Event("request.rejected")>>)
  ELSE /\ Goes("size", "quota", <<>>)
       /\ UNCHANGED <<decision, route, calls, evidence, answer, modelUsed, approval, ticket, toolStatus, reply>>

\* OPA cannot be asked, or answers what is not a decision.
PolicyOutage ==
  /\ settings.engine = "opa"
  /\ \/ stage \in {"quota", "policy"}
     \/ stage = "tool" /\ message.intent \in Intents \ {"incident_triage", "support_guidance"}
                       /\ message.clarity # "blocked_pending_details"
  /\ Fails(stage, "unavailable", <<>>)

OverQuota == Fails("quota", "over_quota", <<Event("quota.denied")>>)

WithinQuota ==
  /\ Goes("quota", "redaction", <<Event("quota.allowed")>>)
  /\ UNCHANGED <<decision, route, calls, evidence, answer, modelUsed, approval, ticket, toolStatus, reply>>

Redact ==
  /\ Goes("redaction", "policy",
          <<Event("request.received"), Event("redaction.completed")>>
            \o If(Found("pii"), "pii.detected")
            \o If(Found("secrets"), "secret.detected")
            \o If(message.clarity # "complete", "clarification.requested"))
  /\ UNCHANGED <<decision, route, calls, evidence, answer, modelUsed, approval, ticket, toolStatus, reply>>

Provider == EvaluateModelRoute(settings.engine, Found("pii"), Found("secrets"), message.intent)

\* select_model_route and the three overrides that follow it.
\* Fault for the checks: the data boundary is not looked at.
ChosenRouteIgnoringBoundary ==
  IF Provider = "bedrock" /\ ~ On("killSwitch") /\ message.clarity = "complete"
  THEN "bedrock" ELSE "local"

ChosenRoute ==
  IF Provider = "bedrock" /\ ~ On("killSwitch") /\ ~ On("strict")
       /\ message.clarity = "complete"
  THEN "bedrock" ELSE "local"

\* Fault for the checks: whatever is not denied is recorded as allowed.
PolicyEventTwoValued(d) ==
  IF d = "deny" THEN [Event("policy.denied") EXCEPT !.policy = d]
                ELSE [Event("policy.allowed") EXCEPT !.policy = "allow"]

PolicyEvent(d) ==
  [Event(CASE d = "deny"              -> "policy.denied"
           [] d = "allow"             -> "policy.allowed"
           [] d = "approval_required" -> "approval.requested") EXCEPT !.policy = d]

Decide ==
  LET d == EvaluateChat(settings.engine, message.role, message.intent)
  IN  /\ d \in Decisions
      /\ Provider # "unavailable"
      /\ Goes("policy", "context",
              If(Provider = "bedrock" /\ On("killSwitch"), "model.kill_switch_applied")
                \o If(Provider = "bedrock" /\ ~ On("killSwitch") /\ On("strict"),
                      "data_boundary.external_model_blocked")
                \o If(message.clarity # "complete", "model.route.adjusted")
                \o <<PolicyEvent(d)>>)
      /\ decision' = d
      /\ route' = ChosenRoute
      /\ answer' = IF message.clarity = "complete" THEN "control" ELSE "clarification"
      /\ UNCHANGED <<calls, evidence, modelUsed, approval, ticket, toolStatus, reply>>

---------------------------------------------------------------------------
(* Incident context, model, and the record of the route.                   *)

NoContext ==
  /\ ~ (message.intent = "incident_triage" /\ message.incident)
  /\ Goes("context", "model", <<>>)
  /\ UNCHANGED <<decision, route, calls, evidence, answer, modelUsed, approval, ticket, toolStatus, reply>>

\* The fixture adapter is not available under the data boundary; a query to
\* CloudWatch may fail, and then no entries are used.
LoadContext ==
  /\ message.intent = "incident_triage" /\ message.incident
  /\ Goes("context", "model", <<Event("incident.context.loaded")>>)
  /\ IF settings.logs = "cloudwatch"
     THEN /\ calls' = calls \cup {"cloudwatch"}
          /\ evidence' \in {evidence, evidence \cup {"cloudwatch"}}
     ELSE /\ calls' = calls
          /\ evidence' = IF On("strict") THEN evidence ELSE evidence \cup {"fixture"}
  /\ UNCHANGED <<decision, route, answer, modelUsed, approval, ticket, toolStatus, reply>>

\* Only then is a model asked, if the route names one.
Permitted == decision = "allow" /\ message.clarity = "complete"

AsksModel == Permitted /\ route = "bedrock"

NoModel ==
  /\ ~ AsksModel
  /\ Goes("model", "route", <<>>)
  /\ UNCHANGED <<decision, route, calls, evidence, answer, modelUsed, approval, ticket, toolStatus, reply>>

BedrockDisabled ==
  /\ AsksModel /\ ~ On("bedrock")
  /\ Goes("model", "route", <<>>)
  /\ route' = "local"
  /\ UNCHANGED <<decision, calls, evidence, answer, modelUsed, approval, ticket, toolStatus, reply>>

BedrockAnswers ==
  /\ AsksModel /\ On("bedrock")
  /\ Goes("model", "route", <<>>)
  /\ calls' = calls \cup {"bedrock"}
  /\ answer' = "bedrock"
  /\ modelUsed' = TRUE
  /\ UNCHANGED <<decision, route, evidence, approval, ticket, toolStatus, reply>>

\* Fault for the checks: the fallback forgets to change the route.
BedrockFailsKeepingRoute ==
  /\ AsksModel /\ On("bedrock")
  /\ Goes("model", "route", <<Event("model.fallback")>>)
  /\ calls' = calls \cup {"bedrock"}
  /\ UNCHANGED <<decision, route, evidence, answer, modelUsed, approval, ticket, toolStatus, reply>>

BedrockFails ==
  /\ AsksModel /\ On("bedrock")
  /\ Goes("model", "route", <<Event("model.fallback")>>)
  /\ calls' = calls \cup {"bedrock"}
  /\ route' = "local"
  /\ UNCHANGED <<decision, evidence, answer, modelUsed, approval, ticket, toolStatus, reply>>

RecordRoute ==
  /\ Goes("route", "tool", <<[Event("model.route.selected") EXCEPT !.route = route]>>)
  /\ UNCHANGED <<decision, route, calls, evidence, answer, modelUsed, approval, ticket, toolStatus, reply>>

---------------------------------------------------------------------------
(* Tools.                                                                  *)

\* The tool policy is asked first, and only for a request with all details.
Uses(intent, tool, d) ==
  /\ message.intent = intent
  /\ message.clarity # "blocked_pending_details"
  /\ d = EvaluateTool(settings.engine, message.role, tool)
  /\ d \in Decisions

\* A tool's answer replaces what was prepared, the model's answer included.
\* Fault for the checks: it does not stop being called Bedrock's.
AnswersKeepingModel(a) == answer' = a /\ modelUsed' = modelUsed

Answers(a) == answer' = a /\ modelUsed' = FALSE

NoTool ==
  /\ \/ message.intent \in {"incident_triage", "support_guidance"}
     \/ message.clarity = "blocked_pending_details"
  /\ Goes("tool", "completion", <<>>)
  /\ UNCHANGED <<decision, route, calls, evidence, answer, modelUsed, approval, ticket, toolStatus, reply>>

\* Chat opens no Jira issues; the fixture obeys the data boundary; a system
\* that is unknown, or a ServiceNow without credentials, has no adapter.
TicketBlocked ==
  /\ \E d \in Decisions :
       /\ Uses("create_ticket", "ticket.create_ticket", d)
       /\ \/ d # "allow"
          \/ settings.tickets \in {"jira", "unsupported"}
          \/ settings.tickets = "local" /\ On("strict")
  /\ Goes("tool", "announce", <<>>)
  /\ Answers("no_ticket")
  /\ toolStatus' = IF settings.tickets = "unsupported" \/ (settings.tickets = "local" /\ On("strict"))
                   THEN "failed" ELSE "none"
  /\ UNCHANGED <<decision, route, calls, evidence, approval, ticket, reply>>

\* Fault for the checks: the fixture answers under the data boundary, too.
FixtureTicketAlways ==
  /\ Uses("create_ticket", "ticket.create_ticket", "allow")
  /\ settings.tickets = "local"
  /\ Goes("tool", "announce", <<>>)
  /\ Answers("ticket")
  /\ toolStatus' = "open"
  /\ evidence' = evidence \cup {"fixture"}
  /\ UNCHANGED <<decision, route, calls, approval, ticket, reply>>

FixtureTicket ==
  /\ Uses("create_ticket", "ticket.create_ticket", "allow")
  /\ settings.tickets = "local" /\ ~ On("strict")
  /\ Goes("tool", "announce", <<>>)
  /\ Answers("ticket")
  /\ toolStatus' = "open"
  /\ evidence' = evidence \cup {"fixture"}
  /\ UNCHANGED <<decision, route, calls, approval, ticket, reply>>

\* What the adapter makes of a POST: a verified identifier, a client error,
\* or anything else - a timeout, a 5xx, 408 or 409, a body it cannot use -
\* after which nobody knows whether there is a record.
\* Fault for the checks: a timeout counts as a failure.
ServiceNowResultsTimeoutFails(created) ==
  IF created THEN {"open", "failed"} ELSE {"failed", "outcome_uncertain"}

ServiceNowResults(created) ==
  IF created THEN {"open", "outcome_uncertain"} ELSE {"failed", "outcome_uncertain"}

\* The answer of an uncertain outcome is worded as that of a failure.
ServiceNowTicket ==
  /\ Uses("create_ticket", "ticket.create_ticket", "allow")
  /\ settings.tickets = "servicenow"
  /\ calls' = calls \cup {"servicenow"}
  /\ ticket' \in BOOLEAN
  /\ toolStatus' \in ServiceNowResults(ticket')
  /\ Answers(IF toolStatus' = "open" THEN "ticket" ELSE "no_ticket")
  /\ Goes("tool", "announce", <<>>)
  /\ UNCHANGED <<decision, route, evidence, approval, reply>>

\* Fault for the checks: the approval is opened before the policy is asked.
OpenApprovalEarly ==
  /\ stage = "route"
  /\ message.intent \in AccessIntents
  /\ approval' = TRUE
  /\ Answers("approval")
  /\ Goes("route", "tool", <<>>)
  /\ UNCHANGED <<decision, route, calls, evidence, ticket, toolStatus, reply>>

\* Both access intents end in a request for temporary read-only access,
\* the one for admin access although the chat policy denies it.
OpenApproval ==
  /\ \E intent \in AccessIntents, d \in Decisions :
       Uses(intent, "access.request_temporary_read_only", d)
  /\ Goes("tool", "announce", <<>>)
  /\ approval' = TRUE
  /\ Answers("approval")
  /\ UNCHANGED <<decision, route, calls, evidence, ticket, toolStatus, reply>>

\* get_cost_summary: the cache, then a made-up summary when Cost Explorer is
\* disabled, then Cost Explorer, which may fail.
CostSummaries ==
  IF settings.cachedCost # "nothing" THEN {settings.cachedCost}
  ELSE IF On("costExplorer") THEN {"aws_cost_explorer", "unavailable"}
  ELSE {"local_fallback"}

ShowCost ==
  /\ Uses("cost_investigation", "cost.view_summary", "allow")
  /\ \E summary \in CostSummaries \ {"unavailable"} : evidence' = evidence \cup {summary}
  /\ Goes("tool", "announce", <<>>)
  /\ Answers("cost")
  /\ UNCHANGED <<decision, route, calls, approval, ticket, toolStatus, reply>>

NoCost ==
  /\ \/ \E d \in Decisions \ {"allow"} : Uses("cost_investigation", "cost.view_summary", d)
     \/ Uses("cost_investigation", "cost.view_summary", "allow")
          /\ "unavailable" \in CostSummaries
  /\ Goes("tool", "announce", <<>>)
  /\ Answers("no_cost")
  /\ UNCHANGED <<decision, route, calls, evidence, approval, ticket, toolStatus, reply>>

\* The tool's event; a cost summary that is not shown is an approval.requested,
\* whatever the reason.
Announce ==
  /\ Goes("announce", "completion",
          <<Event(CASE answer \in {"ticket", "cost"}      -> "tool.called"
                    [] answer = "no_ticket"               -> "tool.blocked"
                    [] answer \in {"approval", "no_cost"} -> "approval.requested")>>)
  /\ UNCHANGED <<decision, route, calls, evidence, answer, modelUsed, approval, ticket, toolStatus, reply>>

Complete ==
  /\ Goes("completion", "done",
          <<[type |-> "response.completed", policy |-> decision, route |-> route]>>)
  /\ reply' = "ok"
  /\ UNCHANGED <<decision, route, calls, evidence, answer, modelUsed, approval, ticket, toolStatus>>

---------------------------------------------------------------------------

\* The process dies, or a store call raises.
Crash ==
  /\ stage # "done"
  /\ Fails(stage, "lost", <<>>)

Tool == \/ NoTool \/ TicketBlocked \/ FixtureTicket \/ ServiceNowTicket
        \/ OpenApproval \/ ShowCost \/ NoCost \/ Announce

Next ==
  \/ CheckSize \/ PolicyOutage \/ OverQuota \/ WithinQuota \/ Redact \/ Decide
  \/ NoContext \/ LoadContext
  \/ NoModel \/ BedrockDisabled \/ BedrockAnswers \/ BedrockFails \/ RecordRoute
  \/ Tool \/ Complete \/ Crash

Spec == Init /\ [][Next]_vars

---------------------------------------------------------------------------
(* GET /requests/{id}/replay: the snapshot, or what single events tell.    *)

\* With time every event of the request is deleted, the oldest first when the
\* audit trail is read, in any order by DynamoDB's time to live.  The first
\* event of some types that is still there is any of them, or there is none.
Surviving(types) ==
  {trail[i] : i \in {j \in DOMAIN trail : trail[j].type \in types}} \cup {Event("none")}

Snapshots == Surviving({"response.completed"}) \ {Event("none")}

Replays ==
  {[policy |-> e.policy, route |-> e.route] : e \in Snapshots}
    \cup
  {[policy |-> p.policy, route |-> r.route] :
     p \in Surviving({"policy.allowed", "policy.denied", "approval.requested"}),
     r \in Surviving({"model.route.selected"})}

---------------------------------------------------------------------------
(* What the response says of itself.                                       *)

\* _incident_id_from_request
ContextLoaded == message.intent = "incident_triage" /\ message.incident

\* build_answer_sources, as <<kind, trusted>>.  Documents are found for every
\* intent (INTENT_DOCUMENTS), whether or not their files are there.
AnswerSources ==
  {<<IF modelUsed THEN "model" ELSE "local_control", TRUE>>, <<"policy", TRUE>>,
   <<"knowledge", TRUE>>}
    \cup {<<"clarification", TRUE>> : c \in {message.clarity} \ {"complete"}}
    \cup {<<"operational_context", evidence \cap {"cloudwatch", "fixture"} # {}>> :
            c \in {ContextLoaded} \ {FALSE}}
    \cup {<<IF a = "cost" THEN "cost" ELSE "tool", TRUE>> :
            a \in {answer} \ {"none", "control", "clarification", "bedrock"}}

\* build_trusted_source_score; the number is fresh's and these fields' sum.
TrustedSourceScore ==
  [trusted_source_found |-> \E kind \in {"knowledge", "operational_context", "cost"} :
                              <<kind, TRUE>> \in AnswerSources,
   external_model_used  |-> route = "bedrock",
   sensitive_data_sent_externally |-> route = "bedrock" /\ (Found("pii") \/ Found("secrets")),
   policy_result        |-> decision]

Score(fresh) ==
  35 + (IF TrustedSourceScore.trusted_source_found THEN 25 ELSE 0)
     + (IF fresh THEN 15 ELSE 5)
     + (IF decision = "allow" THEN 15 ELSE IF decision = "approval_required" THEN 8 ELSE 0)
     + (IF TrustedSourceScore.sensitive_data_sent_externally THEN 0 ELSE 10)

---------------------------------------------------------------------------
(* Properties.                                                             *)

\* The variables keep their shape.
TypeOK ==
  /\ settings \in Settings
  /\ message \in Messages
  /\ stage \in Stages
  /\ decision \in Decisions \cup {"none"}
  /\ route \in {"none", "local", "bedrock"}
  /\ calls \subseteq {"bedrock", "cloudwatch", "servicenow"}
  /\ evidence \subseteq {"fixture", "cloudwatch", "aws_cost_explorer", "local_fallback"}
  /\ answer \in AnswerKinds
  /\ modelUsed \in BOOLEAN
  /\ approval \in BOOLEAN
  /\ ticket \in BOOLEAN
  /\ toolStatus \in ToolStatuses
  /\ \A i \in DOMAIN trail : trail[i] \in Events
  /\ reply \in Replies

\* A message reaches Bedrock only if nothing sensitive was found in it, it is
\* not about internal operations, policy allowed it, no detail is missing,
\* and neither kill switch nor data boundary nor configuration forbids it,
\* whichever engine decided (the overrides of process_chat, docs/security/
\* customer-data-boundary.md "Blocked before any Bedrock call").
ModelCallWasPermitted ==
  "bedrock" \in calls =>
    /\ ~ Found("pii") /\ ~ Found("secrets")
    /\ message.intent \notin InternalIntents
    /\ message.clarity = "complete"
    /\ decision = "allow"
    /\ On("bedrock") /\ ~ On("killSwitch") /\ ~ On("strict")

\* The Python and the Rego policy decide alike, and Rego always decides: an
\* instance may use either (PolicyEngine.mode).
EnginesAgree ==
  /\ ChatDecision(message.role, message.intent) = RegoChatDecision(message.role, message.intent)
  /\ RouteProvider(Found("pii"), Found("secrets"), message.intent)
       = RegoRouteProvider(Found("pii"), Found("secrets"), message.intent)
  /\ \A tool \in {"ticket.create_ticket", "access.request_temporary_read_only",
                  "cost.view_summary"} :
       ToolDecision(message.role, tool) = RegoToolDecision(message.role, tool)

\* A policy outage fails closed: the client gets 503 and no tool has had an
\* effect, however far the request had come (the handlers of
\* PolicyUnavailable).
OutageHasNoEffect ==
  reply = "unavailable" => ~ approval /\ ~ ticket /\ answer \notin {"ticket", "cost"}

\* The fixture adapters stay silent under the data boundary (the adapters'
\* configuration in tools.py).
AdaptersRespectBoundary == On("strict") => "fixture" \notin evidence

BedrockAnswered == "bedrock" \in calls /\ ~ Audited({"model.fallback"})

\* For a request whose model may be asked, the recorded route is the one taken
\* in the end: Bedrock's exactly when Bedrock was called and answered, whether
\* it was disabled, failed or was kept out on the way (the route returned by
\* maybe_generate_with_bedrock or rewritten on LLMUnavailable).  For any other
\* the record is the route it would have taken - a cost question that needs
\* approval is recorded as an external call to Bedrock - and none is called.
RecordedRouteWasTaken ==
  \A i \in DOMAIN trail : trail[i].type = "model.route.selected" =>
    IF Permitted THEN trail[i].route = "bedrock" <=> BedrockAnswered
                 ELSE "bedrock" \notin calls

\* Whatever crash cut the trail short and whatever retention has deleted, a
\* replay shows the policy decision and the route of the request or none,
\* never another; with the snapshot it shows both (build_request_replay).
ReplayIsTruthful ==
  /\ \A replay \in Replays :
       replay.policy \in {decision, "none"} /\ replay.route \in {route, "none"}
  /\ \A e \in Snapshots : e.policy = decision /\ e.route = route

\* An answer says that Bedrock wrote it exactly when Bedrock's text is what
\* is returned, however tools have replaced it since (bedrock_answer_used;
\* docs/architecture/api-contracts.md "answer_sources exists so reviewers can
\* tell whether an answer came from backend control logic, Amazon Bedrock").
\* Where a model may be asked, the score names an external model exactly when
\* Bedrock was called and answered: a message that went out to a Bedrock that
\* then failed is not counted.  The score never has to admit that sensitive
\* data went out, and a policy that allowed is behind every full score.
ResponseTellsItsOrigin ==
  reply = "ok" =>
    /\ <<"model", TRUE>> \in AnswerSources <=> answer = "bedrock"
    /\ Permitted => (TrustedSourceScore.external_model_used <=> BedrockAnswered)
    /\ ~ TrustedSourceScore.sensitive_data_sent_externally
    /\ \A fresh \in BOOLEAN : Score(fresh) = 100 => fresh /\ decision = "allow"

AnnouncedAs(types) == \E i \in DOMAIN trail : trail[i].type \in types /\ trail[i].policy = "none"

\* An approval request or a call of the ticket system that no event tells of
\* is one whose request was lost right after it (store.add_approval with the
\* event after it).  A record that exists in ServiceNow never comes with the
\* status `failed', and an answer that says a ticket was created has one
\* (`ambiguous' in adapters.py).  That status, in the tool result of the
\* response, is all that tells an uncertain outcome from a failure: the text
\* of the answer and the audit event are the same for both.
EffectsAreTold ==
  /\ approval => AnnouncedAs({"approval.requested"}) \/ stage = "announce" \/ reply = "lost"
  /\ "servicenow" \in calls =>
       AnnouncedAs({"tool.called", "tool.blocked"}) \/ stage = "announce" \/ reply = "lost"
  /\ ticket => toolStatus \in {"open", "outcome_uncertain"}
  /\ "servicenow" \in calls /\ answer = "ticket" => ticket

===========================================================================
