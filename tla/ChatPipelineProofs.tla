------------------------ MODULE ChatPipelineProofs ------------------------
(***************************************************************************)
(* What holds of a chat request for every set of roles, engines, adapters, *)
(* switches and findings.  The invariant has two parts: RequestInv speaks  *)
(* of the request's state and is inductive alone, TrailInv of the audit    *)
(* events, which are compared with that state.                             *)
(***************************************************************************)
EXTENDS ChatPipeline, TLAPS

---------------------------------------------------------------------------
(* The two policy implementations.                                         *)

LEMMA RegoOfNone == \A default : Rego({}, default) = default
BY DEF Rego

LEMMA RegoOfOne == \A reason, d, default : Rego({<<reason, d>>}, default) = d
<1>. TAKE reason, d, default
<1>1. (CHOOSE r \in {<<reason, d>>} : TRUE) = <<reason, d>>
  OBVIOUS
<1>2. {<<reason, d>>} # {} /\ \E r \in {<<reason, d>>} : {<<reason, d>>} = {r}
  OBVIOUS
<1>. QED  BY <1>1, <1>2 DEF Rego

\* Exactly one chat rule holds, and it is the one of policy.py.
LEMMA ChatRulesAgree ==
  ASSUME NEW role, NEW intent
  PROVE  RegoChatDecision(role, intent) = ChatDecision(role, intent)
<1>1. CASE intent = "production_admin_access"
  <2>1. RegoChatDecision(role, intent) = Rego({<<"production_admin", "deny">>}, "unavailable")
    BY <1>1 DEF RegoChatDecision, Rule, EmployeeCost
  <2>. QED  BY <1>1, <2>1, RegoOfOne DEF ChatDecision
<1>2. CASE EmployeeCost(role, intent)
  <2>1. RegoChatDecision(role, intent) = Rego({<<"cost", "approval_required">>}, "unavailable")
    BY <1>2 DEF RegoChatDecision, Rule, EmployeeCost
  <2>. QED  BY <1>2, <2>1, RegoOfOne DEF ChatDecision, EmployeeCost
<1>3. CASE intent # "production_admin_access" /\ ~ EmployeeCost(role, intent)
  <2>1. RegoChatDecision(role, intent) = Rego({<<"allowed", "allow">>}, "unavailable")
    BY <1>3 DEF RegoChatDecision, Rule
  <2>. QED  BY <1>3, <2>1, RegoOfOne DEF ChatDecision, EmployeeCost
<1>. QED  BY <1>1, <1>2, <1>3

\* At most one routing rule holds.
LEMMA RouteRulesAgree ==
  ASSUME NEW pii \in BOOLEAN, NEW secrets \in BOOLEAN, NEW intent
  PROVE  RegoRouteProvider(pii, secrets, intent) = RouteProvider(pii, secrets, intent)
<1>1. CASE secrets
  <2>1. RegoRouteProvider(pii, secrets, intent) = Rego({<<"secrets", "local">>}, "bedrock")
    BY <1>1 DEF RegoRouteProvider, Rule
  <2>. QED  BY <1>1, <2>1, RegoOfOne DEF RouteProvider
<1>2. CASE pii /\ ~ secrets
  <2>1. RegoRouteProvider(pii, secrets, intent) = Rego({<<"pii", "local">>}, "bedrock")
    BY <1>2 DEF RegoRouteProvider, Rule
  <2>. QED  BY <1>2, <2>1, RegoOfOne DEF RouteProvider
<1>3. CASE intent \in InternalIntents /\ ~ pii /\ ~ secrets
  <2>1. RegoRouteProvider(pii, secrets, intent) = Rego({<<"internal", "local">>}, "bedrock")
    BY <1>3 DEF RegoRouteProvider, Rule
  <2>. QED  BY <1>3, <2>1, RegoOfOne DEF RouteProvider
<1>4. CASE intent \notin InternalIntents /\ ~ pii /\ ~ secrets
  <2>1. RegoRouteProvider(pii, secrets, intent) = Rego({}, "bedrock")
    BY <1>4 DEF RegoRouteProvider, Rule
  <2>. QED  BY <1>4, <2>1, RegoOfNone DEF RouteProvider
<1>. QED  BY <1>1, <1>2, <1>3, <1>4

\* Each tool has the rule that policy.py has for it.
LEMMA ToolRulesAgree ==
  ASSUME NEW role \in AllRoles,
         NEW tool \in {"ticket.create_ticket", "access.request_temporary_read_only",
                       "cost.view_summary"}
  PROVE  RegoToolDecision(role, tool) = ToolDecision(role, tool)
<1>1. CASE tool = "ticket.create_ticket"
  <2>1. RegoToolDecision(role, tool) = Rego({<<"ticket", "allow">>}, "deny")
    BY <1>1 DEF RegoToolDecision, Rule
  <2>. QED  BY <1>1, <2>1, RegoOfOne DEF ToolDecision
<1>2. CASE tool = "access.request_temporary_read_only"
  <2>1. RegoToolDecision(role, tool) = Rego({<<"access", "approval_required">>}, "deny")
    BY <1>2 DEF RegoToolDecision, Rule
  <2>. QED  BY <1>2, <2>1, RegoOfOne DEF ToolDecision
<1>3. CASE tool = "cost.view_summary" /\ role \in {"manager", "admin"}
  <2>1. RegoToolDecision(role, tool) = Rego({<<"cost", "allow">>}, "deny")
    BY <1>3 DEF RegoToolDecision, Rule
  <2>. QED  BY <1>3, <2>1, RegoOfOne DEF ToolDecision
<1>4. CASE tool = "cost.view_summary" /\ role = "employee"
  <2>1. RegoToolDecision(role, tool) = Rego({<<"cost", "approval_required">>}, "deny")
    BY <1>4 DEF RegoToolDecision, Rule
  <2>. QED  BY <1>4, <2>1, RegoOfOne DEF ToolDecision
<1>. QED  BY <1>1, <1>2, <1>3, <1>4 DEF AllRoles

\* Whichever engine names Bedrock, nothing was found and the intent may.
LEMMA BedrockNeedsCleanMessage ==
  ASSUME message \in Messages, Provider = "bedrock"
  PROVE  ~ Found("pii") /\ ~ Found("secrets") /\ message.intent \notin InternalIntents
<1>1. Found("pii") \in BOOLEAN /\ Found("secrets") \in BOOLEAN
  BY DEF Found
<1>2. Provider = RouteProvider(Found("pii"), Found("secrets"), message.intent)
  BY <1>1, RouteRulesAgree DEF Provider, EvaluateModelRoute
<1>. QED  BY <1>2 DEF RouteProvider

---------------------------------------------------------------------------
(* The request's state.                                                    *)

Early == {"size", "quota", "redaction", "policy"}

BeforeTool == Early \cup {"context", "model", "route", "tool"}

Shape ==
  /\ settings \in Settings
  /\ message \in Messages
  /\ stage \in Stages
  /\ decision \in Decisions \cup {"none"}
  /\ route \in {"none", "local", "bedrock"}
  /\ calls \subseteq {"bedrock", "cloudwatch", "servicenow"}
  /\ evidence \subseteq {"fixture", "cloudwatch", "aws_cost_explorer", "local_fallback"}
  /\ answer \in AnswerKinds
  /\ modelUsed \in BOOLEAN
  /\ approval \in BOOLEAN
  /\ ticket \in BOOLEAN
  /\ toolStatus \in ToolStatuses
  /\ reply \in Replies

\* Until the policy has decided, nothing is known, called or answered.
NothingYet ==
  stage \in Early => decision = "none" /\ route = "none" /\ calls = {} /\ answer = "none"

\* Until the tool runs, no effect is made and no tool has answered.
NoToolYet ==
  /\ stage \in BeforeTool =>
       ~ approval /\ ~ ticket /\ "servicenow" \notin calls
         /\ answer \in {"none", "control", "clarification", "bedrock"}
  /\ stage \in {"context", "model"} => answer # "bedrock" /\ "bedrock" \notin calls

EndsWithReply == reply # "none" <=> stage = "done"

RoutePermitted ==
  route = "bedrock" =>
    /\ ~ Found("pii") /\ ~ Found("secrets")
    /\ message.intent \notin InternalIntents
    /\ message.clarity = "complete"
    /\ ~ On("killSwitch") /\ ~ On("strict")

\* Bedrock is named exactly for its text, and only on its route.
OriginKnown ==
  /\ modelUsed <=> answer = "bedrock"
  /\ answer = "bedrock" => route = "bedrock"

\* Which tool the effects belong to, and what its result says of them.
EffectsAnswered ==
  /\ stage = "announce" => answer \in {"ticket", "cost", "no_ticket", "approval", "no_cost"}
  /\ approval => answer = "approval"
  /\ "servicenow" \in calls => /\ answer \in {"ticket", "no_ticket"}
                               /\ answer = "ticket" => ticket
  /\ ticket => toolStatus \in {"open", "outcome_uncertain"}

RequestInv ==
  /\ Shape
  /\ NothingYet
  /\ NoToolYet
  /\ EndsWithReply
  /\ RoutePermitted
  /\ ModelCallWasPermitted
  /\ OutageHasNoEffect
  /\ AdaptersRespectBoundary
  /\ OriginKnown
  /\ EffectsAnswered

LEMMA RequestInit == Init => RequestInv
<1>. SUFFICES ASSUME Init PROVE RequestInv
  OBVIOUS
<1>. USE DEF Init
<1>1. Shape
  BY DEF Shape, Stages, Decisions, AnswerKinds, ToolStatuses, Replies
<1>2. NothingYet /\ NoToolYet /\ EndsWithReply
  BY DEF NothingYet, NoToolYet, EndsWithReply, Early, BeforeTool
<1>3. RoutePermitted /\ ModelCallWasPermitted /\ OutageHasNoEffect
  BY DEF RoutePermitted, ModelCallWasPermitted, OutageHasNoEffect
<1>4. AdaptersRespectBoundary /\ OriginKnown /\ EffectsAnswered
  BY DEF AdaptersRespectBoundary, OriginKnown, EffectsAnswered
<1>. QED  BY <1>1, <1>2, <1>3, <1>4 DEF RequestInv

\* What every step leaves alone.
LEMMA GoesKeepsRequest ==
  ASSUME NEW from, NEW to, NEW events, Goes(from, to, events)
  PROVE  /\ stage = from /\ stage' = to
         /\ settings' = settings /\ message' = message
         /\ \A kind : Found(kind)' = Found(kind) /\ On(kind)' = On(kind)
BY DEF Goes, Found, On

\* An early end changes nothing but the stage and the reply.
LEMMA FailsKeepsRequestInv ==
  ASSUME RequestInv, stage # "done", NEW events,
         NEW status \in {"too_large", "over_quota", "unavailable", "lost"},
         status = "unavailable" => stage \in BeforeTool,
         Fails(stage, status, events)
  PROVE  RequestInv'
<1>. USE GoesKeepsRequest DEF Fails, RequestInv
<1>1. Shape'
  BY DEF Shape, Stages, Replies
<1>2. NothingYet' /\ NoToolYet' /\ EndsWithReply'
  BY DEF NothingYet, NoToolYet, EndsWithReply, Early, BeforeTool
<1>3. RoutePermitted' /\ ModelCallWasPermitted'
  BY DEF RoutePermitted, ModelCallWasPermitted
<1>4. OutageHasNoEffect'
  BY DEF OutageHasNoEffect, NoToolYet, BeforeTool
<1>5. AdaptersRespectBoundary' /\ OriginKnown' /\ EffectsAnswered'
  BY DEF AdaptersRespectBoundary, OriginKnown, EffectsAnswered
<1>. QED  BY <1>1, <1>2, <1>3, <1>4, <1>5

\* So does a step that goes on and only adds events.
LEMMA PassesKeepsRequestInv ==
  ASSUME RequestInv, NEW to \in Stages \ {"done"}, NEW events, Goes(stage, to, events),
         stage \notin {"done"},
         to \in Early => stage \in Early,
         to \in BeforeTool => stage \in BeforeTool,
         to \in {"context", "model"} => stage \in Early \cup {"context"},
         to # "announce",
         UNCHANGED <<decision, route, calls, evidence, answer, modelUsed, approval, ticket, toolStatus, reply>>
  PROVE  RequestInv'
<1>. USE GoesKeepsRequest DEF RequestInv
<1>1. Shape'
  BY DEF Shape
<1>2. NothingYet' /\ NoToolYet' /\ EndsWithReply'
  BY DEF NothingYet, NoToolYet, EndsWithReply, Early, BeforeTool, Shape
<1>3. RoutePermitted' /\ ModelCallWasPermitted' /\ OutageHasNoEffect'
  BY DEF RoutePermitted, ModelCallWasPermitted, OutageHasNoEffect
<1>4. AdaptersRespectBoundary' /\ OriginKnown' /\ EffectsAnswered'
  BY DEF AdaptersRespectBoundary, OriginKnown, EffectsAnswered
<1>. QED  BY <1>1, <1>2, <1>3, <1>4

LEMMA DecideKeepsRequestInv ==
  ASSUME RequestInv, Decide
  PROVE  RequestInv'
<1>. USE DEF RequestInv
<1>1. /\ stage = "policy" /\ stage' = "context" /\ settings' = settings /\ message' = message
      /\ \A kind : Found(kind)' = Found(kind) /\ On(kind)' = On(kind)
  BY GoesKeepsRequest DEF Decide
<1>2. /\ decision' \in Decisions /\ route' = ChosenRoute
      /\ answer' = (IF message.clarity = "complete" THEN "control" ELSE "clarification")
      /\ UNCHANGED <<calls, evidence, modelUsed, approval, ticket, toolStatus, reply>>
  BY DEF Decide
<1>3. decision = "none" /\ route = "none" /\ calls = {} /\ answer = "none"
        /\ ~ approval /\ ~ ticket
  BY <1>1 DEF NothingYet, NoToolYet, Early, BeforeTool
<1>4. Shape'
  BY <1>1, <1>2 DEF Shape, Stages, AnswerKinds, ChosenRoute
<1>5. NothingYet' /\ NoToolYet' /\ EndsWithReply'
  BY <1>1, <1>2, <1>3 DEF NothingYet, NoToolYet, EndsWithReply, Early, BeforeTool
<1>6. RoutePermitted'
  <2>. SUFFICES ASSUME route' = "bedrock"
                PROVE  /\ ~ Found("pii") /\ ~ Found("secrets")
                       /\ message.intent \notin InternalIntents
                       /\ message.clarity = "complete"
                       /\ ~ On("killSwitch") /\ ~ On("strict")
    BY <1>1 DEF RoutePermitted
  <2>1. Provider = "bedrock" /\ ~ On("killSwitch") /\ ~ On("strict")
          /\ message.clarity = "complete"
    BY <1>2 DEF ChosenRoute
  <2>. QED  BY <2>1, BedrockNeedsCleanMessage DEF Shape
<1>7. ModelCallWasPermitted' /\ OutageHasNoEffect'
  BY <1>2, <1>3 DEF ModelCallWasPermitted, OutageHasNoEffect
<1>8. AdaptersRespectBoundary' /\ OriginKnown' /\ EffectsAnswered'
  BY <1>1, <1>2, <1>3 DEF AdaptersRespectBoundary, OriginKnown, EffectsAnswered
<1>. QED  BY <1>4, <1>5, <1>6, <1>7, <1>8

LEMMA LoadContextKeepsRequestInv ==
  ASSUME RequestInv, LoadContext
  PROVE  RequestInv'
<1>. USE DEF RequestInv
<1>1. /\ stage = "context" /\ stage' = "model" /\ settings' = settings /\ message' = message
      /\ \A kind : Found(kind)' = Found(kind) /\ On(kind)' = On(kind)
  BY GoesKeepsRequest DEF LoadContext
<1>2. /\ calls' \in {calls, calls \cup {"cloudwatch"}}
      /\ \/ evidence' \in {evidence, evidence \cup {"cloudwatch"}}
         \/ ~ On("strict") /\ evidence' = evidence \cup {"fixture"}
      /\ UNCHANGED <<decision, route, answer, modelUsed, approval, ticket, toolStatus, reply>>
  BY DEF LoadContext
<1>3. Shape'
  BY <1>1, <1>2 DEF Shape, Stages
<1>4. NothingYet' /\ NoToolYet' /\ EndsWithReply'
  BY <1>1, <1>2 DEF NothingYet, NoToolYet, EndsWithReply, Early, BeforeTool
<1>5. RoutePermitted' /\ ModelCallWasPermitted' /\ OutageHasNoEffect'
  BY <1>1, <1>2 DEF RoutePermitted, ModelCallWasPermitted, OutageHasNoEffect
<1>6. AdaptersRespectBoundary'
  BY <1>1, <1>2 DEF AdaptersRespectBoundary
<1>7. OriginKnown' /\ EffectsAnswered'
  BY <1>1, <1>2 DEF OriginKnown, EffectsAnswered
<1>. QED  BY <1>3, <1>4, <1>5, <1>6, <1>7

\* Bedrock is asked only where the route permits it, and answers once.
LEMMA ModelKeepsRequestInv ==
  ASSUME RequestInv, BedrockDisabled \/ BedrockAnswers \/ BedrockFails
  PROVE  RequestInv'
<1>. USE DEF RequestInv
<1>1. /\ stage = "model" /\ stage' = "route" /\ settings' = settings /\ message' = message
      /\ \A kind : Found(kind)' = Found(kind) /\ On(kind)' = On(kind)
  BY GoesKeepsRequest DEF BedrockDisabled, BedrockAnswers, BedrockFails
<1>2. /\ AsksModel
      /\ UNCHANGED <<decision, evidence, approval, ticket, toolStatus, reply>>
      /\ \/ route' = "local" /\ calls' = calls /\ UNCHANGED <<answer, modelUsed>>
         \/ On("bedrock") /\ route' = "local" /\ calls' = calls \cup {"bedrock"}
              /\ UNCHANGED <<answer, modelUsed>>
         \/ On("bedrock") /\ route' = route /\ calls' = calls \cup {"bedrock"}
              /\ answer' = "bedrock" /\ modelUsed' = TRUE
  BY DEF BedrockDisabled, BedrockAnswers, BedrockFails
<1>3. answer # "bedrock" /\ ~ approval /\ ~ ticket /\ "servicenow" \notin calls
        /\ answer \in {"none", "control", "clarification"}
  BY <1>1 DEF NoToolYet, BeforeTool
<1>4. Shape'
  <2>1. /\ calls' \subseteq {"bedrock", "cloudwatch", "servicenow"}
        /\ answer' \in AnswerKinds /\ modelUsed' \in BOOLEAN
        /\ route' \in {"none", "local", "bedrock"}
    BY <1>2 DEF Shape, AnswerKinds
  <2>2. /\ UNCHANGED <<settings, message, decision, evidence, approval, ticket, toolStatus, reply>>
        /\ stage' \in Stages
    BY <1>1, <1>2 DEF Stages
  <2>. QED  BY <2>1, <2>2 DEF Shape
<1>5. NothingYet' /\ NoToolYet' /\ EndsWithReply'
  BY <1>1, <1>2, <1>3 DEF NothingYet, NoToolYet, EndsWithReply, Early, BeforeTool
<1>6. RoutePermitted'
  BY <1>1, <1>2 DEF RoutePermitted
<1>7. ModelCallWasPermitted'
  BY <1>1, <1>2 DEF RoutePermitted, ModelCallWasPermitted, AsksModel, Permitted
<1>8. OutageHasNoEffect' /\ AdaptersRespectBoundary'
  BY <1>1, <1>2, <1>3 DEF OutageHasNoEffect, AdaptersRespectBoundary, EndsWithReply
<1>9. OriginKnown' /\ EffectsAnswered'
  BY <1>1, <1>2, <1>3 DEF OriginKnown, EffectsAnswered, AsksModel
<1>. QED  BY <1>4, <1>5, <1>6, <1>7, <1>8, <1>9

\* Each tool that runs writes its own answer and its own effect.
ToolRuns == \/ TicketBlocked \/ FixtureTicket \/ ServiceNowTicket
            \/ OpenApproval \/ ShowCost \/ NoCost

LEMMA ToolKeepsRequestInv ==
  ASSUME RequestInv, ToolRuns
  PROVE  RequestInv'
<1>. USE DEF RequestInv
<1>1. /\ stage = "tool" /\ stage' = "announce" /\ settings' = settings /\ message' = message
      /\ \A kind : Found(kind)' = Found(kind) /\ On(kind)' = On(kind)
  BY GoesKeepsRequest
     DEF ToolRuns, TicketBlocked, FixtureTicket, ServiceNowTicket, OpenApproval, ShowCost, NoCost
<1>2. /\ UNCHANGED <<decision, route, reply>>
      /\ modelUsed' = FALSE /\ toolStatus' \in ToolStatuses
      /\ \/ answer' \in {"no_ticket", "no_cost"}
              /\ UNCHANGED <<calls, evidence, approval, ticket>>
         \/ answer' = "ticket" /\ ~ On("strict") /\ evidence' = evidence \cup {"fixture"}
              /\ UNCHANGED <<calls, approval, ticket>>
         \/ answer' = "approval" /\ approval' = TRUE /\ UNCHANGED <<calls, evidence, ticket>>
         \/ answer' \in {"ticket", "no_ticket"}
              /\ ticket' \in BOOLEAN /\ (answer' = "ticket" => ticket')
              /\ (ticket' => toolStatus' \in {"open", "outcome_uncertain"})
              /\ calls' = calls \cup {"servicenow"} /\ UNCHANGED <<evidence, approval>>
         \/ \E summary \in CostSummaries \ {"unavailable"} :
              answer' = "cost" /\ evidence' = evidence \cup {summary}
                /\ UNCHANGED <<calls, approval, ticket>>
  <2>. USE DEF ToolStatuses, Shape
  <2>1. CASE TicketBlocked
    BY <2>1 DEF TicketBlocked, Answers
  <2>2. CASE FixtureTicket
    BY <2>2 DEF FixtureTicket, Answers
  <2>3. CASE ServiceNowTicket
    <3>1. /\ toolStatus' \in (IF ticket' THEN {"open", "outcome_uncertain"}
                                          ELSE {"failed", "outcome_uncertain"})
          /\ ticket' \in BOOLEAN /\ modelUsed' = FALSE
          /\ answer' = (IF toolStatus' = "open" THEN "ticket" ELSE "no_ticket")
          /\ calls' = calls \cup {"servicenow"}
          /\ UNCHANGED <<decision, route, evidence, approval, reply>>
      BY <2>3 DEF ServiceNowTicket, ServiceNowResults, Answers
    <3>. QED  BY <3>1
  <2>4. CASE OpenApproval
    BY <2>4 DEF OpenApproval, Answers
  <2>5. CASE ShowCost
    BY <2>5 DEF ShowCost, Answers
  <2>6. CASE NoCost
    BY <2>6 DEF NoCost, Answers
  <2>. QED  BY <2>1, <2>2, <2>3, <2>4, <2>5, <2>6 DEF ToolRuns
<1>3. CostSummaries \ {"unavailable"} \subseteq {"aws_cost_explorer", "local_fallback"}
  BY AdapterAssumption DEF CostSummaries, Shape, Settings
<1>4. ~ approval /\ ~ ticket /\ "servicenow" \notin calls
  BY <1>1 DEF NoToolYet, BeforeTool
<1>5. Shape'
  BY <1>1, <1>2, <1>3 DEF Shape, Stages, AnswerKinds
<1>6. NothingYet' /\ NoToolYet' /\ EndsWithReply'
  BY <1>1, <1>2 DEF NothingYet, NoToolYet, EndsWithReply, Early, BeforeTool
<1>7. RoutePermitted' /\ ModelCallWasPermitted'
  BY <1>1, <1>2 DEF RoutePermitted, ModelCallWasPermitted
<1>8. OutageHasNoEffect'
  BY <1>1, <1>2 DEF OutageHasNoEffect, EndsWithReply
<1>9. AdaptersRespectBoundary'
  BY <1>1, <1>2, <1>3 DEF AdaptersRespectBoundary
<1>10. OriginKnown' /\ EffectsAnswered'
  BY <1>1, <1>2, <1>4 DEF OriginKnown, EffectsAnswered
<1>. QED  BY <1>5, <1>6, <1>7, <1>8, <1>9, <1>10

LEMMA CompleteKeepsRequestInv ==
  ASSUME RequestInv, Complete
  PROVE  RequestInv'
<1>. USE GoesKeepsRequest DEF Complete, RequestInv
<1>1. Shape'
  BY DEF Shape, Stages, Replies
<1>2. NothingYet' /\ NoToolYet' /\ EndsWithReply'
  BY DEF NothingYet, NoToolYet, EndsWithReply, Early, BeforeTool
<1>3. RoutePermitted' /\ ModelCallWasPermitted' /\ OutageHasNoEffect'
  BY DEF RoutePermitted, ModelCallWasPermitted, OutageHasNoEffect
<1>4. AdaptersRespectBoundary' /\ OriginKnown' /\ EffectsAnswered'
  BY DEF AdaptersRespectBoundary, OriginKnown, EffectsAnswered
<1>. QED  BY <1>1, <1>2, <1>3, <1>4

LEMMA RequestStep == RequestInv /\ [Next]_vars => RequestInv'
<1>. SUFFICES ASSUME RequestInv, [Next]_vars PROVE RequestInv'
  OBVIOUS
<1>. USE DEF BeforeTool, Early, Stages
<1>1. CASE CheckSize
  <2>1. stage = "size"
    BY <1>1 DEF CheckSize, Fails, Goes
  <2>2. CASE message.oversized
    BY <1>1, <2>1, <2>2, FailsKeepsRequestInv DEF CheckSize
  <2>3. CASE ~ message.oversized
    BY <1>1, <2>1, <2>3, PassesKeepsRequestInv DEF CheckSize
  <2>. QED  BY <2>2, <2>3
<1>2. CASE PolicyOutage
  BY <1>2, FailsKeepsRequestInv DEF PolicyOutage
<1>3. CASE OverQuota
  <2>1. stage = "quota"
    BY <1>3 DEF OverQuota, Fails, Goes
  <2>. QED  BY <1>3, <2>1, FailsKeepsRequestInv DEF OverQuota
<1>4. CASE WithinQuota
  <2>1. stage = "quota"
    BY <1>4 DEF WithinQuota, Goes
  <2>. QED  BY <1>4, <2>1, PassesKeepsRequestInv DEF WithinQuota
<1>5. CASE Redact
  <2>1. stage = "redaction"
    BY <1>5 DEF Redact, Goes
  <2>. QED  BY <1>5, <2>1, PassesKeepsRequestInv DEF Redact
<1>6. CASE Decide
  BY <1>6, DecideKeepsRequestInv
<1>7. CASE NoContext
  <2>1. stage = "context"
    BY <1>7 DEF NoContext, Goes
  <2>. QED  BY <1>7, <2>1, PassesKeepsRequestInv DEF NoContext
<1>8. CASE LoadContext
  BY <1>8, LoadContextKeepsRequestInv
<1>9. CASE NoModel
  <2>1. stage = "model"
    BY <1>9 DEF NoModel, Goes
  <2>. QED  BY <1>9, <2>1, PassesKeepsRequestInv DEF NoModel
<1>10. CASE BedrockDisabled \/ BedrockAnswers \/ BedrockFails
  BY <1>10, ModelKeepsRequestInv
<1>11. CASE RecordRoute
  <2>1. stage = "route"
    BY <1>11 DEF RecordRoute, Goes
  <2>. QED  BY <1>11, <2>1, PassesKeepsRequestInv DEF RecordRoute
<1>12. CASE NoTool
  <2>1. stage = "tool"
    BY <1>12 DEF NoTool, Goes
  <2>. QED  BY <1>12, <2>1, PassesKeepsRequestInv DEF NoTool
<1>13. CASE ToolRuns
  BY <1>13, ToolKeepsRequestInv
<1>14. CASE Announce
  <2>1. stage = "announce"
    BY <1>14 DEF Announce, Goes
  <2>. QED  BY <1>14, <2>1, PassesKeepsRequestInv DEF Announce
<1>15. CASE Complete
  BY <1>15, CompleteKeepsRequestInv
<1>16. CASE Crash
  BY <1>16, FailsKeepsRequestInv DEF Crash
<1>17. CASE UNCHANGED vars
  BY <1>17 DEF vars, RequestInv, Shape, NothingYet, NoToolYet, EndsWithReply, RoutePermitted,
     ModelCallWasPermitted, OutageHasNoEffect, AdaptersRespectBoundary, OriginKnown,
     EffectsAnswered, Found, On
<1>. QED
  BY <1>1, <1>2, <1>3, <1>4, <1>5, <1>6, <1>7, <1>8, <1>9, <1>10, <1>11, <1>12, <1>13, <1>14,
     <1>15, <1>16, <1>17 DEF Next, Tool, ToolRuns

THEOREM RequestInvariant == Spec => []RequestInv
BY RequestInit, RequestStep, PTL DEF Spec

---------------------------------------------------------------------------
(* What an answer says of itself.                                          *)

LEMMA ModelSourceIsModelUsed == <<"model", TRUE>> \in AnswerSources <=> modelUsed
<1>1. CASE modelUsed
  BY <1>1 DEF AnswerSources
<1>2. CASE ~ modelUsed
  <2>1. \A a : <<IF a = "cost" THEN "cost" ELSE "tool", TRUE>> # <<"model", TRUE>>
    OBVIOUS
  <2>2. \A trusted : <<"operational_context", trusted>> # <<"model", TRUE>>
    OBVIOUS
  <2>3. /\ <<"local_control", TRUE>> # <<"model", TRUE>> /\ <<"policy", TRUE>> # <<"model", TRUE>>
        /\ <<"knowledge", TRUE>> # <<"model", TRUE>> /\ <<"clarification", TRUE>> # <<"model", TRUE>>
    OBVIOUS
  <2>. QED  BY <1>2, <2>1, <2>2, <2>3, Zenon DEF AnswerSources
<1>. QED  BY <1>1, <1>2

\* A score of 100 leaves no summand below its largest value.
LEMMA FullScoreWasAllowed ==
  ASSUME NEW fresh \in BOOLEAN, Score(fresh) = 100
  PROVE  fresh /\ decision = "allow"
<1>. DEFINE source  == IF TrustedSourceScore.trusted_source_found THEN 25 ELSE 0
            age     == IF fresh THEN 15 ELSE 5
            policy  == IF decision = "allow" THEN 15
                       ELSE IF decision = "approval_required" THEN 8 ELSE 0
            privacy == IF TrustedSourceScore.sensitive_data_sent_externally THEN 0 ELSE 10
<1>1. Score(fresh) = 35 + source + age + policy + privacy
  BY DEF Score
<1>2. source \in {0, 25} /\ age \in {5, 15} /\ policy \in {0, 8, 15} /\ privacy \in {0, 10}
  OBVIOUS
<1>3. age = 15 => fresh
  OBVIOUS
<1>4. policy = 15 => decision = "allow"
  OBVIOUS
<1>5. age = 15 /\ policy = 15
  <2>. HIDE DEF source, age, policy, privacy
  <2>. QED  BY <1>1, <1>2
<1>. QED  BY <1>3, <1>4, <1>5

LEMMA EnginesFromShape == Shape => EnginesAgree
<1>. SUFFICES ASSUME Shape PROVE EnginesAgree
  OBVIOUS
<1>1. message.role \in AllRoles /\ Found("pii") \in BOOLEAN /\ Found("secrets") \in BOOLEAN
  BY PolicyAssumption DEF Shape, Messages, Found
<1>. QED  BY <1>1, ChatRulesAgree, RouteRulesAgree, ToolRulesAgree DEF EnginesAgree

---------------------------------------------------------------------------
(* The audit events, as the set of those stored so far.                    *)

Elements(s) == {s[i] : i \in DOMAIN s}

Told == Elements(trail)

LEMMA ElementsOfEmpty == <<>> \in Seq(Events) /\ Elements(<<>>) = {}
BY DEF Elements

LEMMA ElementsOfOne ==
  ASSUME NEW e \in Events
  PROVE  <<e>> \in Seq(Events) /\ Elements(<<e>>) = {e}
BY DEF Elements

LEMMA ElementsOfBoth ==
  ASSUME NEW s \in Seq(Events), NEW t \in Seq(Events)
  PROVE  s \o t \in Seq(Events) /\ Elements(s \o t) = Elements(s) \cup Elements(t)
<1>1. s \o t \in Seq(Events) /\ Len(s \o t) = Len(s) + Len(t)
        /\ DOMAIN (s \o t) = 1 .. (Len(s) + Len(t))
  OBVIOUS
<1>2. \A i \in DOMAIN s : i \in DOMAIN (s \o t) /\ (s \o t)[i] = s[i]
  OBVIOUS
<1>3. \A i \in DOMAIN t : Len(s) + i \in DOMAIN (s \o t) /\ (s \o t)[Len(s) + i] = t[i]
  OBVIOUS
<1>4. \A i \in DOMAIN (s \o t) : \/ i \in DOMAIN s
                                 \/ i - Len(s) \in DOMAIN t /\ i = Len(s) + (i - Len(s))
  OBVIOUS
<1>5. Elements(s) \cup Elements(t) \subseteq Elements(s \o t)
  BY <1>2, <1>3 DEF Elements
<1>6. Elements(s \o t) \subseteq Elements(s) \cup Elements(t)
  <2>. SUFFICES ASSUME NEW i \in DOMAIN (s \o t)
                PROVE  (s \o t)[i] \in Elements(s) \cup Elements(t)
    BY DEF Elements
  <2>1. CASE i \in DOMAIN s
    BY <1>2, <2>1 DEF Elements
  <2>2. CASE i - Len(s) \in DOMAIN t /\ i = Len(s) + (i - Len(s))
    BY <1>3, <2>2 DEF Elements
  <2>. QED  BY <1>4, <2>1, <2>2
<1>. QED  BY <1>1, <1>5, <1>6

\* Types of events that say nothing of policy or route.
PlainTypes == EventTypes \ {"model.route.selected", "model.fallback", "response.completed"}

Plain == {e \in Events : e.policy = "none" /\ e.route = "none" /\ e.type \in PlainTypes}

LEMMA EventIsEvent ==
  ASSUME NEW type \in EventTypes
  PROVE  Event(type) \in Events /\ Event(type).type = type
           /\ Event(type).policy = "none" /\ Event(type).route = "none"
BY DEF Events, Event

LEMMA EventIsPlain ==
  ASSUME NEW type \in PlainTypes
  PROVE  Event(type) \in Plain
BY EventIsEvent DEF PlainTypes, Plain

LEMMA IfIsPlain ==
  ASSUME NEW type \in PlainTypes, NEW cond \in BOOLEAN
  PROVE  If(cond, type) \in Seq(Events) /\ Elements(If(cond, type)) \subseteq Plain
<1>1. Event(type) \in Plain /\ Event(type) \in Events
  BY EventIsPlain DEF Plain
<1>. QED  BY <1>1, ElementsOfEmpty, ElementsOfOne DEF If

---------------------------------------------------------------------------
(* What a stored event says stays true.                                    *)

BeforeRoute == Early \cup {"context", "model", "route"}

Truthful(e) ==
  /\ e.policy \in {decision, "none"}
  /\ e.route \in {route, "none"}
  /\ stage \in BeforeRoute => e.route = "none" /\ e.type # "model.route.selected"
  /\ stage \in BeforeRoute \ {"route"} => e.type # "model.fallback"
  /\ e.type = "model.route.selected" => e.route = route
  /\ e.type = "model.fallback" => route = "local"
  /\ e.type = "response.completed" =>
       stage = "done" /\ e.policy = decision /\ e.route = route

TrailInv == trail \in Seq(Events) /\ \A e \in Told : Truthful(e)

\* Only these steps store these events.
Placed(e) == /\ e.type = "model.fallback" => BedrockFails
             /\ e.type = "model.route.selected" => RecordRoute

\* A step adds events that are in place and true after it.
Adds(events) == /\ events \in Seq(Events)
                /\ trail' = trail \o events
                /\ \A e \in Elements(events) : Placed(e) /\ Truthful(e)'

LEMMA PlainIsTruthful == \A e \in Plain : Placed(e) /\ Truthful(e)'
BY DEF Plain, PlainTypes, Placed, Truthful

LEMMA AddsNothing ==
  ASSUME NEW from, NEW to, trail \in Seq(Events), Goes(from, to, <<>>)
  PROVE  Adds(<<>>)
BY ElementsOfEmpty DEF Goes, Adds

LEMMA AddsPlain ==
  ASSUME NEW from, NEW to, NEW type \in PlainTypes, Goes(from, to, <<Event(type)>>)
  PROVE  Adds(<<Event(type)>>)
<1>1. Event(type) \in Plain /\ Event(type) \in Events
  BY EventIsPlain DEF Plain
<1>. QED  BY <1>1, ElementsOfOne, PlainIsTruthful DEF Goes, Adds

LEMMA RedactAdds == ASSUME Redact PROVE \E events : Adds(events)
<1>. DEFINE E1 == <<Event("request.received"), Event("redaction.completed")>>
            E2 == If(Found("pii"), "pii.detected")
            E3 == If(Found("secrets"), "secret.detected")
            E4 == If(message.clarity # "complete", "clarification.requested")
<1>1. E1 \in Seq(Events) /\ Elements(E1) \subseteq Plain
  <2>1. /\ Event("request.received") \in Plain /\ Event("request.received") \in Events
        /\ Event("redaction.completed") \in Plain /\ Event("redaction.completed") \in Events
    BY EventIsPlain DEF PlainTypes, EventTypes, Plain
  <2>2. E1 \in Seq(Events)
    BY <2>1
  <2>3. Elements(E1) = {Event("request.received"), Event("redaction.completed")}
    BY DEF Elements
  <2>. QED  BY <2>1, <2>2, <2>3
<1>2. E2 \in Seq(Events) /\ Elements(E2) \subseteq Plain
  <2>1. Found("pii") \in BOOLEAN
    BY DEF Found
  <2>. QED  BY <2>1, IfIsPlain DEF PlainTypes, EventTypes
<1>3. E3 \in Seq(Events) /\ Elements(E3) \subseteq Plain
  <2>1. Found("secrets") \in BOOLEAN
    BY DEF Found
  <2>. QED  BY <2>1, IfIsPlain DEF PlainTypes, EventTypes
<1>4. E4 \in Seq(Events) /\ Elements(E4) \subseteq Plain
  BY IfIsPlain DEF PlainTypes, EventTypes
<1>5. trail' = trail \o (E1 \o E2 \o E3 \o E4)
  BY DEF Redact, Goes
<1>. HIDE DEF E1, E2, E3, E4
<1>6. E1 \o E2 \in Seq(Events) /\ Elements(E1 \o E2) \subseteq Plain
  BY <1>1, <1>2, ElementsOfBoth
<1>7. E1 \o E2 \o E3 \in Seq(Events) /\ Elements(E1 \o E2 \o E3) \subseteq Plain
  BY <1>3, <1>6, ElementsOfBoth
<1>8. E1 \o E2 \o E3 \o E4 \in Seq(Events) /\ Elements(E1 \o E2 \o E3 \o E4) \subseteq Plain
  BY <1>4, <1>7, ElementsOfBoth
<1>. QED  BY <1>5, <1>8, PlainIsTruthful DEF Adds

LEMMA PolicyEventTellsDecision ==
  ASSUME NEW d \in Decisions
  PROVE  /\ PolicyEvent(d) \in Events
         /\ PolicyEvent(d).policy = d /\ PolicyEvent(d).route = "none"
         /\ PolicyEvent(d).type \in PlainTypes
<1>1. CASE d = "allow"
  <2>1. PolicyEvent(d) = [Event("policy.allowed") EXCEPT !.policy = d]
    BY <1>1 DEF PolicyEvent
  <2>. QED  BY <2>1 DEF Event, Events, EventTypes, PlainTypes
<1>2. CASE d = "deny"
  <2>1. PolicyEvent(d) = [Event("policy.denied") EXCEPT !.policy = d]
    BY <1>2 DEF PolicyEvent
  <2>. QED  BY <2>1 DEF Event, Events, EventTypes, PlainTypes
<1>3. CASE d = "approval_required"
  <2>1. PolicyEvent(d) = [Event("approval.requested") EXCEPT !.policy = d]
    BY <1>3 DEF PolicyEvent
  <2>. QED  BY <2>1 DEF Event, Events, EventTypes, PlainTypes
<1>. QED  BY <1>1, <1>2, <1>3 DEF Decisions

LEMMA DecideAdds == ASSUME Decide PROVE \E events : Adds(events)
<1>. DEFINE E1 == If(Provider = "bedrock" /\ On("killSwitch"), "model.kill_switch_applied")
            E2 == If(Provider = "bedrock" /\ ~ On("killSwitch") /\ On("strict"),
                     "data_boundary.external_model_blocked")
            E3 == If(message.clarity # "complete", "model.route.adjusted")
            d == EvaluateChat(settings.engine, message.role, message.intent)
            E4 == <<PolicyEvent(d)>>
<1>1. E1 \in Seq(Events) /\ Elements(E1) \subseteq Plain
  BY IfIsPlain DEF PlainTypes, EventTypes
<1>2. E2 \in Seq(Events) /\ Elements(E2) \subseteq Plain
  BY IfIsPlain DEF PlainTypes, EventTypes
<1>3. E3 \in Seq(Events) /\ Elements(E3) \subseteq Plain
  BY IfIsPlain DEF PlainTypes, EventTypes
<1>4. d \in Decisions /\ decision' = d /\ trail' = trail \o (E1 \o E2 \o E3 \o E4)
  BY DEF Decide, Goes
<1>5. PICK e : /\ e = PolicyEvent(d) /\ e \in Events
               /\ e.policy = d /\ e.route = "none" /\ e.type \in PlainTypes
  BY <1>4, PolicyEventTellsDecision
<1>6. E4 \in Seq(Events) /\ Elements(E4) = {e}
  BY <1>5, ElementsOfOne
<1>7. Placed(e) /\ Truthful(e)'
  BY <1>4, <1>5 DEF Placed, Truthful, PlainTypes
<1>. HIDE DEF E1, E2, E3, E4, d
<1>8. E1 \o E2 \in Seq(Events) /\ Elements(E1 \o E2) \subseteq Plain
  BY <1>1, <1>2, ElementsOfBoth
<1>9. E1 \o E2 \o E3 \in Seq(Events) /\ Elements(E1 \o E2 \o E3) \subseteq Plain
  BY <1>3, <1>8, ElementsOfBoth
<1>10. /\ E1 \o E2 \o E3 \o E4 \in Seq(Events)
       /\ Elements(E1 \o E2 \o E3 \o E4) = Elements(E1 \o E2 \o E3) \cup {e}
  BY <1>6, <1>9, ElementsOfBoth
<1>11. \A x \in Elements(E1 \o E2 \o E3 \o E4) : Placed(x) /\ Truthful(x)'
  BY <1>7, <1>9, <1>10, PlainIsTruthful
<1>. QED  BY <1>4, <1>10, <1>11 DEF Adds

LEMMA AddsOne ==
  ASSUME NEW e \in Events, trail' = trail \o <<e>>, Placed(e), Truthful(e)'
  PROVE  \E events : Adds(events)
<1>1. <<e>> \in Seq(Events) /\ Elements(<<e>>) = {e}
  BY ElementsOfOne
<1>2. \A x \in Elements(<<e>>) : Placed(x) /\ Truthful(x)'
  BY <1>1
<1>. QED  BY <1>1, <1>2 DEF Adds

LEMMA BedrockFailsAdds == ASSUME BedrockFails PROVE \E events : Adds(events)
<1>1. PICK e : e = Event("model.fallback")
  OBVIOUS
<1>2. e \in Events /\ e.type = "model.fallback" /\ e.policy = "none" /\ e.route = "none"
  BY <1>1, EventIsEvent DEF EventTypes
<1>3. trail' = trail \o <<e>> /\ stage' = "route" /\ route' = "local"
  BY <1>1 DEF BedrockFails, Goes
<1>4. Placed(e) /\ Truthful(e)'
  BY <1>2, <1>3 DEF Placed, Truthful, BeforeRoute
<1>. QED  BY <1>2, <1>3, <1>4, AddsOne

LEMMA RecordRouteAdds ==
  ASSUME RecordRoute, route \in {"none", "local", "bedrock"}
  PROVE  \E events : Adds(events)
<1>1. PICK e : e = [Event("model.route.selected") EXCEPT !.route = route]
  OBVIOUS
<1>2. e \in Events /\ e.type = "model.route.selected" /\ e.policy = "none" /\ e.route = route
  BY <1>1 DEF Event, Events, EventTypes
<1>3. trail' = trail \o <<e>> /\ stage' = "tool" /\ route' = route
  BY <1>1 DEF RecordRoute, Goes
<1>4. Placed(e) /\ Truthful(e)'
  BY <1>2, <1>3 DEF Placed, Truthful, BeforeRoute, Early
<1>. QED  BY <1>2, <1>3, <1>4, AddsOne

LEMMA CompleteAdds ==
  ASSUME Complete, route \in {"none", "local", "bedrock"}, decision \in Decisions \cup {"none"}
  PROVE  \E events : Adds(events)
<1>1. PICK e : e = [type |-> "response.completed", policy |-> decision, route |-> route]
  OBVIOUS
<1>2. e \in Events /\ e.type = "response.completed" /\ e.policy = decision /\ e.route = route
  BY <1>1 DEF Events, EventTypes
<1>3. trail' = trail \o <<e>> /\ stage' = "done" /\ route' = route /\ decision' = decision
  BY <1>1 DEF Complete, Goes
<1>4. Placed(e) /\ Truthful(e)'
  BY <1>2, <1>3 DEF Placed, Truthful, BeforeRoute, Early
<1>. QED  BY <1>2, <1>3, <1>4, AddsOne

\* The event that tells of a tool, named after its answer.
LEMMA AnnounceTells ==
  ASSUME RequestInv, Announce
  PROVE  \E type \in {"tool.called", "tool.blocked", "approval.requested"} :
           /\ Goes("announce", "completion", <<Event(type)>>)
           /\ answer = "approval" => type = "approval.requested"
           /\ answer \in {"ticket", "no_ticket"} => type \in {"tool.called", "tool.blocked"}
<1>. DEFINE T == CASE answer \in {"ticket", "cost"}      -> "tool.called"
                   [] answer = "no_ticket"               -> "tool.blocked"
                   [] answer \in {"approval", "no_cost"} -> "approval.requested"
<1>1. Goes("announce", "completion", <<Event(T)>>)
  BY DEF Announce
<1>2. answer \in {"ticket", "cost", "no_ticket", "approval", "no_cost"}
  BY DEF Announce, Goes, RequestInv, EffectsAnswered
<1>3. CASE answer \in {"ticket", "cost"}
  <2>1. T = "tool.called"
    BY <1>3
  <2>. QED  BY <1>1, <1>3, <2>1
<1>4. CASE answer = "no_ticket"
  <2>1. T = "tool.blocked"
    BY <1>4
  <2>. QED  BY <1>1, <1>4, <2>1
<1>5. CASE answer \in {"approval", "no_cost"}
  <2>1. T = "approval.requested"
    BY <1>5
  <2>. QED  BY <1>1, <1>5, <2>1
<1>. QED  BY <1>2, <1>3, <1>4, <1>5

LEMMA EveryStepAdds ==
  ASSUME RequestInv, trail \in Seq(Events), Next
  PROVE  \E events : Adds(events)
<1>. USE DEF PlainTypes, EventTypes
<1>1. CASE CheckSize
  <2>1. CASE message.oversized
    BY <1>1, <2>1, AddsPlain DEF CheckSize, Fails
  <2>2. CASE ~ message.oversized
    BY <1>1, <2>2, AddsNothing DEF CheckSize
  <2>. QED  BY <2>1, <2>2
<1>2. CASE PolicyOutage \/ Crash
  BY <1>2, AddsNothing DEF PolicyOutage, Crash, Fails
<1>3. CASE OverQuota
  BY <1>3, AddsPlain DEF OverQuota, Fails
<1>4. CASE WithinQuota
  BY <1>4, AddsPlain DEF WithinQuota
<1>5. CASE Redact
  BY <1>5, RedactAdds
<1>6. CASE Decide
  BY <1>6, DecideAdds
<1>7. CASE NoContext \/ NoModel \/ BedrockDisabled \/ BedrockAnswers \/ NoTool
  BY <1>7, AddsNothing DEF NoContext, NoModel, BedrockDisabled, BedrockAnswers, NoTool
<1>8. CASE LoadContext
  BY <1>8, AddsPlain DEF LoadContext
<1>9. CASE BedrockFails
  BY <1>9, BedrockFailsAdds
<1>10. CASE RecordRoute
  BY <1>10, RecordRouteAdds DEF RequestInv, Shape
<1>11. CASE ToolRuns
  BY <1>11, AddsNothing
     DEF ToolRuns, TicketBlocked, FixtureTicket, ServiceNowTicket, OpenApproval, ShowCost, NoCost
<1>12. CASE Announce
  BY <1>12, AnnounceTells, AddsPlain
<1>13. CASE Complete
  BY <1>13, CompleteAdds DEF RequestInv, Shape
<1>. QED
  BY <1>1, <1>2, <1>3, <1>4, <1>5, <1>6, <1>7, <1>8, <1>9, <1>10, <1>11, <1>12, <1>13
     DEF Next, Tool, ToolRuns

\* The handler only goes on; the decision is made once, and the route is not
\* touched after it was recorded.
LEMMA StepOrder ==
  ASSUME RequestInv, Next
  PROVE  /\ stage # "done"
         /\ decision' = decision \/ decision = "none"
         /\ route' = route \/ stage \in BeforeRoute \ {"route"}
         /\ stage' \in BeforeRoute => stage \in BeforeRoute
         /\ stage' \in BeforeRoute \ {"route"} => stage \in BeforeRoute \ {"route"}
<1>. USE DEF Goes, Fails, BeforeRoute, Early
<1>1. CASE CheckSize \/ PolicyOutage \/ OverQuota \/ WithinQuota \/ Redact \/ Crash
  BY <1>1 DEF CheckSize, PolicyOutage, OverQuota, WithinQuota, Redact, Crash
<1>2. CASE Decide
  <2>1. decision = "none"
    BY <1>2 DEF Decide, RequestInv, NothingYet
  <2>. QED  BY <1>2, <2>1 DEF Decide
<1>3. CASE NoContext \/ LoadContext \/ NoModel \/ BedrockDisabled \/ BedrockAnswers
             \/ BedrockFails \/ RecordRoute
  BY <1>3 DEF NoContext, LoadContext, NoModel, BedrockDisabled, BedrockAnswers, BedrockFails,
     RecordRoute
<1>4. CASE ToolRuns \/ NoTool \/ Announce \/ Complete
  BY <1>4 DEF ToolRuns, TicketBlocked, FixtureTicket, ServiceNowTicket, OpenApproval, ShowCost,
     NoCost, NoTool, Announce, Complete
<1>. QED  BY <1>1, <1>2, <1>3, <1>4 DEF Next, Tool, ToolRuns

LEMMA StaysTruthful ==
  ASSUME RequestInv, Next, NEW e, Truthful(e)
  PROVE  Truthful(e)'
BY StepOrder DEF Truthful

LEMMA TrailGrows ==
  ASSUME TrailInv, NEW events, Adds(events)
  PROVE  trail' \in Seq(Events) /\ Told' = Told \cup Elements(events)
BY ElementsOfBoth DEF TrailInv, Adds, Told

LEMMA TrailStep == RequestInv /\ TrailInv /\ [Next]_vars => TrailInv'
<1>. SUFFICES ASSUME RequestInv, TrailInv, [Next]_vars PROVE TrailInv'
  OBVIOUS
<1>1. CASE Next
  <2>1. PICK events : Adds(events)
    BY <1>1, EveryStepAdds DEF TrailInv
  <2>2. trail' \in Seq(Events) /\ Told' = Told \cup Elements(events)
    BY <2>1, TrailGrows
  <2>3. \A e \in Told : Truthful(e)'
    BY <1>1, StaysTruthful DEF TrailInv
  <2>4. \A e \in Elements(events) : Truthful(e)'
    BY <2>1 DEF Adds
  <2>5. \A e \in Told' : Truthful(e)'
    BY <2>2, <2>3, <2>4
  <2>. QED  BY <2>2, <2>5 DEF TrailInv
<1>2. CASE UNCHANGED vars
  BY <1>2 DEF vars, TrailInv, Told, Elements, Truthful
<1>. QED  BY <1>1, <1>2

---------------------------------------------------------------------------
(* Effects and the events that tell of them.                               *)

ToldOf(types) == \E e \in Told : e.type \in types /\ e.policy = "none"

EffectsTold ==
  /\ approval => ToldOf({"approval.requested"}) \/ stage = "announce" \/ reply = "lost"
  /\ "servicenow" \in calls =>
       ToldOf({"tool.called", "tool.blocked"}) \/ stage = "announce" \/ reply = "lost"

LEMMA EffectsStep ==
  RequestInv /\ TrailInv /\ EffectsTold /\ [Next]_vars => EffectsTold'
<1>. SUFFICES ASSUME RequestInv, TrailInv, EffectsTold, [Next]_vars PROVE EffectsTold'
  OBVIOUS
<1>1. CASE UNCHANGED vars
  BY <1>1 DEF vars, EffectsTold, ToldOf, Told, Elements
<1>2. ASSUME Next PROVE \A types : ToldOf(types) => ToldOf(types)'
  <2>1. PICK events : Adds(events)
    BY <1>2, EveryStepAdds DEF TrailInv
  <2>2. Told \subseteq Told'
    BY <2>1, TrailGrows
  <2>. QED  BY <2>2 DEF ToldOf
<1>3. CASE Crash
  BY <1>3 DEF Crash, Fails, EffectsTold
<1>4. CASE ToolRuns
  <2>1. stage' = "announce"
    BY <1>4 DEF ToolRuns, TicketBlocked, FixtureTicket, ServiceNowTicket, OpenApproval, ShowCost,
       NoCost, Goes
  <2>. QED  BY <2>1 DEF EffectsTold
<1>5. CASE Announce
  <2>1. PICK type \in {"tool.called", "tool.blocked", "approval.requested"} :
          /\ Goes("announce", "completion", <<Event(type)>>)
          /\ answer = "approval" => type = "approval.requested"
          /\ answer \in {"ticket", "no_ticket"} => type \in {"tool.called", "tool.blocked"}
    BY <1>5, AnnounceTells
  <2>2. PICK e : e = Event(type)
    OBVIOUS
  <2>3. e \in Events /\ e.type = type /\ e.policy = "none"
    BY <2>2, EventIsEvent DEF EventTypes
  <2>4. e \in Told'
    <3>1. trail' = trail \o <<e>>
      BY <2>1, <2>2 DEF Goes
    <3>. QED  BY <2>3, <3>1, ElementsOfOne, ElementsOfBoth DEF TrailInv, Told
  <2>5. approval' = approval /\ calls' = calls
    BY <1>5 DEF Announce
  <2>6. /\ approval => type = "approval.requested"
        /\ "servicenow" \in calls => type \in {"tool.called", "tool.blocked"}
    BY <2>1 DEF RequestInv, EffectsAnswered
  <2>. QED  BY <2>3, <2>4, <2>5, <2>6 DEF EffectsTold, ToldOf
<1>6. CASE Complete
  <2>1. UNCHANGED <<approval, calls>> /\ stage = "completion" /\ reply # "lost"
    BY <1>6 DEF Complete, Goes, RequestInv, EndsWithReply
  <2>. QED  BY <1>2, <1>6, <2>1 DEF EffectsTold, Next
<1>7. ASSUME Next, ~ Crash, ~ ToolRuns, ~ Announce, ~ Complete
      PROVE  EffectsTold'
  <2>1. /\ approval' = approval /\ stage \in BeforeTool
        /\ "servicenow" \in calls' => "servicenow" \in calls
    <3>. USE DEF Goes, Fails, BeforeTool, Early
    <3>1. CASE CheckSize \/ PolicyOutage \/ OverQuota \/ WithinQuota \/ Redact \/ Decide
      BY <3>1 DEF CheckSize, PolicyOutage, OverQuota, WithinQuota, Redact, Decide
    <3>2. CASE NoContext \/ LoadContext \/ NoModel \/ BedrockDisabled \/ BedrockAnswers
                 \/ BedrockFails \/ RecordRoute \/ NoTool
      BY <3>2 DEF NoContext, LoadContext, NoModel, BedrockDisabled, BedrockAnswers,
         BedrockFails, RecordRoute, NoTool
    <3>. QED  BY <1>7, <3>1, <3>2 DEF Next, Tool, ToolRuns
  <2>2. ~ approval /\ "servicenow" \notin calls
    BY <2>1 DEF RequestInv, NoToolYet
  <2>. QED  BY <2>1, <2>2 DEF EffectsTold
<1>. QED  BY <1>1, <1>3, <1>4, <1>5, <1>6, <1>7

---------------------------------------------------------------------------
(* The route and the call of the model.                                    *)

LEMMA AuditedIsTold == \A types : Audited(types) <=> \E e \in Told : e.type \in types
BY DEF Audited, Told, Elements

FallbackTold == \E e \in Told : e.type = "model.fallback"
RouteTold    == \E e \in Told : e.type = "model.route.selected"

ModelAsked == stage \in {"route", "tool", "announce", "completion"} \/ reply = "ok" \/ RouteTold

\* From the model's answer on, the route is Bedrock's exactly if Bedrock gave it.
RouteTaken ==
  ModelAsked /\ Permitted => (route = "bedrock" <=> "bedrock" \in calls /\ ~ FallbackTold)

\* Which steps can store the two events that RouteTaken speaks of.
LEMMA WhatIsToldNext ==
  ASSUME RequestInv, TrailInv, Next
  PROVE  /\ FallbackTold => FallbackTold'
         /\ FallbackTold' => FallbackTold \/ BedrockFails
         /\ RouteTold' => RouteTold \/ RecordRoute
<1>1. PICK events : Adds(events)
  BY EveryStepAdds DEF TrailInv
<1>2. Told' = Told \cup Elements(events)
  BY <1>1, TrailGrows
<1>. QED  BY <1>1, <1>2 DEF Adds, Placed, FallbackTold, RouteTold

\* Before the route is recorded neither event is there.
LEMMA NothingToldYet ==
  ASSUME TrailInv
  PROVE  /\ stage \in BeforeRoute => ~ RouteTold
         /\ stage \in BeforeRoute \ {"route"} => ~ FallbackTold
BY DEF TrailInv, Truthful, FallbackTold, RouteTold

LEMMA FallbackIsTold == BedrockFails /\ TrailInv => FallbackTold'
<1>. SUFFICES ASSUME BedrockFails, TrailInv PROVE FallbackTold'
  OBVIOUS
<1>1. PICK e : e = Event("model.fallback")
  OBVIOUS
<1>2. e \in Events /\ e.type = "model.fallback"
  BY <1>1, EventIsEvent DEF EventTypes
<1>3. trail' = trail \o <<e>>
  BY <1>1 DEF BedrockFails, Goes
<1>4. e \in Told'
  BY <1>2, <1>3, ElementsOfOne, ElementsOfBoth DEF TrailInv, Told
<1>. QED  BY <1>2, <1>4 DEF FallbackTold

LEMMA RouteTakenStep ==
  RequestInv /\ TrailInv /\ RouteTaken /\ [Next]_vars => RouteTaken'
<1>. SUFFICES ASSUME RequestInv, TrailInv, RouteTaken, [Next]_vars PROVE RouteTaken'
  OBVIOUS
<1>1. CASE UNCHANGED vars
  BY <1>1 DEF vars, RouteTaken, ModelAsked, Permitted, FallbackTold, RouteTold, Told, Elements
<1>2. ASSUME Next, stage \in Early \cup {"context"}, ~ Crash, ~ PolicyOutage
      PROVE  RouteTaken'
  <2>1. ~ RouteTold
    BY <1>2, NothingToldYet DEF BeforeRoute
  <2>2. /\ ~ RecordRoute
        /\ stage' \notin {"route", "tool", "announce", "completion"} /\ reply' # "ok"
    <3>. USE DEF Goes, Fails, Early, RequestInv, EndsWithReply
    <3>1. CASE CheckSize \/ OverQuota \/ WithinQuota \/ Redact
      BY <1>2, <3>1 DEF CheckSize, OverQuota, WithinQuota, Redact, RecordRoute
    <3>2. CASE Decide \/ NoContext \/ LoadContext
      BY <1>2, <3>2 DEF Decide, NoContext, LoadContext, RecordRoute
    <3>3. ~ (NoModel \/ BedrockDisabled \/ BedrockAnswers \/ BedrockFails \/ RecordRoute)
      BY <1>2 DEF NoModel, BedrockDisabled, BedrockAnswers, BedrockFails, RecordRoute
    <3>4. ~ (NoTool \/ ToolRuns \/ Announce \/ Complete)
      BY <1>2 DEF NoTool, ToolRuns, TicketBlocked, FixtureTicket, ServiceNowTicket,
         OpenApproval, ShowCost, NoCost, Announce, Complete
    <3>. QED  BY <1>2, <3>1, <3>2, <3>3, <3>4 DEF Next, Tool, ToolRuns
  <2>3. ~ RouteTold'
    BY <1>2, <2>1, <2>2, WhatIsToldNext
  <2>. QED  BY <2>2, <2>3 DEF RouteTaken, ModelAsked
<1>3. CASE NoModel \/ BedrockDisabled \/ BedrockAnswers \/ BedrockFails
  <2>1. stage = "model" /\ decision' = decision /\ message' = message
    BY <1>3 DEF NoModel, BedrockDisabled, BedrockAnswers, BedrockFails, Goes
  <2>2. "bedrock" \notin calls /\ ~ FallbackTold
    BY <2>1, NothingToldYet DEF RequestInv, NoToolYet, BeforeRoute
  <2>3. Next
    BY <1>3 DEF Next
  <2>4. CASE BedrockFails
    BY <2>4, FallbackIsTold DEF BedrockFails, RouteTaken
  <2>5. CASE ~ BedrockFails
    <3>1. ~ FallbackTold'
      BY <2>2, <2>3, <2>5, WhatIsToldNext
    <3>2. CASE NoModel
      BY <2>1, <2>2, <3>1, <3>2 DEF NoModel, AsksModel, RouteTaken, Permitted
    <3>3. CASE BedrockDisabled
      BY <2>1, <2>2, <3>1, <3>3 DEF BedrockDisabled, RouteTaken
    <3>4. CASE BedrockAnswers
      BY <3>1, <3>4 DEF BedrockAnswers, AsksModel, RouteTaken
    <3>. QED  BY <1>3, <2>5, <3>2, <3>3, <3>4
  <2>. QED  BY <2>4, <2>5
<1>4. ASSUME RecordRoute \/ NoTool \/ ToolRuns \/ Announce \/ Complete
      PROVE  RouteTaken'
  <2>1. /\ stage \in {"route", "tool", "announce", "completion"} /\ stage # "model"
        /\ UNCHANGED <<decision, message, route>>
        /\ "bedrock" \in calls' <=> "bedrock" \in calls
    <3>. USE DEF Goes
    <3>1. CASE RecordRoute \/ NoTool \/ Announce \/ Complete
      BY <3>1 DEF RecordRoute, NoTool, Announce, Complete
    <3>2. CASE ToolRuns
      BY <3>2 DEF ToolRuns, TicketBlocked, FixtureTicket, ServiceNowTicket, OpenApproval,
         ShowCost, NoCost
    <3>. QED  BY <1>4, <3>1, <3>2
  <2>2. Next /\ ~ BedrockFails
    BY <1>4, <2>1 DEF Next, Tool, ToolRuns, BedrockFails, Goes
  <2>3. FallbackTold' <=> FallbackTold
    BY <2>2, WhatIsToldNext
  <2>. QED  BY <2>1, <2>3 DEF RouteTaken, ModelAsked, Permitted
<1>5. CASE Crash \/ PolicyOutage
  <2>1. /\ stage' = "done" /\ reply' # "ok" /\ UNCHANGED <<decision, message, route, calls>>
        /\ stage # "done"
    BY <1>5 DEF Crash, PolicyOutage, Fails, Goes
  <2>2. Next /\ ~ RecordRoute /\ ~ BedrockFails
    BY <1>5, <2>1 DEF Next, RecordRoute, BedrockFails, Goes
  <2>3. (RouteTold' => RouteTold) /\ (FallbackTold' <=> FallbackTold)
    BY <2>2, WhatIsToldNext
  <2>. QED  BY <2>1, <2>3 DEF RouteTaken, ModelAsked, Permitted
<1>6. ASSUME Next PROVE \/ stage \in Early \cup {"context"}
                       \/ NoModel \/ BedrockDisabled \/ BedrockAnswers \/ BedrockFails
                       \/ RecordRoute \/ NoTool \/ ToolRuns \/ Announce \/ Complete
                       \/ Crash \/ PolicyOutage
  BY <1>6 DEF Next, Tool, ToolRuns, CheckSize, OverQuota, WithinQuota, Redact, Decide, NoContext,
     LoadContext, Goes, Fails, Early
<1>. QED  BY <1>1, <1>2, <1>3, <1>4, <1>5, <1>6

LEMMA TrailInit == Init => TrailInv /\ EffectsTold /\ RouteTaken
BY ElementsOfEmpty
   DEF Init, TrailInv, Told, EffectsTold, RouteTaken, ModelAsked, RouteTold

THEOREM TrailInvariant == Spec => [](RequestInv /\ TrailInv /\ EffectsTold /\ RouteTaken)
BY RequestInit, RequestStep, TrailInit, TrailStep, EffectsStep, RouteTakenStep, PTL DEF Spec

---------------------------------------------------------------------------
(* The properties.                                                         *)

LEMMA AnnouncedIsTold == \A types : AnnouncedAs(types) <=> ToldOf(types)
BY DEF AnnouncedAs, ToldOf, Told, Elements

LEMMA BedrockAnsweredIsTold == BedrockAnswered <=> "bedrock" \in calls /\ ~ FallbackTold
BY AuditedIsTold DEF BedrockAnswered, FallbackTold

\* The request, its events and the reply keep their shape.
THEOREM TypeCorrect == Spec => []TypeOK
<1>1. RequestInv /\ TrailInv => TypeOK
  <2>. SUFFICES ASSUME RequestInv, TrailInv PROVE TypeOK
    OBVIOUS
  <2>1. \A i \in DOMAIN trail : trail[i] \in Events
    BY DEF TrailInv
  <2>. QED  BY <2>1 DEF TypeOK, RequestInv, Shape
<1>. QED  BY <1>1, TrailInvariant, PTL

\* No message reaches Bedrock that a control forbids to send.
THEOREM ModelCallsArePermitted == Spec => []ModelCallWasPermitted
<1>1. RequestInv => ModelCallWasPermitted
  BY DEF RequestInv
<1>. QED  BY <1>1, RequestInvariant, PTL

\* policy.py and the Rego rules decide alike on every request.
THEOREM PolicyEnginesAgree == Spec => []EnginesAgree
<1>1. RequestInv => EnginesAgree
  BY EnginesFromShape DEF RequestInv
<1>. QED  BY <1>1, RequestInvariant, PTL

\* A request answered with 503 for its policy has had no effect.
THEOREM OutagesHaveNoEffect == Spec => []OutageHasNoEffect
<1>1. RequestInv => OutageHasNoEffect
  BY DEF RequestInv
<1>. QED  BY <1>1, RequestInvariant, PTL

\* No fixture speaks under the data boundary.
THEOREM BoundaryIsRespected == Spec => []AdaptersRespectBoundary
<1>1. RequestInv => AdaptersRespectBoundary
  BY DEF RequestInv
<1>. QED  BY <1>1, RequestInvariant, PTL

\* An answer names Bedrock exactly when Bedrock wrote it, a score Bedrock's
\* call exactly when Bedrock answered it, and no score claims more than the
\* policy gave.
THEOREM ResponsesTellTheirOrigin == Spec => []ResponseTellsItsOrigin
<1>1. RequestInv /\ RouteTaken => ResponseTellsItsOrigin
  <2>. SUFFICES ASSUME RequestInv, RouteTaken, reply = "ok"
                PROVE  /\ <<"model", TRUE>> \in AnswerSources <=> answer = "bedrock"
                       /\ Permitted => (TrustedSourceScore.external_model_used <=> BedrockAnswered)
                       /\ ~ TrustedSourceScore.sensitive_data_sent_externally
                       /\ \A fresh \in BOOLEAN : Score(fresh) = 100 => fresh /\ decision = "allow"
    BY DEF ResponseTellsItsOrigin
  <2>1. <<"model", TRUE>> \in AnswerSources <=> answer = "bedrock"
    BY ModelSourceIsModelUsed DEF RequestInv, OriginKnown
  <2>2. Permitted => (TrustedSourceScore.external_model_used <=> BedrockAnswered)
    BY BedrockAnsweredIsTold DEF RouteTaken, ModelAsked, TrustedSourceScore
  <2>3. ~ TrustedSourceScore.sensitive_data_sent_externally
    BY DEF RequestInv, RoutePermitted, TrustedSourceScore
  <2>. QED  BY <2>1, <2>2, <2>3, FullScoreWasAllowed
<1>. QED  BY <1>1, TrailInvariant, PTL

\* Where a model may be asked, the recorded route is Bedrock's exactly when
\* Bedrock answered; elsewhere no model is called.
THEOREM RecordedRoutesWereTaken == Spec => []RecordedRouteWasTaken
<1>1. RequestInv /\ TrailInv /\ RouteTaken => RecordedRouteWasTaken
  <2>. SUFFICES ASSUME RequestInv, TrailInv, RouteTaken,
                       NEW i \in DOMAIN trail, trail[i].type = "model.route.selected"
                PROVE  /\ Permitted => (trail[i].route = "bedrock" <=> BedrockAnswered)
                       /\ ~ Permitted => "bedrock" \notin calls
    BY DEF RecordedRouteWasTaken
  <2>1. trail[i] \in Told
    BY DEF Told, Elements
  <2>2. trail[i].route = route /\ RouteTold
    BY <2>1 DEF TrailInv, Truthful, RouteTold
  <2>3. Permitted => (route = "bedrock" <=> BedrockAnswered)
    BY <2>2, BedrockAnsweredIsTold DEF RouteTaken, ModelAsked
  <2>4. ~ Permitted => "bedrock" \notin calls
    BY DEF RequestInv, ModelCallWasPermitted, Permitted
  <2>. QED  BY <2>2, <2>3, <2>4
<1>. QED  BY <1>1, TrailInvariant, PTL

\* Whatever is left of the trail, a replay shows this request's decision and
\* route or none.
THEOREM ReplaysAreTruthful == Spec => []ReplayIsTruthful
<1>1. TrailInv => ReplayIsTruthful
  <2>. SUFFICES ASSUME TrailInv PROVE ReplayIsTruthful
    OBVIOUS
  <2>1. \A types : \A e \in Surviving(types) :
          e.policy \in {decision, "none"} /\ e.route \in {route, "none"}
    BY DEF Surviving, Told, Elements, TrailInv, Truthful, Event
  <2>2. \A e \in Snapshots : e.policy = decision /\ e.route = route
    BY DEF Snapshots, Surviving, Told, Elements, TrailInv, Truthful
  <2>3. \A replay \in Replays :
          replay.policy \in {decision, "none"} /\ replay.route \in {route, "none"}
    BY <2>1, <2>2 DEF Replays
  <2>. QED  BY <2>2, <2>3 DEF ReplayIsTruthful
<1>. QED  BY <1>1, TrailInvariant, PTL

\* No effect is without its event unless the request was lost, and a record
\* that exists never comes with the status of a failure.
THEOREM EffectsAreAlwaysTold == Spec => []EffectsAreTold
<1>1. RequestInv /\ EffectsTold => EffectsAreTold
  BY AnnouncedIsTold DEF RequestInv, EffectsAnswered, EffectsTold, EffectsAreTold
<1>. QED  BY <1>1, TrailInvariant, PTL

===========================================================================
