---------------------------- MODULE ChatPolicy ----------------------------
(***************************************************************************)
(* The policy decisions process_chat asks for, in both implementations:    *)
(* the built-in rules of services/api/app/policy.py and the Rego rules     *)
(* under policies/ that OPA evaluates.  PolicyEngine picks one by its      *)
(* mode; the program assumes that it does not matter which.                *)
(*                                                                         *)
(* A decision is its `decision' field.  Reasons are left out; of the       *)
(* metadata only the provider of a model route is used by the code.        *)
(***************************************************************************)
CONSTANTS
  Roles,    \* the roles of Actor that take part: a subset of AllRoles
  Engines   \* how policy is evaluated: a subset of {"python", "opa"}

AllRoles == {"employee", "manager", "admin"}

ASSUME PolicyAssumption == Roles \subseteq AllRoles /\ Engines \subseteq {"python", "opa"}

AccessIntents == {"production_admin_access", "temporary_read_only_access"}

Intents == AccessIntents \cup
  {"create_ticket", "cost_investigation", "incident_triage", "support_guidance"}

\* Intents whose route stays local whatever the message contains.
InternalIntents == AccessIntents \cup {"incident_triage"}

Decisions == {"allow", "deny", "approval_required"}

---------------------------------------------------------------------------
(* policy.py: the first rule that applies decides.                         *)

ChatDecision(role, intent) ==
  CASE intent = "production_admin_access" -> "deny"
    [] intent = "cost_investigation" /\ role = "employee" -> "approval_required"
    [] OTHER -> "allow"

\* evaluate_model_route names a provider only for bedrock; for the others
\* select_model_route repeats the same tests and arrives at local.
RouteProvider(pii, secrets, intent) ==
  IF secrets \/ pii \/ intent \in InternalIntents THEN "local" ELSE "bedrock"

ToolDecision(role, tool) ==
  CASE tool = "ticket.create_ticket"               -> "allow"
    [] tool = "access.request_temporary_read_only" -> "approval_required"
    [] tool = "cost.view_summary" /\ role \in {"manager", "admin"}    -> "allow"
    [] tool = "cost.view_summary" /\ role \notin {"manager", "admin"} -> "approval_required"

---------------------------------------------------------------------------
(* Rego: every rule whose body holds contributes its decision.  OPA        *)
(* reports an error when they contradict each other, and no result when    *)
(* there is none and no default; the API then answers 503.                 *)

\* `rules' are <<reason, decision>> pairs of the rules that hold.
Rego(rules, default) ==
  CASE rules = {}              -> default
    [] \E r \in rules : rules = {r} -> (CHOOSE r \in rules : TRUE)[2]
    [] OTHER                   -> "unavailable"

Rule(reason, decision, holds) == IF holds THEN {<<reason, decision>>} ELSE {}

EmployeeCost(role, intent) == intent = "cost_investigation" /\ role = "employee"

RegoChatDecision(role, intent) ==
  Rego(Rule("production_admin", "deny", intent = "production_admin_access")
         \cup Rule("cost", "approval_required", EmployeeCost(role, intent))
         \cup Rule("allowed", "allow",
                   intent # "production_admin_access" /\ ~ EmployeeCost(role, intent)),
       "unavailable")

\* Fault for the checks: the rules forget to exclude each other.
RegoRouteProviderOverlapping(pii, secrets, intent) ==
  Rego(Rule("secrets", "local", secrets)
         \cup Rule("pii", "local", pii)
         \cup Rule("internal", "local", intent \in InternalIntents),
       "bedrock")

RegoRouteProvider(pii, secrets, intent) ==
  Rego(Rule("secrets", "local", secrets)
         \cup Rule("pii", "local", pii /\ ~ secrets)
         \cup Rule("internal", "local", intent \in InternalIntents /\ ~ pii /\ ~ secrets),
       "bedrock")

RegoToolDecision(role, tool) ==
  Rego(Rule("ticket", "allow", tool = "ticket.create_ticket" /\ role \in AllRoles)
         \cup Rule("access", "approval_required", tool = "access.request_temporary_read_only")
         \cup Rule("cost", "allow", tool = "cost.view_summary" /\ role \in {"manager", "admin"})
         \cup Rule("cost", "approval_required", tool = "cost.view_summary" /\ role = "employee"),
       "deny")

---------------------------------------------------------------------------
(* PolicyEngine.evaluate_chat, evaluate_model_route and evaluate_tool.     *)

EvaluateChat(engine, role, intent) ==
  IF engine = "python" THEN ChatDecision(role, intent) ELSE RegoChatDecision(role, intent)

EvaluateModelRoute(engine, pii, secrets, intent) ==
  IF engine = "python" THEN RouteProvider(pii, secrets, intent)
                       ELSE RegoRouteProvider(pii, secrets, intent)

EvaluateTool(engine, role, tool) ==
  IF engine = "python" THEN ToolDecision(role, tool) ELSE RegoToolDecision(role, tool)

===========================================================================
