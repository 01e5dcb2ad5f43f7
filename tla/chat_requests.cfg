CONSTANTS
  Roles = {"employee", "manager", "admin"}
  Engines = {"python", "opa"}
  TicketSystems = {"local", "jira", "servicenow", "unsupported"}
  LogSources = {"local_fixture", "cloudwatch"}
  CachedCosts = {"nothing", "local_fallback"}
  Flags = {"killSwitch", "strict", "bedrock", "costExplorer"}
  Findings = {"pii", "secrets"}
SPECIFICATION Spec
INVARIANTS
  ModelCallWasPermitted
  EnginesAgree
  RecordedRouteWasTaken
  OutageHasNoEffect
  AdaptersRespectBoundary
  ReplayIsTruthful
  ResponseTellsItsOrigin
  EffectsAreTold
CHECK_DEADLOCK FALSE
