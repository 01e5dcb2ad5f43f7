CONSTANTS
  s1 = s1
  s2 = s2
  Scopes <- MCScopes
  Configs <- MCConfigs
  Requests = {r1, r2}
  TTL = 1
  MaxTime = 1
  Nothing = Nothing
SPECIFICATION Spec
INVARIANTS
  TypeOK
  LifetimeIsSpentOnce
PROPERTY FallbackFades
