CONSTANTS
  Deciders = {a1, m1, m2}
  Admins = {a1}
  TeamMembers = {m1}
  Requests = {r1, r2}
  Backends = {"sqlite", "dynamodb"}
  None = None
SPECIFICATION Spec
INVARIANTS
  DecidedByEntitled
  DecisionsAreAudited
PROPERTY SettledUntilReset
CHECK_DEADLOCK FALSE
