CONSTANTS
  Deciders = {a1, m1, m2}
  Admins = {a1}
  TeamMembers = {m1}
  Requests = {r1, r2}
  Backends = {"sqlite"}
  None = None
SPECIFICATION Spec
INVARIANT DecidedOnce
CHECK_DEADLOCK FALSE
