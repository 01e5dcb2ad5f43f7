CONSTANTS
  None = None
  Users = {e1, m1}
  Managers = {m1}
  ActionIds = {a1}
  Targets = {t1}
  QueryOutcomes = {}
  Capacity = 7
  Requests = {r1, r2}
SPECIFICATION Spec
INVARIANT ClaimLeavesRoomToSettle
SYMMETRY Symmetry
