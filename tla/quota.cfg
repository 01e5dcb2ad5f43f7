CONSTANTS
  Limit = 2
  Requests = {r1, r2, r3}
  MaxLag = 1
  Resends = TRUE
  LastDay = 1
  MaxCount = 7
SPECIFICATION Spec
INVARIANT AdmissionBounded
