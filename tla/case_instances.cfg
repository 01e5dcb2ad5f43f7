CONSTANTS
  None = None
  Users = {e1, m1}
  Managers = {m1}
  ActionIds = {a1}
  Targets = {t1, t2}
  QueryOutcomes = {"events", "noEvents", "unavailable"}
  Capacity = 7
  Requests = {r1, r2}
SPECIFICATION Spec
INVARIANTS
  TicketWasIndependentlyApproved
  AtMostOneDispatch
PROPERTIES
  SerializedUpdates
  ExpiredActionsRest
SYMMETRY Symmetry
