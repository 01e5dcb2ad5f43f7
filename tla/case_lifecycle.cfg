CONSTANTS
  None = None
  Users = {e1, m1}
  Managers = {m1}
  ActionIds = {a1, a2}
  Targets = {t1}
  QueryOutcomes = {}
  Capacity = 11
  Requests = {r1, r2}
SPECIFICATION Spec
INVARIANTS
  FailedMeansNoTicket
  OneTicketPerCase
  ResolvedHasNothingOpen
  AwaitingIffApprovalOpen
  RecordedTicketExists
PROPERTIES
  SettledActionsStay
  Promise
SYMMETRY Symmetry
