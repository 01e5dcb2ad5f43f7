CONSTANTS
  None = None
  Users = {}
  Managers = {}
  ActionIds = {}
  Targets = {}
  QueryOutcomes = {"events", "noEvents", "unavailable"}
  Capacity = 4
  Requests = {r1, r2}
  Attempts = 2
  MaxQueries = 2
SPECIFICATION Spec
INVARIANTS
  TypeOK
  EvidenceStateMatchesEvidence
  StoredEvidenceIsComplete
PROPERTIES
  EvidenceMovesForward
  RefreshTakesEffectAtOnce
  RefreshEnds
