CONSTANTS
  None = None
  Ids = {c1, c2}
  First = c1
  Calls = {s1, s2}
  Capacity = 3
  MaxOthers = 1
  MaxMine = 1
  MaxLost = 1
  MaxMounts = 1
SPECIFICATION Spec
INVARIANTS
  TypeOK
  OwnChangeStaysShown
PROPERTIES
  AppliedAsDisplayed
  PersonGetsThrough
