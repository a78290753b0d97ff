SPECIFICATION FairSpec
CONSTANTS
  None = None
  Process = {p1, p2}
  Model = {m1}
  Sid = {s1, s2}
  Stalls = FALSE
  MaxUses = 2
  MaxFaults = 2
INVARIANTS
  TypeOK
  OneCleanerInTime
PROPERTIES
  FreshStays
  OldIsCleared
CHECK_DEADLOCK FALSE
