SPECIFICATION FairSpec
CONSTANTS
  p1 = p1
  p2 = p2
  anne = anne
  a1 = a1
  a2 = a2
  Process = {p1, p2}
  User = {anne}
  Sid = {a1, a2}
  Call <- MCCall
  Kind <- MCKind
  SessionOf <- MCSessionOf
  UserOf <- MCUserOf
  ProcessOf <- MCProcessOf
  MaxDeaths = 1
INVARIANTS
  TypeOK
  PoolsAgree
  FailsInRaces
  ShownIsOnline
PROPERTY GoneIsOffline
CHECK_DEADLOCK FALSE
