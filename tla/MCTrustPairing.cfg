SPECIFICATION Spec
CONSTANTS
  cyrano = cyrano
  roxane = roxane
  holder = holder
  stale = stale
  bare = bare
  other = other
  b1 = b1
  b2 = b2
  cred = cred
  wrongcred = wrongcred
  None = None
  Session = {s1, s2}
  Agent = {cyrano, roxane}
  Server = {holder, stale, bare, other}
  Badge = {b1, b2}
  Credential = {cred, wrongcred}
  AgentsFile <- MCFewFiles
  Target <- MCTarget
  Held <- MCHeld
  RunsAs <- MCRunsAs
  BadgeOf <- MCBadgeOf
  CHALLENGE_TTL = 1
  ASSERTION_TTL = 1
  Skew <- MCSkew
  MaxTime = 3
  MaxRestarts = 1
  MaxKey = 0
SYMMETRY Sessions
INVARIANTS
  TypeOK
  FreshPairing
  RevocationBound
  TokensHold
PROPERTIES
  ImplementsMediation
CHECK_DEADLOCK FALSE
