SPECIFICATION FairSpec
CONSTANTS
  None = None
  own = own
  outside = outside
  Agent <- MCAgent
  Unverified <- MCUnverified
  MaxTurns = 2
  MaxInstalls = 2
  MaxFetches = 3
  MaxLists = 2
PROPERTIES
  TierIsPrompted
CHECK_DEADLOCK FALSE
