SPECIFICATION FairSpec
CONSTANTS
  None = None
  own = own
  outside = outside
  Agent <- MCAgent
  Unverified <- MCUnverified
  MaxTurns = 2
  MaxInstalls = 2
  MaxFetches = 3
  MaxLists = 2
INVARIANTS
  TypeOK
  ConversationIsTold
  ListIsCurrent
PROPERTIES
  SendEnds
CHECK_DEADLOCK FALSE
