SPECIFICATION FairSpec
CONSTANTS
  None = None
  Live = Live
  Widths = {1, 2}
  MaxMessages = 5
  MaxBusy = 1
CONSTRAINT
  Bounded
INVARIANTS
  TypeOK
  NoCycle
  AlternatingTree
  ScreenEndsBranch
PROPERTIES
  ConversationKept
  AnswersEnd
CHECK_DEADLOCK FALSE
