SPECIFICATION FairSpec
CONSTANTS
  None = None
  a1 = a1
  a2 = a2
  x = x
  y = y
  Answer <- MCAnswer
  Sentence <- MCSentence
  Says <- MCSays
  VoiceInterruption = FALSE
  MaxStarts = 2
  MaxSends = 1
INVARIANTS
  TypeOK
  InOrder
PROPERTIES
  TakesTurns
  UtterancesAreSent
  SpeakingEnds
CHECK_DEADLOCK FALSE
