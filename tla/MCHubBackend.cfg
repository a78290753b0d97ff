SPECIFICATION FairSpec
CONSTANTS
  shared = shared
  other = other
  d1 = d1
  d2 = d2
  m1 = m1
  m2 = m2
  byUrl = byUrl
  builtIn = builtIn
  Create = {shared, other}
  Delete = {d1, d2}
  Send = {m1, m2}
  Register = {byUrl}
  Default = {builtIn}
  AgentOf <- MCAgentOf
  ChatOf <- MCChatOf
  Threads = 4
  ByListing = {}
INVARIANTS
  TypeOK
  DeletesHold
  PostsSucceed
  Paired
PROPERTY EveryCallEnds
CHECK_DEADLOCK FALSE
