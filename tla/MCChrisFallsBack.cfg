SPECIFICATION Spec
CONSTANTS
  m1 = m1
  c1 = c1
  c2 = c2
  e1 = e1
  h1 = h1
  pub = pub
  priv = priv
  ext = ext
  Idle = Idle
  None = None
  Worker = {w1, w2}
  Request = {m1, c1, e1, h1}
  Agent = {pub, priv, ext}
  Internal = {pub, priv}
  Public = {pub, ext}
  Route <- MCRoute
  Wanted <- MCWanted
  Admitted <- MCAdmitted
  Tables <- MCTables
  MaxChanges = 1
  Stream = {}
CHECK_DEADLOCK FALSE
INVARIANTS
  ChrisFallsBack
