SPECIFICATION Spec
CONSTANTS
  u1 = u1
  d1 = d1
  d2 = d2
  h1 = h1
  h2 = h2
  t1 = t1
  t2 = t2
  t3 = t3
  t4 = t4
  Worker = w
  None = None
  Users = {u1}
  Devices = {d1}
  Tokens = {t1, t2, t3}
  Handlers = {h1, h2}
  MaxSessions = 2
  Absolute = 3
  IdleLimit <- IdleDefault
  ActiveWindow = 2
  ReuseGrace = 1
  StaleAfter = 1
  StaleUntil = 4
  DBErrors = FALSE
  MaxTime = 0
SYMMETRY Symmetric
PROPERTIES
  RevokeAllIsComplete
