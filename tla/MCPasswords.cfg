SPECIFICATION FairSpec
CONSTANTS
  t1 = t1
  t2 = t2
  t3 = t3
  w1 = w1
  w2 = w2
  h1 = h1
  h2 = h2
  h3 = h3
  Tokens = {t1, t2}
  Passwords = {w1, w2}
  Handlers = {h1, h2}
  None = None
  Outages = TRUE
  MaxChanges = 2
INVARIANTS
  OneUsableToken
  TokenResetsOnce
  OldPasswordSessionEnds
PROPERTIES
  RequestsFinish
