SPECIFICATION Spec
CONSTANTS
  s1 = s1
  s2 = s2
  r1 = r1
  r2 = r2
  r3 = r3
  r4 = r4
  plain = plain
  spaced = spaced
  h1 = h1
  h2 = h2
  Secrets = {s1}
  Recovery = {r1, r2, r3, r4}
  BatchSize = 2
  Handlers = {h1, h2}
  None = None
  UsedTTL = 3
  Spellings = {plain, spaced}
  Plain = plain
  Outages = TRUE
  MaxTime = 2
SYMMETRY Symmetric
INVARIANTS
  RecoveryCodeOnce
  CodeAcceptedOnce
