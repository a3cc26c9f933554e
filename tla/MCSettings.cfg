SPECIFICATION Spec
CONSTANTS
  k1 = k1
  k2 = k2
  r1 = r1
  r2 = r2
  h1 = h1
  h2 = h2
  a1 = a1
  a2 = a2
  Keys = {k1}
  Replicas = {r1, r2}
  Readers = {h1, h2}
  Admins = {a1}
  None = None
  Default = Default
  TTL = 2
  MaxLag = 1
  DBErrors = TRUE
  MaxWrites = 2
  MaxTime = 4
SYMMETRY Symmetric
INVARIANTS
  StaleOnlyByLateStore
  EntryAge
PROPERTY
  StalenessIsBounded
CHECK_DEADLOCK FALSE
