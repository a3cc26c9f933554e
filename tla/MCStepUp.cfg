SPECIFICATION FairSpec
CONSTANTS
  h1 = h1
  h2 = h2
  t1 = t1
  t2 = t2
  Handlers = {h1, h2}
  Tokens = {t1, t2}
  None = None
  Window = 1
  MaxRate = 2
  MaxFails = 2
  Faults = TRUE
INVARIANTS
  ServedWasProved
  WrongCodesBounded
  KeysExpire
PROPERTY
  LimitsEnd
