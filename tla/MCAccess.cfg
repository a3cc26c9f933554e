SPECIFICATION Spec
CONSTANTS
  g1 = g1
  t1 = t1
  s1 = s1
  s2 = s2
  s3 = s3
  h1 = h1
  h2 = h2
  Kinds = {"user", "service"}
  Grants = {g1}
  Tokens = {t1}
  Secrets = {s1, s2, s3}
  Handlers = {h1, h2}
  None = None
  TokenTTL = 2
  Skew = 1
  ReplayWindow = 3
  Overlap = 1
  Outages = TRUE
  MaxTime = 2
SYMMETRY Symmetric
INVARIANTS
  AdmittedWasEntitled
  BlockedTokenRefused
  ProofAcceptedOnce
  ReplacedSecretRetires
CHECK_DEADLOCK FALSE
