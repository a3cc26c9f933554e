SPECIFICATION LoginSpec
CONSTANTS
  k1 = k1
  k2 = k2
  a1 = a1
  a2 = a2
  a3 = a3
  h1 = h1
  h2 = h2
  h3 = h3
  stored = stored
  upper = upper
  Emails = {stored, upper}
  Stored = stored
  Pending = {k1}
  Challenges = {a1, a2}
  Handlers = {h1, h2}
  None = None
  MaxAttempts = 1
  RiskBased = TRUE
  GlobalMFA = FALSE
  RedisErrors = TRUE
  MaxFails = 1
SYMMETRY Symmetric
INVARIANTS
  ChallengeOnce
  OneTryPerPending
  OverrunBounded
