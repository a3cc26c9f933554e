SPECIFICATION Spec
CONSTANTS
  u1 = u1
  c1 = c1
  c2 = c2
  k1 = k1
  t1 = t1
  t2 = t2
  t3 = t3
  h1 = h1
  h2 = h2
  offline = offline
  email = email
  Users = {u1}
  Clients = {c1, c2}
  Codes = {k1}
  Tokens = {t1, t2, t3}
  Scopes = {offline, email}
  Offline = offline
  AllowedScopes <- OfflineOnly
  Handlers = {h1, h2}
  None = None
  RedisErrors = TRUE
SYMMETRY Symmetric
INVARIANTS
  SingleUse
  OneLivePerFamily
  RevokedIsNotReused
  RevokedGrantStaysRevoked
  GrantNeverWidens
