SPECIFICATION Spec
CONSTANTS
  c1 = c1
  c2 = c2
  a1 = a1
  a2 = a2
  x1 = x1
  k1 = k1
  t1 = t1
  h1 = h1
  h2 = h2
  Clients = {c1, c2}
  Uris = {a1}
  Scopes = {x1}
  Codes = {k1}
  Tokens = {t1}
  Handlers = {h1}
  None = None
  MaxSecrets = 2
  Outages = TRUE
SYMMETRY Symmetric
INVARIANTS
  RedirectIsRegistered
  ClientsHaveTheirOwn
  RevokedIsInactive
PROPERTIES
  CodeWasConsented
CHECK_DEADLOCK FALSE
