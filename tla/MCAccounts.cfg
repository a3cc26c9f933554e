SPECIFICATION Spec
CONSTANTS
  u1 = u1
  u2 = u2
  u3 = u3
  h1 = h1
  h2 = h2
  r1 = r1
  r2 = r2
  admin = admin
  basic = basic
  Users = {u1, u2}
  Seed = u1
  Roles = {admin}
  Admin = admin
  Handlers = {h1, h2}
  Replicas = {r1}
  None = None
  Followed = {u2}
  DBErrors = TRUE
SYMMETRY Symmetric
INVARIANTS
  StaleSessionIsBeingRevoked
PROPERTIES
  LastAdmin
  RolesAreReplaced
