SPECIFICATION Spec
CONSTANTS
  u1 = u1
  u2 = u2
  n1 = n1
  n2 = n2
  p1 = p1
  p2 = p2
  k1 = k1
  t1 = t1
  t2 = t2
  r1 = r1
  r2 = r2
  User = {u1, u2}
  Name = {n1, n2}
  Secret = {p1, p2}
  Token = {k1}
  Topic = {t1, t2}
  Request = {r1, r2}
  Nobody = Nobody
  Root = u1
  Everyone = {"read"}
  MaxWrites = 3
SYMMETRY Symmetry
INVARIANTS
  TypeOK
  IdentityIsRecent
  UsesWereAllowed
PROPERTY
  AdminsComeFromAdmins
CHECK_DEADLOCK FALSE
