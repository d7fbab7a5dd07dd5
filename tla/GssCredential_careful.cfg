SPECIFICATION Spec
CONSTANTS
  NameObj = {o1, o2, o3}
  CredObj = {c1}
  Ctx = {x, y, z}
  NativeName = {n1, n2, n3}
  NativeCred = {k1}
  Mech = {m1, m2}
  Principal = {me, p}
  Default = me
  NoName = NoName
  Null = Null
  Disciplined = TRUE
SYMMETRY Symmetry
INVARIANTS
  TypeOK
  NoDangling
  CredentialNamed
  ActsAsGiven
CHECK_DEADLOCK FALSE
