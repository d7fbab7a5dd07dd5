SPECIFICATION Spec
CONSTANTS
  NameObj = {o1, o2, o3}
  CredObj = {c1, c2}
  Ctx = {x, y}
  NativeName = {n1, n2}
  NativeCred = {k1, k2}
  Mech = {m1, m2}
  Principal = {me, p}
  Default = me
  NoName = NoName
  Null = Null
  Disciplined = FALSE
SYMMETRY Symmetry
INVARIANTS
  NullIsDefault
CHECK_DEADLOCK FALSE
