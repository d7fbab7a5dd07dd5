SPECIFICATION Spec
CONSTANTS
  Ctx = {a, b}
  Native = {n1, n2, n3}
  Name = {p}
  Shared = Shared
  NoName = NoName
  NoContext = NoContext
  Blank = Blank
  Nobody = Nobody
  Disciplined = FALSE
SYMMETRY Symmetry
INVARIANTS
  OwnMessages
CHECK_DEADLOCK FALSE
