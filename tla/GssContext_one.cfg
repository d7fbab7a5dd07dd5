SPECIFICATION Spec
CONSTANTS
  Ctx = {a, b, c}
  Native = {n1, n2, n3}
  Name = {p, q}
  Shared = Shared
  NoName = NoName
  NoContext = NoContext
  Blank = Blank
  Nobody = Nobody
  Disciplined = TRUE
SYMMETRY Symmetry
INVARIANTS
  TypeOK
  Isolation
  FreshStart
  NoLeak
  StateAgrees
  OwnMessages
  AcceptorSourceName
  NoDangling
CHECK_DEADLOCK FALSE
