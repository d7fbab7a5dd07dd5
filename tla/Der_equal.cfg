SPECIFICATION Spec
SYMMETRY Symmetry
CONSTANTS
  Value <- Clashing
  Token <- Tokens
  Obj = {o1, o2}
  Null = Null
  IntRange = 65536
  MaxItems = 2
INVARIANT EqualMeansSame
CHECK_DEADLOCK FALSE
