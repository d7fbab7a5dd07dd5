SPECIFICATION Spec
SYMMETRY Symmetry
CONSTANTS
  Value <- Values
  Token <- Tokens
  Obj = {o1, o2}
  Null = Null
  IntRange = 65536
  MaxItems = 2
INVARIANTS
  ItemsWhole
  Aligned
  EncodedRight
CHECK_DEADLOCK FALSE
