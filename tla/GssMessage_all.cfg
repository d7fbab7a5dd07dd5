SPECIFICATION Spec
SYMMETRY Symmetry
CONSTANTS
  Msg = {m1, m2}
  Window = 2
  MaxTokens = 3
  MaxReads = 3
INVARIANTS
  TypeOK
  Genuine
  AtMostOnce
  LossesNoticed
PROPERTY RefinesService
CHECK_DEADLOCK FALSE
