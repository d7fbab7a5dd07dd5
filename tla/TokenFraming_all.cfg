SPECIFICATION Spec
CONSTANTS
  Base = 2
  Token <- Tokens
  Null = Null
  MaxWrites = 3
  MaxReads = 4
INVARIANTS
  TypeOK
  Framed
  CleanEndIsNull
PROPERTIES
  RefinesChannel
  ReadReturns
CHECK_DEADLOCK FALSE
