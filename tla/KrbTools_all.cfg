SPECIFICATION Spec
CONSTANTS
  Principal = {p, q}
  Default = q
  Empty = Empty
  TwoWords = TwoWords
  Gap = Gap
  Renew = Renew
  MaxActivities = 3
  MaxCalls = 3
INVARIANTS
  TypeOK
  ServiceOfOwner
  GotTicket
  Destroyed
PROPERTIES
  ToolEnds
CHECK_DEADLOCK FALSE
