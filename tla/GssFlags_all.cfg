SPECIFICATION Spec
CONSTANTS
  Flag = {"mutual", "deleg"}
  Half = 4
INVARIANTS
  TypeOK
  ActualOnceBegun
  RequestsReachLibrary
  LifetimeReported
  LifetimeKept
CHECK_DEADLOCK FALSE
