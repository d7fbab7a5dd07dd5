SPECIFICATION FairSpec
CONSTANTS
  Ctx = {c1, c2, c3, c4, c5, c6}
  Native = {n1, n2, n3, n4, n5, n6, n7}
  Name = {p1, p2, p3}
  Shared = Shared
  NoName = NoName
  NoContext = NoContext
  Blank = Blank
  Nobody = Nobody
  Disciplined = FALSE
  MaxRuns = 3
  MaxLegs = 3
INVARIANTS
  CleanBetweenRuns
  FreshHandshake
  VerifiedOnOwnAssociation
PROPERTIES
  RefinesDiscipline
  RunEnds
CHECK_DEADLOCK FALSE
