CONSTANTS
  Dt = 2
  HorizonSteps = 3
  StallTimeout = 3
  MaxDuration = 5
  MaxSegments = 3
SPECIFICATION FairSpec
INVARIANTS
  OperatorTypeOK
PROPERTIES
  AdvanceEarnedAfterFirst
  RouteTraversed
