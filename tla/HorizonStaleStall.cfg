CONSTANTS
  Dt = 2
  HorizonSteps = 3
  StallTimeout = 3
  MaxDuration = 5
  MaxSegments = 2
SPECIFICATION Spec
PROPERTY AdvanceEarned
