SPECIFICATION Spec
CONSTANTS
  HorizonSteps = 3
  Onset = 3
  RampDuration = 3
  Slope <- MCSlope
  TauMax = 7
  DeltaTau = 1
  MSafe = 1
  Loads <- MCLoads
  LastWaypoint = 4
  MaxSkew = 2
  MaxTime = 11
\* Time stops at MaxTime.
CHECK_DEADLOCK FALSE
INVARIANTS
  NeverLaterThanB2
  WarnsAHorizonAhead
  NoAlarmBeforeStart
