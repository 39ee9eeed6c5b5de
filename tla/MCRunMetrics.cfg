CONSTANTS
  Controllers = {"b2", "b3"}
  Dt = 2
  Gaps = {2, 3}
  HorizonSteps = 3
  Onset = 6
  RampDuration = 4
  Slope <- MCSlope
  TauMax = 8
  DeltaTau = 1
  MSafe = 1
  Motions <- MCMotions
  NaN = NaN
  None = None
  MaxCycles = 4
  MaxLost = 1
SPECIFICATION Spec
\* A run ends.
CHECK_DEADLOCK FALSE
INVARIANTS
  EpisodesAreReal
  MinMarginHonest
  MetricsAgree
  PredictionErrorExplained
