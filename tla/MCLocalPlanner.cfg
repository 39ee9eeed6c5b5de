CONSTANTS
  Dt = 2
  HorizonSteps = 2
  StallTimeout = 2
  MaxDuration = 5
  MaxSegments = 3
  MaxGoals = 2
SPECIFICATION PlannerFairSpec
INVARIANTS
  SuccessNeedsRoute
  IdleIsClean
PROPERTIES
  AdvancesOntoSafeHorizon
  BrakeIsPredictive
  GoalEnds
  RefinesLocalPlanning
