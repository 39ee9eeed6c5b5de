SPECIFICATION Spec
CONSTANTS
  joints <- MCJoints
  Chains <- MCChains
  Messages <- MCMessages
  NoMessage = NoMessage
  Positions <- MCPositions
  Velocities <- MCVelocities
  PGain <- MCPGain
  DGain <- MCDGain
  IGain <- MCIGain
  IClamp <- MCIClamp
  Bias <- MCBias
\* A refused configuration finalizes the node.
CHECK_DEADLOCK FALSE
INVARIANTS
  ControllerTypeOK
  HoldUntilTold
  FollowsMessage
  NoWindup
  OnlyFeedforwardAtRest
