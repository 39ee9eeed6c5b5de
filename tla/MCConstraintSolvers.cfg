CONSTANTS
  j1 = j1
  j2 = j2
  Joints = {j1, j2}
  MaxSpeed = 3
  QddotBox = 2
  TauMax <- MCTauMax
  DeltaTau <- MCDeltaTau
  MSafe = 1
  HorizonSteps = 3
  Infinity = 100
  NoDynamics = NoDynamics
  Accelerations <- MCAccelerations
  MassTimes <- MCMassTimes
  Nominals <- MCNominals
  Pulls <- MCPulls
  Torques <- MCTorques
  Measurements <- MCMeasurements
SPECIFICATION SolversSpec
INVARIANTS
  BrakeIsFollowable
  CertificateIsLeast
PROPERTIES
  PassedIsRoomy
  InterventionBounded
