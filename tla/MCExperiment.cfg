SPECIFICATION Spec
CONSTANTS
  Domains = {1, 2}
  Dirs = {d1}
  MaxRuns = 3
\* The sweep ends.
CHECK_DEADLOCK FALSE
INVARIANTS
  OwnRobot
  LeavesNothing
PROPERTIES
  ReadyIsOwn
  RunEnds
