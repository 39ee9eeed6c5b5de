SPECIFICATION Spec
CONSTANTS
  Domains = {1, 2}
  Dirs = {d1}
  MaxRuns = 2
CHECK_DEADLOCK FALSE
PROPERTY
  StartsAlone
