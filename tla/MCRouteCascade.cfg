CONSTANTS
  LamMax = 4
  GridCells = 3
  Cell = 2
SPECIFICATION Spec
INVARIANTS
  TypeOK
  UncertifiedOnlyWhenExhausted
  DeviationIsJustified
  DilationBounded
\* The call returns.
CHECK_DEADLOCK FALSE
