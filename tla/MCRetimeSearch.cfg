CONSTANTS
  GridCells = 3
  Cell = 4
  Iterations = 2
SPECIFICATION Spec
INVARIANTS
  TypeOK
  Bracket
  SmallestIfMonotonic
PROPERTY RefinesContract
\* The call returns: the search stops there.
CHECK_DEADLOCK FALSE
