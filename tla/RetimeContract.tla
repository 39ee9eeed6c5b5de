--------------------------- MODULE RetimeContract ---------------------------
(***************************************************************************)
(* The abstract retime search: one step, from a feasible set to one of the *)
(* results the range module allows.  RetimeSearch implements it, and the   *)
(* route cascade relies on it where it installs a retimed route without    *)
(* looking at the margin again (horizon_trajectory_operator.cpp, Level 1). *)
(***************************************************************************)
EXTENDS RetimeRange

VARIABLES
  feasible,  \* the ticks whose retimed route clears the target
  result     \* Pending, NoLambda or the dilation returned

Init ==
  /\ feasible \in SUBSET Ticks
  /\ result = Pending

Return ==
  /\ result = Pending
  /\ result' \in Results(feasible)
  /\ UNCHANGED feasible

Spec == Init /\ [][Return]_<<feasible, result>>
=============================================================================
