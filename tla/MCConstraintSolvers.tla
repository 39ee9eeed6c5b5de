------------------------- MODULE MCConstraintSolvers -------------------------
(***************************************************************************)
(* Two coupled joints whose speeds straddle the box: a joint is at         *)
(* rest, stop within the braking period, just stop, or still be moving     *)
(* after it, in both directions and beside another in a different case.    *)
(* The first waypoint fits, is tight or needs too much, with or without    *)
(* the force; the later ones are roomy, exactly at m_safe, tight in either *)
(* joint, or unknown.                                                      *)
(***************************************************************************)
EXTENDS ConstraintSolvers

CONSTANTS j1, j2   \* the joints

MCTauMax == [i \in Joints |-> 4]
MCDeltaTau == [i \in Joints |-> IF i = j1 THEN 1 ELSE 0]

Both(x, y) == [i \in Joints |-> IF i = j1 THEN x ELSE y]

MCAccelerations == -2 .. 2
MCMassTimes ==
  [a \in [Joints -> MCAccelerations] |-> Both(2 * a[j1] + a[j2], a[j1] + 2 * a[j2])]
MCNominals ==
  {[qddot |-> Both(0, 0), bias |-> Both(1, -1)],
   [qddot |-> Both(1, 0), bias |-> Both(1, -2)],
   [qddot |-> Both(2, 1), bias |-> Both(0, 2)],
   [qddot |-> Both(-1, -2), bias |-> Both(-1, 0)]}
MCPulls == {Both(0, 0), Both(3, -1)}
MCTorques == {Both(-2, 3), Both(3, 0), Both(1, -5)}
MCMeasurements ==
  {Both(0, 0), Both(1, 3), Both(-2, 2), Both(-3, -1), Both(3, -2), Both(0, -3)}

ASSUME BoxIsExceeded == QddotBox < MaxSpeed /\ 1 < QddotBox
=============================================================================
