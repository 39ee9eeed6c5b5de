--------------------------- MODULE MCRouteCascade ---------------------------
(***************************************************************************)
(* Every margin landscape over seven dilations from 1 to the default       *)
(* lam_max and their products: three cells of two ticks, so that there are *)
(* grid points strictly between the ends, which only the dense scan can    *)
(* find, dilations between the grid points, where nobody looks unless a    *)
(* bisection passes by, and products beyond lam_max.                       *)
(***************************************************************************)
EXTENDS RouteCascade

ASSUME OffGridAssumption == Cell > 1 /\ GridCells > 1
=============================================================================
