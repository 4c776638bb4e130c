---------------------------- MODULE MCSubpresent ----------------------------
(***************************************************************************)
(* Small instances of Subpresent: a menubar's subsurface, and a second one, *)
(* that two toplevels of the client hand to each other.                     *)
(***************************************************************************)
EXTENDS Subpresent, TLC

CONSTANTS bar, entry, main, dialog   \* model values

OneSurface == {bar}
TwoSurfaces == {bar, entry}
OneWindow == {main}
TwoWindows == {main, dialog}
Symmetry == Permutations(TwoSurfaces) \cup Permutations(TwoWindows)
InsideOrLeft == {-1, 0}
Inside == {0}
OneOrTwo == {1, 2}
One == {1}
TwoPlaces == {0, 5}
Either == BOOLEAN
=============================================================================
