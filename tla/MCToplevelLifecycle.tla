------------------------ MODULE MCToplevelLifecycle ------------------------
(* Small instances of ToplevelLifecycle. *)
EXTENDS ToplevelRefinement, TLC

CONSTANTS t1, t2
One == {t1}
Two == {t1, t2}
NoMenu == {FALSE}
Perhaps == BOOLEAN
Symmetry == Permutations(Two)
=============================================================================
