---------------------------- MODULE MCPopupGrab ----------------------------
(***************************************************************************)
(* Small instances of PopupGrab: a menu and a tooltip or submenu, one       *)
(* button, and a pointer that may leave the windows of wl-x11.              *)
(***************************************************************************)
EXTENDS PopupGrab

CONSTANTS menu, sub, left, right     \* model values

OnePopup == {menu}
TwoPopups == {menu, sub}
Symmetry == Permutations(TwoPopups)
Always == {TRUE}
Either == BOOLEAN
OneButton == {left}
TwoButtons == {left, right}
Anywhere == {Top, Away}
TwoClients == {Top, Other}
=============================================================================
