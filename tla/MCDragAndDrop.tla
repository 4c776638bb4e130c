--------------------------- MODULE MCDragAndDrop ---------------------------
(* Small instances of DragAndDrop. *)
EXTENDS DragAndDrop, TLC

CONSTANTS w1, w2, f1, f2, left, right
OneTarget == {w1}
TwoTargets == {w1, w2}
OneSource == {f1}
OneButton == {left}
TwoButtons == {left, right}
Xi2 == {"xi2"}
AnyPath == {"xi2", "core"}
Off == {FALSE}
Perhaps == BOOLEAN
Text == {"text"}
Data == {"text", "empty"}
AnyAnswer == {"text", "empty", "refused"}
TwoSources == {f1, f2}
=============================================================================
