------------------------- MODULE MCClipboardBridge -------------------------
(***************************************************************************)
(* Small instances of ClipboardBridge: one or both selections, two texts.   *)
(***************************************************************************)
EXTENDS ClipboardBridge

CONSTANTS clipboard, primary, a, b     \* model values

Clipboard == {clipboard}
Both == {clipboard, primary}
Use(wl, x, one) == [wayland |-> wl, x11 |-> x, oneApp |-> one]
\* Both sides copy to the clipboard; or each has a selection of its own.
CrossOrSplit == {Use(Clipboard, Clipboard, FALSE), Use(Clipboard, {primary}, TRUE)}
Cross == {Use(Clipboard, Clipboard, TRUE)}
WaylandClipboard == {Use(Clipboard, {}, TRUE)}
WaylandBoth == {Use(Both, {}, TRUE)}
TwoTexts == {a, b}
=============================================================================
