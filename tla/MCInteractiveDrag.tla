------------------------- MODULE MCInteractiveDrag -------------------------
(***************************************************************************)
(* A window four pixels wide at 0 that the WM displaces by one, and a       *)
(* pointer with two places: enough for requests that undo each other and    *)
(* for a resize below MinWidth.                                             *)
(***************************************************************************)
EXTENDS InteractiveDrag

TwoPlaces == {0, 3}
AllKinds == {"move", "left", "right"}

\* States differ only in what is still read: what belongs to a drag is written
\* anew by the next Begin and read by nobody before that.
LiveState ==
    <<user, queues, held, client, grab, host, moving, edge,
      IF moving THEN {offset} ELSE {}, IF edge # "none" THEN {start} ELSE {},
      IF Dragging THEN <<follow, history>> ELSE <<>>>>
=============================================================================
