----------------------------- MODULE SizeClaims -----------------------------
(***************************************************************************)
(* What docs/SIZE.md, TODO.md and the comments of the size policy say of   *)
(* it and the code does not do.  Each property is the sentence as written; *)
(* its run shows how the code departs from it.                             *)
(***************************************************************************)
EXTENDS SizeNegotiation

\* "size_from_wm: host WM [...] owns the window dimensions.  Do *not* let client
\* preferred size override that" (surface_commit).  A client that redraws what
\* it shows has preferred nothing new, so the host keeps the size it was given.
RedrawKeepsHostSize ==
    [][ClientRedraws /\ win.sizeFromWm => win'.mode = win.mode]_vars

\* "While maximized/fullscreen, a smaller preferred is not a request to shrink
\* the host - EWMH still has the window maximized" (SIZE.md).
MaximizedByHost == hostStates # {} /\ win.schedStates = hostStates /\ ~stateNotify
MaximizedHostKeepsSize ==
    [][ClientFollows /\ MaximizedByHost => win'.mode = win.mode]_vars

\* "after unmaximize the WM restores e.g. 500x350 (size_from_wm=1)": what
\* output_request_state commits belongs to the host (surface_commit's reason for
\* ignoring a stale buffer that would grow the host).
RequestStateOwnsSize ==
    [][OutputRequestState => win'.sizeFromWm]_vars
=============================================================================
