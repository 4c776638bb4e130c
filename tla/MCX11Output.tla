---------------------------- MODULE MCX11Output ----------------------------
(***************************************************************************)
(* Small instances of X11Output.  Three sizes let a host resize, a fit and *)
(* the window's size all differ; sequence numbers count modulo 8.          *)
(***************************************************************************)
EXTENDS X11Output

CONSTANTS a, b, c    \* model values

TwoSizes == {a, b}
ThreeSizes == {a, b, c}
=============================================================================
