---------------------------- MODULE ContentSize ----------------------------
(***************************************************************************)
(* Sizes of a toplevel and the arithmetic wl-x11 does on them.             *)
(*                                                                         *)
(* A size is a pair <<width, height>>.  Logical sizes are what the Wayland *)
(* client sees; output sizes are X11 pixels, `content_scale' times larger. *)
(* content_scale is the rational ScaleNum / ScaleDen here.                 *)
(***************************************************************************)
EXTENDS Naturals

CONSTANTS ScaleNum, ScaleDen,  \* content_scale (--scale FACTOR)
          MinOutputSize,       \* WLX_MIN_OUTPUT_SIZE
          DefaultSize          \* <<WLX_DEFAULT_WIDTH, WLX_DEFAULT_HEIGHT>>

Size == Nat \X Nat

\* main.c rejects a factor <= 0; the two defaults are larger than the minimum.
ASSUME ScaleAssumption == ScaleNum \in Nat \ {0} /\ ScaleDen \in Nat \ {0}
ASSUME MinAssumption ==
    /\ MinOutputSize \in Nat
    /\ DefaultSize \in Size
    /\ DefaultSize[1] >= MinOutputSize
    /\ DefaultSize[2] >= MinOutputSize

Unset == <<0, 0>>
Positive(s) == s[1] > 0 /\ s[2] > 0

\* lround(n / d) for n, d > 0: to nearest, halves away from zero.
Lround(n, d) == (2 * n + d) \div (2 * d)
AtLeastOne(v) == IF v < 1 THEN 1 ELSE v

\* wlx_scale_size: logical length to output pixels.
ScaleLength(v) == AtLeastOne(Lround(v * ScaleNum, ScaleDen))
\* wlx_unscale_size: output pixels to logical length.
UnscaleLength(v) == AtLeastOne(Lround(v * ScaleDen, ScaleNum))

Scale(s) == <<ScaleLength(s[1]), ScaleLength(s[2])>>
Unscale(s) == <<UnscaleLength(s[1]), UnscaleLength(s[2])>>

Distance(a, b) == IF a > b THEN a - b ELSE b - a
\* The 1 px hysteresis of every size comparison in the policy.
Near(s, t) == Distance(s[1], t[1]) <= 1 /\ Distance(s[2], t[2]) <= 1
\* "shrinking": below the other size by more than the hysteresis on an axis.
Shrinks(s, t) == s[1] + 1 < t[1] \/ s[2] + 1 < t[2]

\* a - b per axis, not below `low'.
Minus(a, b, low) == IF a > b + low THEN a - b ELSE low
SizeMinus(s, t, low) == <<Minus(s[1], t[1], low), Minus(s[2], t[2], low)>>
SizePlus(s, t) == <<s[1] + t[1], s[2] + t[2]>>

BelowMinimum(s) == s[1] < MinOutputSize \/ s[2] < MinOutputSize
=============================================================================
