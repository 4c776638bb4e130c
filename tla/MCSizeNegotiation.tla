------------------------- MODULE MCSizeNegotiation -------------------------
(***************************************************************************)
(* Small instances of SizeNegotiation.  Sizes differ by more than the 1 px  *)
(* hysteresis, so that every comparison of the policy can go both ways.    *)
(***************************************************************************)
EXTENDS SizeClaims

Small == <<40, 40>>
Large == <<60, 60>>

LargeOnly == {Large}
SmallOnly == {Small}
OddHost == {<<61, 61>>, <<83, 83>>}
OddSize == {<<61, 61>>}
TwoSizes == {Small, Large}
NoMargin == {<<0, 0>>}
HugeMargin == {<<44, 44>>}
Default == <<100, 70>>
=============================================================================
