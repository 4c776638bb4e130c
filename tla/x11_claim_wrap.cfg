SPECIFICATION Spec
CONSTANTS
  a = a
  b = b
  c = c
  Sizes <- TwoSizes
  FitSizes <- TwoSizes
  Managed = TRUE
  MayRefuse = TRUE
  WmBacklog = 1
  SeqMod = 8
  MaxAge = 8
  MaxTraffic = 2
INVARIANTS QuietAgreement
