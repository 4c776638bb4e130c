SPECIFICATION FairSpec
CONSTANTS
  a = a
  b = b
  c = c
  Sizes <- ThreeSizes
  FitSizes <- ThreeSizes
  Managed = FALSE
  MayRefuse = TRUE
  WmBacklog = 1
  SeqMod = 8
  MaxAge = 2
  MaxTraffic = 3
INVARIANTS QuietAgreement
PROPERTIES Settles
