SPECIFICATION FairSpec
CONSTANTS
  a = a
  b = b
  c = c
  Sizes <- ThreeSizes
  FitSizes <- ThreeSizes
  Managed = TRUE
  MayRefuse = TRUE
  WmBacklog = 2
  SeqMod = 8
  MaxAge = 2
  MaxTraffic = 3
INVARIANTS TypeOK QuietAgreement
PROPERTIES Settles
