SPECIFICATION RedrawingSpec
CONSTANTS
  ScaleNum = 3
  ScaleDen = 2
  MinOutputSize = 32
  DefaultSize <- Default
  PreferCsd = TRUE
  SetsGeometry = TRUE
  ClientSizes <- TwoSizes
  ClientMargins <- HugeMargin
  HostSizes <- OddSize
  States = {}
  ClientStates = {}
  PromptClient = TRUE
  HostMayRefuse = FALSE
  MaxConfigures = 1
INVARIANTS TypeOK
PROPERTIES Settles
