SPECIFICATION RedrawingSpec
CONSTANTS
  ScaleNum = 3
  ScaleDen = 2
  MinOutputSize = 32
  DefaultSize <- Default
  PreferCsd = FALSE
  SetsGeometry = TRUE
  ClientSizes <- TwoSizes
  ClientMargins <- NoMargin
  HostSizes <- OddHost
  States = {}
  ClientStates = {}
  PromptClient = TRUE
  HostMayRefuse = FALSE
  MaxConfigures = 1
PROPERTIES Settles
