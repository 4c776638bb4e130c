SPECIFICATION RedrawingSpec
CONSTANTS
  ScaleNum = 1
  ScaleDen = 1
  MinOutputSize = 32
  DefaultSize <- Default
  PreferCsd = FALSE
  SetsGeometry = TRUE
  ClientSizes <- SmallOnly
  ClientMargins <- NoMargin
  HostSizes <- LargeOnly
  States = {"maximized"}
  ClientStates = {"maximized"}
  PromptClient = TRUE
  HostMayRefuse = FALSE
  MaxConfigures = 1
PROPERTIES Settles
