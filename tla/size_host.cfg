SPECIFICATION Spec
CONSTANTS
  ScaleNum = 1
  ScaleDen = 1
  MinOutputSize = 32
  DefaultSize <- Default
  PreferCsd = FALSE
  SetsGeometry = TRUE
  ClientSizes <- TwoSizes
  ClientMargins <- NoMargin
  HostSizes <- TwoSizes
  States = {"maximized"}
  ClientStates = {"maximized"}
  PromptClient = FALSE
  HostMayRefuse = TRUE
  MaxConfigures = 2
INVARIANTS HostAuthorityTold LastConfIsNewestTold
PROPERTIES TiledModeIsHosts
