SPECIFICATION Spec
CONSTANTS
  ScaleNum = 1
  ScaleDen = 1
  MinOutputSize = 32
  DefaultSize <- Default
  PreferCsd = FALSE
  SetsGeometry = TRUE
  ClientSizes <- TwoSizes
  ClientMargins <- NoMargin
  HostSizes <- TwoSizes
  States = {"maximized"}
  ClientStates = {}
  HostMayRefuse = FALSE
  PromptClient = TRUE
  MaxConfigures = 1
\* None of these holds; to see one, leave out the others.
PROPERTIES RedrawKeepsHostSize MaximizedHostKeepsSize RequestStateOwnsSize
