SPECIFICATION Spec
CONSTANTS
  Popups <- OnePopup
  Buttons <- TwoButtons
  menu = menu
  sub = sub
  left = left
  right = right
  Top = Top
  Other = Other
  Away = Away
  None = None
  Overlaps = FALSE
  Places <- Anywhere
  Viewable <- Either
  MaxQueue = 1
INVARIANTS TypeOK
PROPERTIES OutsidePressDismisses
