SPECIFICATION Spec
CONSTANTS
  Popups <- OnePopup
  Buttons <- OneButton
  menu = menu
  sub = sub
  left = left
  right = right
  Top = Top
  Other = Other
  Away = Away
  None = None
  Overlaps = FALSE
  Places <- Anywhere
  Viewable <- Always
  MaxQueue = 1
INVARIANTS SeatButtonsAreHeld
