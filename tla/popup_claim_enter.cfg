SPECIFICATION Spec
CONSTANTS
  Popups <- TwoPopups
  Buttons <- OneButton
  menu = menu
  sub = sub
  left = left
  right = right
  Top = Top
  Other = Other
  Away = Away
  None = None
  Overlaps = TRUE
  Places <- TwoClients
  Viewable <- Always
  MaxQueue = 1
PROPERTIES NeverEnterMidClick
