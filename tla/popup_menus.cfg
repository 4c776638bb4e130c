SPECIFICATION Spec
CONSTANTS
  Popups <- TwoPopups
  Buttons <- OneButton
  menu = menu
  sub = sub
  left = left
  right = right
  Top = Top
  Other = Other
  Away = Away
  None = None
  Overlaps = FALSE
  Places <- Anywhere
  Viewable <- Always
  MaxQueue = 1
SYMMETRY Symmetry
INVARIANTS TypeOK GrabIsKnown GrabNeedsMenu
PROPERTIES NoEnterMidClick OutsidePressDismisses
