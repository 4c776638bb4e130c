SPECIFICATION Spec
CONSTANTS
  Windows <- TwoWindows
  Surfaces <- OneSurface
  bar = bar
  entry = entry
  main = main
  dialog = dialog
  None = None
  Offsets <- InsideOrLeft
  Widths <- OneOrTwo
  Roots <- OneOrTwo
  Origins <- TwoPlaces
  Shadow = 1
  Creates <- Either
SYMMETRY Symmetry
INVARIANTS TypeOK OwnersMapped NeverLost PaintedOnce BoxesFollow
PROPERTIES PromotesOverflow
