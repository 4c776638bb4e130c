SPECIFICATION Spec
CONSTANTS
  Pointers <- TwoPlaces
  FirstX = 0
  FirstWidth = 4
  MinWidth = 2
  Inset = 1
  MaxMoves = 3
  MaxDrags = 2
  MaxInput = 2
  MaxClicks = 2
  Kinds <- AllKinds
\* Each of these fails (tlc -continue reports them all).
INVARIANTS ConvergesAtOnce CatchesUp EdgeStays OnlyLateDragsOutlive DragNeedsButton
CHECK_DEADLOCK FALSE
