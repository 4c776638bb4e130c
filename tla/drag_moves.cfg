SPECIFICATION Spec
CONSTANTS
  Pointers <- TwoPlaces
  FirstX = 0
  FirstWidth = 4
  MinWidth = 2
  Inset = 1
  MaxMoves = 3
  MaxDrags = 2
  MaxInput = 2
  MaxClicks = 2
  Kinds <- AllKinds
INVARIANTS TypeOK CorrectionIsInset LandsUnderPointer EndsWithItsRelease
VIEW LiveState
CHECK_DEADLOCK FALSE
