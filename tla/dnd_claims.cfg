SPECIFICATION Spec
CONSTANTS
  w1 = w1
  w2 = w2
  f1 = f1
  f2 = f2
  left = left
  right = right
  Targets <- TwoTargets
  Sources <- TwoSources
  None = None
  Own = Own
  Buttons <- OneButton
  Paths <- Xi2
  LayoutHits <- Off
  Cancels = TRUE
  Pumps = FALSE
  Answers <- Data
  MaxDrags = 1
  MaxInput = 2
  MaxMail = 3
\* None of these holds; to see one, leave out the others.
INVARIANTS NothingLost FinishedToDropper
PROPERTIES TornDown StatusIsTargets SeatHandlesDrag
CHECK_DEADLOCK FALSE
