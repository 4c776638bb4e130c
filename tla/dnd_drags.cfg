SPECIFICATION FairSpec
CONSTANTS
  w1 = w1
  w2 = w2
  f1 = f1
  f2 = f2
  left = left
  right = right
  Targets <- OneTarget
  Sources <- OneSource
  None = None
  Own = Own
  Buttons <- OneButton
  Paths <- AnyPath
  LayoutHits <- Off
  Cancels = TRUE
  Pumps = TRUE
  Answers <- Data
  MaxDrags = 1
  MaxInput = 1
  MaxMail = 2
INVARIANTS TypeOK SessionsMatch SelectionHeld FinishedToDropper
PROPERTIES DroppedEnds InboundAnswered
CHECK_DEADLOCK FALSE
