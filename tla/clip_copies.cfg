SPECIFICATION FairSpec
CONSTANTS
  clipboard = clipboard
  primary = primary
  a = a
  b = b
  Selections <- Both
  Texts <- TwoTexts
  Habits <- CrossOrSplit
  ClosesLate = TRUE
  MaxCopies = 3
  Chunks = 2
INVARIANTS TypeOK OwnershipKnown Bridged
PROPERTIES ComesToRest
