SPECIFICATION Spec
CONSTANTS
  clipboard = clipboard
  primary = primary
  a = a
  b = b
  Selections <- Clipboard
  Texts <- TwoTexts
  Habits <- Cross
  ClosesLate = TRUE
  MaxCopies = 3
  Chunks = 1
INVARIANTS OfferIsX11Text
