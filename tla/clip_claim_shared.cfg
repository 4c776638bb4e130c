SPECIFICATION Spec
CONSTANTS
  clipboard = clipboard
  primary = primary
  a = a
  b = b
  Selections <- Both
  Texts <- TwoTexts
  Habits <- WaylandBoth
  ClosesLate = TRUE
  MaxCopies = 3
  Chunks = 1
INVARIANTS CopyIsPublished
