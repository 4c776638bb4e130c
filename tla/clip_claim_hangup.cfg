SPECIFICATION Spec
CONSTANTS
  clipboard = clipboard
  primary = primary
  a = a
  b = b
  Selections <- Clipboard
  Texts <- TwoTexts
  Habits <- WaylandClipboard
  ClosesLate = FALSE
  MaxCopies = 3
  Chunks = 1
INVARIANTS CopyIsPublished
