SPECIFICATION Spec
CONSTANTS
  t1 = t1
  t2 = t2
  Toplevels <- Two
  None = None
  Unmaps = TRUE
  Decorates = FALSE
  MenuAnswers <- Perhaps
  MaxConfigures = 1
  MaxEvents = 2
SYMMETRY Symmetry
INVARIANTS ActiveIsFocused NamedWindowsMapped HostFocusWins
PROPERTIES ImplementsStages
