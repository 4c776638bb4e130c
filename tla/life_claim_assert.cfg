SPECIFICATION Spec
CONSTANTS
  t1 = t1
  t2 = t2
  Toplevels <- One
  None = None
  Unmaps = TRUE
  Decorates = FALSE
  MenuAnswers <- NoMenu
  MaxConfigures = 1
  MaxEvents = 0
INVARIANTS ConfiguresAreLegal
