SPECIFICATION Spec
CONSTANTS
  t1 = t1
  t2 = t2
  Toplevels <- One
  None = None
  Unmaps = FALSE
  Decorates = FALSE
  MenuAnswers <- NoMenu
  MaxConfigures = 1
  MaxEvents = 1
INVARIANTS HostFocusAligned
