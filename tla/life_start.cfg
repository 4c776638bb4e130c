SPECIFICATION FairSpec
CONSTANTS
  t1 = t1
  t2 = t2
  Toplevels <- Two
  None = None
  Unmaps = FALSE
  Decorates = TRUE
  MenuAnswers <- NoMenu
  MaxConfigures = 1
  MaxEvents = 1
INVARIANTS TypeOK ConfiguresAreLegal
PROPERTIES InitialCommitAnswered
