CONSTANTS
  Tasks = {t1, t2}
  Charges = {1, 3}
  NRows = 3
  TaskLimit = 2
  QueryLimit = 3
SPECIFICATION FairSpec
INVARIANTS
  BudgetsHold
  NoRowIsLost
  NothingIsLeft
PROPERTIES
  EverySortEnds
  SortsAdvance
