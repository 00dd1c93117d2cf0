CONSTANTS
  Tasks = {t1, t2}
  Charges = {1, 3}
  NRows = 1
  TaskLimit = 2
  QueryLimit = 3
SPECIFICATION Spec
INVARIANTS SpillsAreIsolated
