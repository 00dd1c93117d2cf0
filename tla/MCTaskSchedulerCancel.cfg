CONSTANTS
  t1 = t1
  t2 = t2
  Stages <- OneStage
  Deps <- NoDeps
  Tasks = {t1, t2}
  StageOf <- BothInOne
  ShuffleTasks = {}
  Workers = {w1}
  Slots = 1
  MaxAttempts = 2
  None = None
SPECIFICATION Spec
INVARIANTS CancelWaitsForAttempts
