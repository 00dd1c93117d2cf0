CONSTANTS
  t1 = t1
  t2 = t2
  Stages <- TwoStages
  Deps <- ChainDeps
  Tasks = {t1, t2}
  StageOf <- OneInEach
  ShuffleTasks = {t2}
  Workers = {w1}
  Slots = 1
  MaxAttempts = 2
  None = None
SPECIFICATION FairSpec
PROPERTIES
  CancelEndsRun
  ImplementsScheduleRun
