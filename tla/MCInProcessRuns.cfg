SPECIFICATION FairSpec
CONSTANTS
  Inputs = {i1, i2}
  Root = root
  NoRun = NoRun
  MaxRuns = 3
INVARIANTS HitMeansNoResult
PROPERTY EverythingEnds
