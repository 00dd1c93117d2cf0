CONSTANTS
  Callers = {c1, c2, closer}
  Closer = closer
  MaxRuns = 3
SPECIFICATION FairSpec
INVARIANTS
  ResultsAreWanted
PROPERTIES
  NoRunAfterCancel
  OutcomeIsFinal
  EverythingEnds
