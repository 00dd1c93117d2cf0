CONSTANTS
  Attempts = {a1, a2}
  Submissions = {shuffle, other}
  Shuffles = {shuffle}
  NParts = 2
  Clients = {c1}
  None = None
SPECIFICATION FairSpec
INVARIANTS
  TerminalIsQuiet
  ConfirmedMeansStopped
PROPERTIES
  CancelSettles
  ImplementsWorkerAttempt
