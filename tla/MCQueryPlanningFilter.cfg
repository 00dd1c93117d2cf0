SPECIFICATION Spec
CONSTANTS
  NULL = NULL
  True = True
  False = False
  Err = Err
  Catalog <- MCCatalog
  Digest <- MCDigest
  ImportDigest <- MCImportDigest
  SpillPartitions = 2
  BloomBits = 2
  BloomHashes = 1
  WorkerCount = 2
  InputSizes = {1, 3}
  BroadcastLimit = 1
  Statements <- MCOuterFiltered
  Databases <- MCDatabases
  Layouts <- MCLayouts
  Budgets = {0, 1, 3}
  MaxIterations = 32
INVARIANT SpillingKeepsTheAnswer
CHECK_DEADLOCK FALSE
