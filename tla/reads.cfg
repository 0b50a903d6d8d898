SPECIFICATION ReadsSpec
CONSTANTS
  Contracts = {c1, c2}
  MaxOffset = 3
  MultiSynchronizer = TRUE
  Readers = {r1, r2}
  IncrementalHistory = TRUE
  MaxHistoryPages = 2
  MaxHistoryUpdates = 2
  NoWindow = NoWindow
  Ids = {i1, i2, i3}
  MaxLength = 4
  Traversals = {t1, t2}
  AcsPages <- FourSnapshots
  NoOffset = NoOffset
  MaxPages = 3
  MaxContracts = 3
  Timeout = 3
  Horizon = 4
SYMMETRY ReadSymmetry
CHECK_DEADLOCK FALSE
INVARIANTS
  HistoryComplete
  WindowInBudget
  PatchIsReplay
  FoldMatchesSets
  WholeSnapshot
PROPERTIES
  WindowOnlyGrows
  RequestsInBudget
