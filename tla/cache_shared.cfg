SPECIFICATION Spec
CONSTANTS
  Contracts = {c1, c2}
  MaxOffset = 2
  MultiSynchronizer = TRUE
  TtlMs = 1
  MaxTime = 0
  StoreDropsExpired = FALSE
  NoEntry = NoEntry
  k1 = k1
  Procs = {p1, p2}
  Caches = {p1, p2}
  CacheOf <- CacheEach
  DeltaEnabled = TRUE
  MaxOffsetGap = 2
  MaxUpdates = 2
  StoreMayFail = FALSE
  NoPromise = NoPromise
  Error = Error
SYMMETRY CallerSymmetry
INVARIANTS
  WrongOnlyAboutMoves
