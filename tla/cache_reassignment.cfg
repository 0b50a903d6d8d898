SPECIFICATION Spec
CONSTANTS
  Contracts = {c1, c2}
  MaxOffset = 2
  MultiSynchronizer = TRUE
  TtlMs = 1
  MaxTime = 0
  StoreDropsExpired = TRUE
  NoEntry = NoEntry
  k1 = k1
  Procs = {p1}
  Caches = {k1}
  CacheOf <- OneCache
  DeltaEnabled = TRUE
  MaxOffsetGap = 2
  MaxUpdates = 2
  StoreMayFail = FALSE
  NoPromise = NoPromise
  Error = Error
SYMMETRY ContractSymmetry
INVARIANT SnapshotConsistent
