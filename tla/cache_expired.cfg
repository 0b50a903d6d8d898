SPECIFICATION Spec
CONSTANTS
  Contracts = {c1}
  MaxOffset = 2
  MultiSynchronizer = FALSE
  TtlMs = 1
  MaxTime = 2
  StoreDropsExpired = TRUE
  NoEntry = NoEntry
  k1 = k1
  Procs = {p1}
  Caches = {k1}
  CacheOf <- OneCache
  DeltaEnabled = TRUE
  MaxOffsetGap = 2
  MaxUpdates = 2
  StoreMayFail = FALSE
  NoPromise = NoPromise
  Error = Error
PROPERTY ExpiredBaseIsUsed
