SPECIFICATION FairSpec
CONSTANTS
  Contracts = {c1}
  MaxOffset = 2
  MultiSynchronizer = FALSE
  TtlMs = 1
  MaxTime = 1
  StoreDropsExpired = FALSE
  NoEntry = NoEntry
  k1 = k1
  Procs = {p1, p2}
  Caches = {k1}
  CacheOf <- OneCache
  DeltaEnabled = TRUE
  MaxOffsetGap = 1
  MaxUpdates = 1
  StoreMayFail = TRUE
  NoPromise = NoPromise
  Error = Error
INVARIANT ServedReads
PROPERTY CallsReturn
