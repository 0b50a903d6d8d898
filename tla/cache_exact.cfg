SPECIFICATION Spec
CONSTANTS
  Contracts = {c1, c2}
  MaxOffset = 3
  MultiSynchronizer = FALSE
  TtlMs = 1
  MaxTime = 0
  StoreDropsExpired = TRUE
  NoEntry = NoEntry
  k1 = k1
  Procs = {p1, p2}
  Caches = {k1}
  CacheOf <- OneCache
  DeltaEnabled = TRUE
  MaxOffsetGap = 2
  MaxUpdates = 1
  StoreMayFail = TRUE
  NoPromise = NoPromise
  Error = Error
SYMMETRY CallerSymmetry
INVARIANTS
  TypeOK
  SnapshotConsistent
  FreshResult
  SingleFlight
  InvalidationHolds
PROPERTY ImplementsSnapshots
