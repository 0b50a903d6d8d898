SPECIFICATION BothSpec
CONSTANTS
  Depth = 3
  MaxActions = 4
  MaxTargets = 3
  MaxWeight = 2
  Actors = {"alice", "bob"}
  ScheduleDepth = 1
CHECK_DEADLOCK FALSE
INVARIANTS
  VerdictExact
  CleanupPaired
  WeightsShared
PROPERTY NothingAfterTrouble
