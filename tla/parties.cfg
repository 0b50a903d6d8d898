SPECIFICATION OperationsSpec
CONSTANTS
  WaitTimeouts = {1, 2, 4}
  WaitIntervals = {0, 1, 3}
  MaxTimerLag = 1
  MaxTime = 7
  Hashes = {h1, h2}
  NoMapping = NoMapping
  Unhashed = Unhashed
  Clients <- ClientOrder
  p1 = p1
  p2 = p2
  Timeouts = {0, 1}
  Intervals <- AroundZero
  MaxLate = 1
  MaxElapsed = 2
  MaxCalls = 2
  Keys = {1, 2, 3}
  MaxOwners = 2
  MaxParty = 2
  Stranger = Stranger
CHECK_DEADLOCK FALSE
INVARIANTS
  WaitTruthful
  ActivationTruthful
  AllSignedBeforeWait
  FinalizationExact
PROPERTY OperationsEnd
