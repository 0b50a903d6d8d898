SPECIFICATION ClientSpec
CONSTANTS
  Queries = {q1, q2, q3}
  Disposers = {d1, d2}
  None = None
  Calls = {1, 2, 3}
  Requests = {r1}
  p1 = p1
  Parties = {p1, p2}
  NoCall = NoCall
CHECK_DEADLOCK FALSE
INVARIANTS
  ValidatedOnce
  FailureNotPinned
  PoolFirst
  CommitsOnce
  SignedByAll
PROPERTY AllSettle
