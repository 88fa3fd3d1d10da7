SPECIFICATION Spec
CONSTANTS
  k = k
  c = c
  d = d
  Kind = {"write", "longPollRead"}
  Goroutine = {k, c, d}
  Kernel = k
  Users <- MCUsers
  Batch <- MCBatch
  Cost = {1, 4}
  FailType = {"timeout"}
  Reason = {"r1", "r2"}
  RingSize = 2
  MaxAdds = 3
  MaxFails = 3
CHECK_DEADLOCK FALSE
INVARIANTS
  TypeOK
  OperationsCounted
  AverageInRange
  AloneExact
  LatestFailures
