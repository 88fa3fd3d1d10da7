SPECIFICATION Spec
CONSTANTS
  k = k
  c = c
  d = d
  Kind = {"writeAffected"}
  Goroutine = {k, c, d}
  Kernel = k
  Users <- AffectedUsers
  Batch <- AffectedBatch
  Cost = {4, 9}
  FailType = {"timeout"}
  Reason = {"r1", "r2"}
  RingSize = 3
  MaxAdds = 3
  MaxFails = 1
CHECK_DEADLOCK FALSE
INVARIANTS
  AverageInRange
