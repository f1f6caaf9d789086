\* Batches of two, answered within the second.
SPECIFICATION Spec
CONSTANTS
  Interfaces = {"futures"}
  Mode = {"write", "read"}
  WarmUp = FALSE
  NumOps = 4
  WarmUpDivisor = 4
  NAsync = 2
  ErrorMax = 1
  SizeMax = 31
  MaxSeconds = 2
INVARIANTS SendsAtRateN
