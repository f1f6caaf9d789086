\* Batches of three: what an error leaves behind, and what the loops report.
SPECIFICATION Spec
CONSTANTS
  Interfaces = {"futures", "batched"}
  Mode = {"write", "read", "destroy"}
  WarmUp = TRUE
  NumOps = 6
  WarmUpDivisor = 3
  NAsync = 3
  ErrorMax = 2
  SizeMax = 31
  MaxSeconds = 2
INVARIANTS NoWaitOnEmptyQueue DriftIsBounded SeriesAddUp ShortfallIsBounded
PROPERTIES Termination
