\* A sender and a receiver, one warm-up operation and three measured ones, one
\* tolerated error per thread.  The receiver may wait for ever.
SPECIFICATION Spec
CONSTANTS
  Backends = {"redis", "s3", "dynamodb"}
  Mode = {"write", "read"}
  WarmUp = TRUE
  NumOps = 3
  WarmUpDivisor = 3
  ErrorMax = 1
  SizeMax = 7
CHECK_DEADLOCK FALSE
INVARIANTS FinishedMeansNoErrors MeasuredOnly
  ReceivedWithinSent
PROPERTIES QueueIsFifo EndsUnlessLost
