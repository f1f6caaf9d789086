\* Two workers on one bucket that neither is to destroy.
SPECIFICATION Spec
CONSTANTS
  a = a
  b = b
  Workers = {a, b}
  Confs <- KeepBucket
  NumOps = 2
  WarmUpDivisor = 2
  ErrorMax = 1
  SizeMax = 7
PROPERTIES DestroyedOnlyOnRequest
