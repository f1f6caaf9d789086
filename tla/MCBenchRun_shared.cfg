\* Two workers that share a table, bucket or file of each kind.
SPECIFICATION Spec
CONSTANTS
  a = a
  b = b
  Workers = {a, b}
  Confs <- AllBackends
  NumOps = 2
  WarmUpDivisor = 2
  ErrorMax = 1
  SizeMax = 7
INVARIANTS ReportIsHonest ReadsStayInWrittenRange HolesNeverAbort
  KilledOnlyByHole
PROPERTIES Termination
