\* Up to two workers are killed before they run; a missing id may then keep
\* everybody waiting, so that the system may stop.
SPECIFICATION Spec
CONSTANTS
  w0 = w0
  w1 = w1
  w2 = w2
  w3 = w3
  dup = dup
  Invocations <- ThreeIds
  IdOf <- MCIdOf
  WorkersPerTrigger = 3
  TriggerCount = 1
  MaxDeaths = 2
CHECK_DEADLOCK FALSE
INVARIANTS RunAfterAllReady OneRunnerPerId CrashOnlyAfterLoss
PROPERTIES NobodyLeftWaiting
