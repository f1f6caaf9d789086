\* Two ids, a second delivery of one of them, two invocations lost.  The driver
\* may wait for ever.
SPECIFICATION DSpec
CONSTANTS
  w0 = w0
  w1 = w1
  dup = dup
  Invocations = {w0, w1, dup}
  IdOf <- MCIdOf
  WorkersPerTrigger = 2
  TriggerCount = 1
  MaxDeaths = 2
CHECK_DEADLOCK FALSE
INVARIANTS TurnedAwayOnlyByDuplicates LogsAreComplete
PROPERTIES DriverEnds HangsOnlyAfterLoss
