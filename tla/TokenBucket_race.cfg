\* Two threads, one or two tokens, bursts of two tokens, a clock that starts before
\* and after the first burst, one assignment.
SPECIFICATION Spec
CONSTANTS
  t1 = t1
  t2 = t2
  Threads = {t1, t2}
  Second = 2
  Limits <- MCLimits
  Amounts = {1, 2}
  Starts = {1, 2}
  MaxTime = 3
  MaxAssigns = 1
  Word = 16
CHECK_DEADLOCK FALSE
INVARIANTS BucketTypeOK GrantsArePaid WithinBurst
PROPERTIES EveryCallReturns
