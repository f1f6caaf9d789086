\* Two threads, two rates, a system clock that is set back and forward.
SPECIFICATION Spec
CONSTANTS
  t1 = t1
  t2 = t2
  Threads = {t1, t2}
  Second = 4
  Rates = {2, 4}
  Word = 1000
  StartTime = 3
  MaxTime = 4
  MaxGrants = 4
  MaxSetBack = 1
  MaxSetOn = 1
SYMMETRY ThreadSymmetry
INVARIANTS PlacesAreSpaced WaitNeverWraps RateIsKept WaitsOnlyForSleepers
