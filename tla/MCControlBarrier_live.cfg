\* No deaths: four ids in two waves of two workers, one event delivered twice.
SPECIFICATION Spec
CONSTANTS
  w0 = w0
  w1 = w1
  w2 = w2
  w3 = w3
  dup = dup
  Invocations <- FourIds
  IdOf <- MCIdOf
  WorkersPerTrigger = 2
  TriggerCount = 2
  MaxDeaths = 0
INVARIANTS TypeOK WavesInIdOrder HolderNotAborted
PROPERTIES EveryIdRuns
