\* Two listeners, three messages, a refused publish, a message of another worker: what is written.
SPECIFICATION Spec
CONSTANTS
  NumListeners = 2
  NumOps = 3
  ErrorMax = 1
  MaxForeign = 1
CHECK_DEADLOCK FALSE
INVARIANTS RowsAreSound
PROPERTIES EndsUnlessDisturbed
