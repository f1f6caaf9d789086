\* Tables of up to 8 keys, all roundings, all draws.
SPECIFICATION Spec
CONSTANTS
  Sizes = {0, 1, 2, 3, 5, 8}
  Thetas = {0, 1}
  One = 32
INVARIANTS FoundPlace OutsideOnlyByRounding
PROPERTIES EveryKeyIsFound
