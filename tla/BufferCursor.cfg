CONSTANTS
  Mod = 16
  Sizes = {0, 4, 15}
  Starts = {0, 1}
  Lens = {0, 1, 2, 4, 15}
  MaxOps = 2
SPECIFICATION Spec
INVARIANTS
  InBounds
  RoundTrip
CHECK_DEADLOCK FALSE
