SPECIFICATION FlightSpec
CONSTANTS
  Worker = {w1, w2}
  OpId = {a, b}
  GenerationLimit = 16
  MaxLeases = 4
  MaxBoots = 1
  w1 = w1
  w2 = w2
  a = a
  b = b
SYMMETRY Symmetry
CHECK_DEADLOCK FALSE
INVARIANT CancelHitsItsTarget
