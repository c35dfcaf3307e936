CONSTANTS
  MaxSequence = 5
  MaxResent = 2
  MaxFlight = 2
  Capacity = 2
  Socket = {w1, w2}
SPECIFICATION Spec
INVARIANTS
  GapsReported
PROPERTIES
  AckMonotone
CHECK_DEADLOCK FALSE
