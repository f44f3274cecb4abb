SPECIFICATION Spec
CONSTANTS
  w1 = w1
  p1 = p1
  Workers = {w1}
  Ports = {p1}
  Sizes = {2}
  ResponseSize = 1
  MaxRequests = 2
  Slot = 1
  MaxTime = 2
INVARIANTS LinesPartition NoDrift
PROPERTIES NoUnderflow
CHECK_DEADLOCK FALSE
