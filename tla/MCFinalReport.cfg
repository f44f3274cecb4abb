SPECIFICATION Spec
CONSTANTS
  w1 = w1
  w2 = w2
  p1 = p1
  p2 = p2
  Workers = {w1, w2}
  Ports = {p1, p2}
  PortOrder <- TwoPorts
  Sizes = {1}
  ResponseSize = 1
  MaxRequests = 1
INVARIANTS PortsAccountForTotal ResponsesFollowRequests PortsCoverTotals ReportIsPast
CHECK_DEADLOCK FALSE
