SPECIFICATION Safe
CONSTANTS
  Scenarios <- MalformedScenarios
  MaxRequest = 2
  InitialCapacity = 4
  MinSpare = 2
  CompactAbove = 2
  SocketIn = 4
  SocketOut = 1
PROPERTIES ErrMeansIncomplete
CHECK_DEADLOCK FALSE
