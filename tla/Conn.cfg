SPECIFICATION Spec
CONSTANTS
  Scenarios <- AllScenarios
  MaxRequest = 8
  InitialCapacity = 4
  MinSpare = 2
  CompactAbove = 2
  SocketIn = 4
  SocketOut = 1
INVARIANTS BufferIsWindow InOrder MeterAgrees CapacityBounded StuckOnlyByClient
PROPERTIES EofIsGenuine RefinesServer AllAnswered ShutdownEnds NeverSpins
CHECK_DEADLOCK FALSE
