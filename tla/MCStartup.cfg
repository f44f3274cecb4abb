SPECIFICATION Spec
CONSTANTS
  Scenarios <- CommandLines
  c1 = c1
  c2 = c2
  Connections = {c1, c2}
  MaxThreads = 3
  SetupCost = 1
  UintBits = 6
  KernelEntries = 16
  MonoioEntries = 4
INVARIANTS NeverPanics EveryElementOnce EvenlyShared OnlyChunksFail Outlives NoneStranded ServedAsAsked
PROPERTIES ConnectionsSettle DescriptorsReturn
CHECK_DEADLOCK FALSE
