SPECIFICATION Spec
CONSTANTS
  Scenarios <- HttpsWithHttp2
  c1 = c1
  c2 = c2
  Connections = {c1}
  MaxThreads = 3
  SetupCost = 1
  UintBits = 6
  KernelEntries = 16
  MonoioEntries = 4
INVARIANTS AlpnHonoured
CHECK_DEADLOCK FALSE
