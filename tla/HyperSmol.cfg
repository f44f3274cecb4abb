SPECIFICATION Spec
CONSTANTS
  Scenarios <- SmolBodyDelay
  MaxRequests = 2
INVARIANTS BodyDelaySupported
CHECK_DEADLOCK FALSE
