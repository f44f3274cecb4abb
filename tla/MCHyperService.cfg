SPECIFICATION Spec
CONSTANTS
  Scenarios <- AllScenarios
  MaxRequests = 2
INVARIANTS RecordedOnce FramesInOrder BodyWaits RecordedIsWritten ServerKeeps NoneHeldUp
PROPERTIES RefinesService Answered WorkGoesDown
CHECK_DEADLOCK FALSE
