SPECIFICATION Spec
CONSTANTS
  DayLength = 10
  MaxEpochs = 2
  MaxNoise = 0
  BufferSize = 5
INVARIANT
  GpsTimeOfFix
CHECK_DEADLOCK FALSE
