SPECIFICATION Spec
CONSTANTS
  DayLength = 10
  MaxEpochs = 2
  MaxNoise = 2
  BufferSize = 5
INVARIANTS
  PositionAtItsTime
  FixesInOrder
  FramingRecovers
  ReaderEndsWithClose
  OneLateDelivery
PROPERTY
  UserReturns
CHECK_DEADLOCK FALSE
