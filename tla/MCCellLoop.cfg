SPECIFICATION Spec
CONSTANTS
  Cells = {c1, c2}
  NoCell = none
  MaxChanges = 2
INVARIANTS
  IdleMeansReported
  OwnAnswer
  NothingDangles
  LoopConfinesAdapter
PROPERTY
  UserReturns
CHECK_DEADLOCK FALSE
