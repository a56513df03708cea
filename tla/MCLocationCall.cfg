SPECIFICATION Spec
CONSTANTS
  APs = {ap1}
  Cells = {c1}
  Fixes = {f1, f2}
  Positions = {p1, p2}
  MaxNodes = 2
  MaxTime = 2
INVARIANTS
  TypeOK
  RequestHasWhatWasHeard
  OkIsAnswered
  AgeOfFirstLocation
  UnauthorizedIsTold
PROPERTIES
  ImplementsApi
  CallReturns
CHECK_DEADLOCK FALSE
