SPECIFICATION Spec
CONSTANTS
  APs = {ap1}
  Cells = {}
  Fixes = {}
  Positions = {p1}
  MaxNodes = 1
  MaxTime = 0
INVARIANT ServerUnavailableIsTold
CHECK_DEADLOCK FALSE
