SPECIFICATION Spec
CONSTANTS
  APs = {ap1}
  MaxForeign = 1
INVARIANTS
  TypeOK
  SocketInStep
  NoListenerAfterClose
  OkResultIsSnapshot
  OneLateCallback
  LateTouchByAnotherScan
PROPERTY
  ScanReturns
CHECK_DEADLOCK FALSE
