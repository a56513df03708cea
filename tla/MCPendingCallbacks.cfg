SPECIFICATION Spec
CONSTANTS
  APs = {ap1}
  MaxForeign = 0
PROPERTY PendingCallbacksAreCalled
CHECK_DEADLOCK FALSE
