SPECIFICATION Spec
CONSTANTS
  H1 = 6
  H2 = 7
  F1 = 8
  F2 = 9
  Payloads <- MCPayloads
  BufferSize = 33
  MaxSent = 5
  MaxNoise = 1
INVARIANTS
  MessagesRecovered
  DataAsSent
CHECK_DEADLOCK FALSE
