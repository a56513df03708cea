SPECIFICATION Spec
CONSTANTS
  Half = 8
  Places <- MCPlaces
  Handovers <- MCHandovers
  Starts = {0, 14}
  Settings <- MCSettings
  P2pNames = {"p2p0", "p2p-dev"}
  MaxFixes = 2
  MaxEvents = 3
INVARIANTS
  RequestTellsTheScan
  SsidIsTold
  AgesAreTrue
  
  P2pOnlyIfNoOther
CHECK_DEADLOCK FALSE
