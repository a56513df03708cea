SPECIFICATION Spec
CONSTANTS
  SatsPerMessage = 2
  MaxGsvMessages = 3
  MaxSatInUse = 2
  Dialects <- MCDialects
  Views = {0, 1, 3}
  Junk <- MCJunk
  GsvTimeout = 1
  MaxEpochs = 3
  MaxDamage = 2
INVARIANTS
  FieldsHoldTheirTokens
  FixLagsByDamage
  GroupDelivered
  LoopBack
CHECK_DEADLOCK FALSE
