SPECIFICATION Spec
CONSTANTS
  MaxAdapters = 2
  MaxForeign = 2
INVARIANTS
  TypeOK
  PowerRestored
PROPERTIES
  FullPowerLeftAlone
  AssociationKept
CHECK_DEADLOCK FALSE
