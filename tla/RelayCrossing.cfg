CONSTANTS
  Turn = {a, b}
  Unknown = Unknown
  Opaque = Opaque
  Migrates = TRUE
  MayRefuse = FALSE
SPECIFICATION RelaySpec
PROPERTIES
  SwitchWaits
CHECK_DEADLOCK FALSE
