SPECIFICATION Spec
CONSTANTS
  Scripts <- MCFullScripts
  Uses = {"bio"}
  ReadSizes = {1}
  ReadSize = 4
  MaxWire = 4
  Limit = 2
  Burst = 5
  Apart = TRUE
INVARIANT ReadNeverFails
CHECK_DEADLOCK FALSE
