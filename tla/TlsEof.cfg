SPECIFICATION Spec
CONSTANTS
  Scripts <- MCScripts
  Uses = {"bio"}
  ReadSizes = {1}
  ReadSize = 2
  MaxWire = 4
  Limit = 2
  Burst = 2
  Apart = FALSE
INVARIANT ReadNeverFails
CHECK_DEADLOCK FALSE
