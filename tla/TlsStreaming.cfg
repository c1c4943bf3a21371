SPECIFICATION FairSpec
CONSTANTS
  Scripts <- MCScripts
  Uses = {"socket", "bio"}
  ReadSizes = {1, 2, 3}
  ReadSize = 2
  MaxWire = 4
  Limit = 2
  Burst = 2
  Apart = TRUE
INVARIANTS TypeOK DrainedFirst
PROPERTIES ImplementsStream StreamEnds
CHECK_DEADLOCK FALSE
