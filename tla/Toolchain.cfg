SPECIFICATION FairSpec
CONSTANTS
  Processes = {p1, p2}
  Libraries = {"libicuuc", "libicudata"}
  None = None
  MaxFaults = 2
INVARIANTS TypeOK OnlyVerifiedInputs PrefixOwed ToolsInUse
PROPERTY Heals
CHECK_DEADLOCK FALSE
