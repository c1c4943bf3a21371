SPECIFICATION Spec
CONSTANTS
  Senders = {s1, s2}
  Receivers = {}
  Timeouts = {"none"}
  RecordSize = 1
  MaxCells = 2
  WriteBuffer = 2
  Room = 2
INVARIANT SendAllBlocks
CHECK_DEADLOCK FALSE
