SPECIFICATION FairSpec
CONSTANTS
  Senders = {s1}
  Receivers = {r1}
  Timeouts = {"none", "zero", "some"}
  RecordSize = 2
  MaxCells = 4
  WriteBuffer = 2
  Room = 2
PROPERTY CallsEnd
CHECK_DEADLOCK FALSE
