SPECIFICATION Spec
CONSTANTS
  Senders = {s1, s2}
  Receivers = {r1}
  Timeouts = {"none", "zero", "some"}
  RecordSize = 2
  MaxCells = 4
  WriteBuffer = 2
  Room = 2
INVARIANTS TypeOK FlushKeepsOrder WireInOrder OneFlush SendAllCompletes OneRecordEach
CHECK_DEADLOCK FALSE
