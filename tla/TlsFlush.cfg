SPECIFICATION FairSpec
CONSTANTS
 Senders = {s1, s2}
 Receivers = {r1}
 Timeouts = {"none", "zero"}
 RecordSize = 1
 MaxCells = 2
 WriteBuffer = 2
 Room = 1
INVARIANTS TypeOK FlushKeepsOrder WireInOrder OneFlush SendAllCompletes OneRecordEach
PROPERTY CallsEnd
CHECK_DEADLOCK FALSE
