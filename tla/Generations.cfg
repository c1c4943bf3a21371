SPECIFICATION FairSpec
CONSTANTS
  Publishers = {p1, p2}
  Readers = {r1}
  Contents = {c1, c2, c3}
  Files = {f1}
  RECORD = RECORD
  SELF = SELF
  None = None
  PublishOverTorn = FALSE
  MaxCalls = 3
  MaxKills = 1
  MaxLosses = 1
INVARIANTS
  TypeOK
  ActiveVerifies
  ReaderKeepsFiles
  FailsOnlyWhenOvertaken
  AcknowledgedSurvives
  Tidy
PROPERTIES ImplementsStore EveryCallEnds
CHECK_DEADLOCK FALSE
