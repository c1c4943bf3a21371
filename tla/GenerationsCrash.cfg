SPECIFICATION Spec
CONSTANTS
  Publishers = {p1, p2}
  Readers = {r1}
  Contents = {c1, c2, c3}
  Files = {f1, f2}
  RECORD = RECORD
  SELF = SELF
  None = None
  PublishOverTorn = FALSE
  MaxCalls = 4
  MaxKills = 1
  MaxLosses = 1
SYMMETRY Symmetry
INVARIANTS
  TypeOK
  ActiveVerifies
  ReaderKeepsFiles
  FailsOnlyWhenOvertaken
  AcknowledgedSurvives
  Tidy
PROPERTY ImplementsStore
CHECK_DEADLOCK FALSE
