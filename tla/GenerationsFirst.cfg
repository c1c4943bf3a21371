SPECIFICATION Spec
CONSTANTS
  Publishers = {p1}
  Readers = {r1}
  Contents = {c1, c2}
  Files = {f1}
  RECORD = RECORD
  SELF = SELF
  None = None
  PublishOverTorn = FALSE
  MaxCalls = 2
  MaxKills = 0
  MaxLosses = 1
INVARIANT FirstSurvives
CHECK_DEADLOCK FALSE
