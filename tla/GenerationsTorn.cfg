SPECIFICATION Spec
CONSTANTS
  Publishers = {p1}
  Readers = {r1}
  Contents = {c1, c2, c3}
  Files = {f1, f2}
  RECORD = RECORD
  SELF = SELF
  None = None
  PublishOverTorn = TRUE
  MaxCalls = 4
  MaxKills = 2
  MaxLosses = 0
INVARIANT ActiveVerifies
CHECK_DEADLOCK FALSE
