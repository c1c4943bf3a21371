SPECIFICATION Spec
CONSTANTS
  root = root
  a = a
  b = b
  Procs = {root, a, b}
  Root = root
  Stranger = stranger
  Passes = {"memory", "timing"}
  HasTimeout = TRUE
  Interrupts = TRUE
  GroupIdReuse = FALSE
  MaxFailures = 0
SYMMETRY Symmetry
INVARIANTS TypeOK CleanupHonest SurvivorsKilled SamplesEndFirst TreeWasOver
CHECK_DEADLOCK FALSE
