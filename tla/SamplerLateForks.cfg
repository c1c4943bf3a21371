SPECIFICATION Spec
CONSTANTS
  root = root
  a = a
  b = b
  Procs = {root, a, b}
  Root = root
  Stranger = stranger
  Passes = {"timing"}
  HasTimeout = TRUE
  Interrupts = FALSE
  GroupIdReuse = FALSE
  MaxFailures = 0
SYMMETRY Symmetry
INVARIANT NobodyLeft
CHECK_DEADLOCK FALSE
