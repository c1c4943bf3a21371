SPECIFICATION Spec
CONSTANTS
  root = root
  a = a
  b = b
  Procs = {root, a, b}
  Root = root
  Stranger = stranger
  Passes = {"timing"}
  HasTimeout = TRUE
  Interrupts = FALSE
  GroupIdReuse = FALSE
  MaxFailures = 6
SYMMETRY Symmetry
INVARIANT CleanupHonest
CHECK_DEADLOCK FALSE
