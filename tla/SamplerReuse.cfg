SPECIFICATION Spec
CONSTANTS
  root = root
  a = a
  b = b
  Procs = {root, a, b}
  Root = root
  Stranger = stranger
  Passes = {"timing"}
  HasTimeout = TRUE
  Interrupts = FALSE
  GroupIdReuse = TRUE
  MaxFailures = 1
SYMMETRY Symmetry
INVARIANTS RootReaped KillpgHitsOwnGroup
CHECK_DEADLOCK FALSE
