SPECIFICATION FairSpec
CONSTANTS
  root = root
  a = a
  Procs = {root, a}
  Root = root
  Stranger = stranger
  Passes = {"memory", "timing"}
  HasTimeout = TRUE
  Interrupts = FALSE
  GroupIdReuse = TRUE
  MaxFailures = 2
INVARIANTS RootReaped KillpgHitsOwnGroup
PROPERTY WaitReturns
CHECK_DEADLOCK FALSE
