SPECIFICATION Spec
CONSTANTS
  Revisions = {r1, r2}
  Packagers = {p1}
  Assemblers = {a1}
  Registered = {known}
  Others = {other}
  Elsewhere = {stray}
  None = None
  MaxCommits = 1
  MaxBuilds = 1
  MaxPackages = 2
SYMMETRY Symmetry
INVARIANT NamesWhatWasBuilt
CHECK_DEADLOCK FALSE
