SPECIFICATION Spec
CONSTANTS
  a = a
  all = all
  None = None
  Names = {a}
  Patterns = {all}
  PathConfigs <- ReloadedConfigs
  Paths = {x1, x2, x3}
  Clients = {c1, c2}
SYMMETRY Symmetry
INVARIANTS
  IndexesAgree
  OneWorkingPath
  PathsAreFound
  PathsAreRecreated
CHECK_DEADLOCK FALSE
