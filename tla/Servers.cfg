SPECIFICATION Spec
CONSTANTS
  Clients = {x, y}
  Callers = {k}
  Sessions = {x, y}
  Kickers = {k, l}
  Patches = {p}
  MaxBad = 1
  Values = {v, w}
  Servings = {"off", "optional", "strict"}
  Paths <- MCPaths
INVARIANTS
  NothingIsLeft
  ResourcesMatchConf
PROPERTY
  CallsReturn
CHECK_DEADLOCK FALSE
