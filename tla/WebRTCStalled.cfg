SPECIFICATION Spec
CONSTANTS
  Clients = {x}
  Callers = {k}
  Sessions = {x}
  Kickers = {k}
  Patches = {p}
  MaxBad = 1
  Values = {v, w}
  Servings = {"off"}
  Paths <- MCPaths
PROPERTY
  WebRTCCloses
CHECK_DEADLOCK FALSE
