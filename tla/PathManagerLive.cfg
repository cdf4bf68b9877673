SPECIFICATION FairSpec
CONSTANTS
  a = a
  all = all
  None = None
  Names = {a}
  Patterns = {all}
  PathConfigs <- AlternatingConfigs
  Paths = {x1, x2}
  Clients = {c1}
PROPERTIES
  ReloadReturns
  CallsReturn
  CloseReturns
CHECK_DEADLOCK FALSE
