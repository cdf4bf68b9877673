SPECIFICATION ShutdownSpec
CONSTANTS
  r1 = r1
  r2 = r2
  p1 = p1
  Readers = {r1, r2}
  Publishers = {p1}
  Servers = 2
  ServerOf <- TwoServers
  Confs <- PromptConfs
PROPERTIES
  CallsReturn
  UnneededSourceCloses
  CloseReturns
CHECK_DEADLOCK FALSE
