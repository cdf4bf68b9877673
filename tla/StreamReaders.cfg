SPECIFICATION FairSpec
CONSTANTS
  Conns = {c1}
  Agents = {a1}
  Formats <- VideoAndAudio
  QueueSize = 1
  MaxUnits = 3
INVARIANTS
  UnitsInOrder
  LeavesNothing
PROPERTY
  StopReturns
CHECK_DEADLOCK FALSE
