SPECIFICATION Spec
CONSTANTS
  ChunkStreams = {2, 3, 4, 5, 6}
  TimeMod = 4
  CountMod = 35
  MaxBodySize = 3
  InitialChunkSize = 1
  ChunkSize = 2
  Window = 21
  Second = 3
  BodyLens = {1, 3}
  Gaps <- MCGaps
  MaxUnits = 3
  MaxInFlight = 4
INVARIANTS
  MessagesArrive
  RefusalsAreKnown
  AcknowledgedInTime
PROPERTY
  TracksAreFound
CHECK_DEADLOCK FALSE
