SPECIFICATION Spec
CONSTANTS
  Tracks = {v, a}
  Video = {v}
  AC3 = {c}
  PartDuration = 1
  SegmentDuration = 3
  Gaps = {1, 2}
  BufferSize = 2
  MaxSamples = 6
  MaxSamplesTS = 5
  MaxVersion = 2
  p = p
  q = q
  Paths = {p, q}
  Names <- MCNames
  Templates <- MCTemplates
  Ages = {2, 5}
  MaxInterval = 2
  MaxFiles = 2
  MaxTime = 9
INVARIANTS
  NothingLost
  FilesAreFinished
  ParametersOfInit
  CleanedInTime
PROPERTY
  KeptLongEnough
CHECK_DEADLOCK FALSE
