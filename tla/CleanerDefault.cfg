SPECIFICATION Spec
CONSTANTS
  Tracks = {v, a}
  Video = {v}
  AC3 = {c}
  PartDuration = 1
  SegmentDuration = 3
  Gaps = {1, 2}
  BufferSize = 2
  MaxSamples = 1
  MaxSamplesTS = 1
  MaxVersion = 2
  p = p
  q = q
  Paths = {p, q}
  Names <- FlatNames
  Templates <- DefaultTemplates
  Ages = {2, 5}
  MaxInterval = 2
  MaxFiles = 2
  MaxTime = 9
INVARIANT
  ExpiredAreRemoved
CHECK_DEADLOCK FALSE
