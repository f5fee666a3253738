CONSTANTS
  LogLarge = 3
  LargeBins = 2
  This = 16
  StateSize = 1
  InitialSize = 16
  Granularity = 16
  MaxChunk = 45
  Bases = {32, 48}
  Requests = {2, 5, 9}
  MaxGiven = 3
SPECIFICATION Spec
INVARIANT ChunksCoverSegments
INVARIANT BinsHaveFreeChunks
INVARIANT SearchesFindBestFit
PROPERTY ImplementsMemoryMap
