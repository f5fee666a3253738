CONSTANTS
  MaxAddr = 2
  Strings = {}
  NumSlots = 1
  PageSize = 1
  MaxCountdown = 1
  StackSize = 2
  MaxRoots = 0
SPECIFICATION FairSpec
PROPERTIES
  ShutdownCompletes
  GarbageIsReclaimed
  CycleCompletes
  Promised
