CONSTANTS
  MaxAddr = 3
  Strings = {3}
  NumSlots = 1
  PageSize = 2
  MaxCountdown = 1
  StackSize = 2
  MaxRoots = 1
SPECIFICATION Spec
INVARIANTS
  NoReachableReclaimed
  HandshakeAsserts
  SweepMeetsNoGrey
  HeapExclusion
  NoDoublePush
  EpochHasOneColor
  IInv
