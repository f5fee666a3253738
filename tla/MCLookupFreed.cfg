SPECIFICATION Spec
CONSTANTS
  k1 = k1
  k2 = k2
  Key = {k1, k2}
  Value = {v1}
  Null = Null
  InitialSlots = 2
  SlowGrowth = 16
  KeySlots <- NoneOrAll
  MaxVslots = 2
  MaxLookups = 2
  Cached = {}
  MaxCookie = 3
INVARIANT LayoutsStay
CHECK_DEADLOCK FALSE
