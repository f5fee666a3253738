SPECIFICATION Spec
CONSTANTS
  k1 = k1
  k2 = k2
  Key = {k1, k2}
  Value = {v1}
  Null = Null
  InitialSlots = 1
  SlowGrowth = 16
  KeySlots <- NoneOrAll
  MaxVslots = 3
  MaxLookups = 2
  Cached = {k1}
  MaxCookie = 3
INVARIANTS SelectorsAgree SameKeysShareLayout
PROPERTY ImplementsPrototypes
CHECK_DEADLOCK FALSE
