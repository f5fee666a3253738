CONSTANTS
  a = a
  b = b
  NullValue = NullValue
  Value = {a, b, NullValue}
  MinSlots = 2
  SlowGrowth = 2
  MaxSlack = 1
  MaxLength = 5
  MaxValues = 2
SPECIFICATION Spec
INVARIANTS
  NullsUnlessPopped
PROPERTIES
  ImplementsSequence
