CONSTANTS
  k1 = k1
  k2 = k2
  Zero = Zero
  a = a
  b = b
  Key = {Zero, k1, k2}
  NoKey = NoKey
  NegZero = NegZero
  Val = {a, b}
  NoVal = NoVal
  MinSize = 4
  LoadShare = 3
  HashValue = {0, 1, 6}
  Capacities = {0, 4}
CHECK_DEADLOCK FALSE
SPECIFICATION Spec
SYMMETRY KeySymmetry
INVARIANTS
  LoopVisitsEachOnce
PROPERTIES
  ImplementsMap
