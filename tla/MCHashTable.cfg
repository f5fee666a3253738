CONSTANTS
  k1 = k1
  k2 = k2
  k3 = k3
  k4 = k4
  Key = {k1, k2, k3, k4}
  NoKey = NoKey
  Val = {a, b}
  a = a
  b = b
  NoVal = NoVal
  MinSize = 5
  LoadShare = 4
  HashValue = {0, 1, 3, 8}
SPECIFICATION Spec
SYMMETRY KeySymmetry
INVARIANTS
  LookupFinds
  RoomToInsert
  IterationSkipsNothing
PROPERTIES
  ImplementsMap
