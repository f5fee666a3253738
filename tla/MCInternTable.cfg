SPECIFICATION Spec
CONSTANTS
  Addr = {a1, a2, a3}
  Text = {t1, t2}
  None = None
SYMMETRY Symmetry
INVARIANTS KeysAreStrings KeyIsInterned
