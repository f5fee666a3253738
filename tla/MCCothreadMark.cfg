SPECIFICATION FairSpec
CONSTANTS
  Cothreads = {c1, c2}
  Objects = {o1}
  Null = Null
  NumRefs = 1
  MaxHeld = 1
  MaxPushed = 0
INVARIANT DueIsMarked
PROPERTY MarkingEnds
