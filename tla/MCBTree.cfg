SPECIFICATION Spec
CONSTANTS
  LastKey = 6
  LeafCapacity = 4
  InteriorCapacity = 2
INVARIANTS
  TypeOK
  SearchTree
  ScanIsTable
  SeekFinds
  LastIsLast
PROPERTY
  ScanMovesOn
CHECK_DEADLOCK FALSE
