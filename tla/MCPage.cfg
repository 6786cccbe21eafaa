SPECIFICATION Spec
CONSTANTS
  Cells <- MCCells
  PageSize = 15
  HeaderSize = 4
  MinBlock = 2
  Margins = {0, 2}
INVARIANTS
  TypeOK
  NothingOverlaps
  DamageIsReal
PROPERTY
  IsSequenceOfCells
CHECK_DEADLOCK FALSE
