SPECIFICATION Spec
CONSTRAINT Unspoilt
CONSTANTS
  MaxPages = 4
  MaxLeaves = 1
INVARIANTS
  TypeOK
  FreelistSound
  ListIsDurable
  CrashOnlyLeaks
