\* A page freed when the trunk page is full is handed out twice.
SPECIFICATION Spec
CONSTANTS
  MaxPages = 4
  MaxLeaves = 1
INVARIANT
  FullTrunkKeepsPages
