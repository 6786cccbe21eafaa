SPECIFICATION Spec
SYMMETRY PageSymmetry
CONSTANTS
  Page = {p, q}
  MaxRows = 2
INVARIANTS
  KeepsAcknowledged
  UndoesRolledBack
  OneTransaction
  StateAgrees
