\* A failed statement leaves a transaction that later ones silently join.
SPECIFICATION Spec
SYMMETRY PageSymmetry
CONSTANTS
  Page = {p, q}
  MaxRows = 2
INVARIANT
  AutoCommitsAfterFailure
