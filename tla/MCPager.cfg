SPECIFICATION Spec
SYMMETRY DataSymmetry
CONSTANTS
  NumPages = 2
  Data = {a, b}
  NoImage = NoImage
  MaxCounter = 2
  MaxJournal = 1
INVARIANTS
  TypeOK
  JournalCovers
  CacheCoherent
PROPERTIES
  RollbackRestores
  CommitDurable
  CounterNeverDecreases
  ImplementsPageStore
