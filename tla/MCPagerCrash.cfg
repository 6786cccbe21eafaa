\* A crash in a transaction is not undone: the journal is never hot.
SPECIFICATION Spec
CONSTANTS
  NumPages = 2
  Data = {a, b}
  NoImage = NoImage
  MaxCounter = 2
  MaxJournal = 1
INVARIANT
  CrashRecovers
