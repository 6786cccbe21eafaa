SPECIFICATION Spec
CONSTANTS
  Base = 20
  PageSize = 48
  Records <- MCRecords
  Rowids <- MCRowids
INVARIANTS
  IntegersReadBack
  RecordsReadBack
  RowsReadBack
  IndexReadsBack
CHECK_DEADLOCK FALSE
