CONSTANTS
  NULL = NULL
  Columns <- MCColumns
  Key <- MCKey
  Alias <- MCAlias
  NotNull <- MCNotNull
  ForeignKeys <- MCForeignKeys
  Statements <- MCStatements
  Starts <- MCStarts
  Programs <- Compiled
  Promises <- Promised
SPECIFICATION Spec
INVARIANTS TypeOK RowidsUnique AnswerRight TableRight KeysHold
PROPERTY Completes
\* A statement ends, and the system stops.
CHECK_DEADLOCK FALSE
