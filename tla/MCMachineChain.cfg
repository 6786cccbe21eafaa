CONSTANTS
  NULL = NULL
  Columns <- MCColumns
  Key <- MCKey
  Alias <- MCAlias
  NotNull <- MCNotNull
  ForeignKeys <- MCForeignKeys
  Statements <- MCStatements
  Starts <- MCStarts
  Programs <- Compiled
  Promises <- Promised
SPECIFICATION Spec
PROPERTY ConjunctionEnds
CHECK_DEADLOCK FALSE
