CONSTANTS
  Escape = 2
  ByteSize = 3
  Levels = {4, 7, 10, 11}
  Signatures <- MCSignatures
  Contents <- MCContents
  MessageLists <- MCMessageLists
  FewMessages = 1
  MaxCalls = 2
  PasswordLevels = {1, 2, 3, 4}
  ServerLevels = {4, 5}
  MaxTries = 2
  Statements <- MCStatements
  CellValues = {1, 2}
  MaxRows = 2
  MaxRuns = 2
SPECIFICATION Spec
INVARIANTS RemoteTypeOK ProgramSees MessagesTrue ResultTrue SignonTrue BoundTrue RowsTrue
PROPERTIES OutputsTrue
CHECK_DEADLOCK FALSE
