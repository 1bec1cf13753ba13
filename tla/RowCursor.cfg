\* Two runs of up to four rows in blocks of one or two.
CONSTANTS
    MaxRuns = 2
    MaxRows = 4
    BlockSize = 4
    RowLengths = {0, 2, 5}
    MaxFactor = 3
SPECIFICATION Spec
INVARIANTS
    TypeOK
    FetchesOwn
    OneFetchPerNext
PROPERTIES
    Streams
\* After the last run the Stmt may stay closed on a broken connection.
CHECK_DEADLOCK FALSE
