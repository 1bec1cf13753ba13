\* Every kind of field but those of ValuesLost.
CONSTANTS
    Kinds = {"packed", "zoned", "integer", "char", "graphic", "varchar", "vargraphic", "clob", "dbclob"}
    Digits = {0, 1, 9}
    MaxDigits = 2
    MaxPrecision = 3
    ByteBits = 2
    MaxLength = 4
    ClockDigits = 3
SPECIFICATION Spec
INVARIANTS
    Lossless
    RejectsOnlyLoss
    ReadsExact
    FillsField
\* A value is converted once.
CHECK_DEADLOCK FALSE
