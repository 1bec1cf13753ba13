\* A time.Time for a TIMESTAMP, and bytes for a VARGRAPHIC of CCSID 65535.
CONSTANTS
    Kinds = {"timestamp", "vargraphicBinary"}
    Digits = {0, 1, 9}
    MaxDigits = 2
    MaxPrecision = 3
    ByteBits = 2
    MaxLength = 4
    ClockDigits = 3
SPECIFICATION Spec
INVARIANTS
    Lossless
CHECK_DEADLOCK FALSE
