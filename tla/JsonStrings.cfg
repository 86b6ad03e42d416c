SPECIFICATION StringsSpec
CONSTANTS
    Byte = {1, 9, 10, 13, 31, 34, 44, 48, 92, 110, 117, 127, 128, 195, 255}
    ControlLimit = 32
    NonAsciiLimit = 128
    MaxText = 4
INVARIANTS
    StringsReadBack
\* The text has its full length.
CHECK_DEADLOCK FALSE
