SPECIFICATION Spec
CONSTANTS
    Kinds = {"ALLOC", "FREE", "REALLOC", "EXEC", "EXEC_FAIL", "GENERIC"}
    MaxRecords = 3
    MaxFindings = 1
INVARIANTS
    OneOwner
    NothingIsForgotten
\* The model has been freed.
CHECK_DEADLOCK FALSE
