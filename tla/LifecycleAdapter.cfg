SPECIFICATION Spec
SYMMETRY Symmetry
CONSTANTS
    Pid = {p, q}
    Context = {c1, c2}
    Class = {mapping}
    Kinds = {"FD_OPEN", "ALLOC", "GENERIC", "EXEC", "SPAWN"}
    Null = Null
    Outcomes = {TRUE, FALSE}
    MaxRecords = 4
    MaxLost = 1
    MaxReported = 2
    MaxTotal = 5
INVARIANTS
    FindingNamesItsRecords
    FindingStaysInItsClass
    AllFindingsOrError
\* The run is over once the findings have been added or an error is set.
CHECK_DEADLOCK FALSE
