SPECIFICATION Spec
CONSTANTS
    Words = {"-h", "-j", "-b", "-d", "-r", "-c", "-x", "--", "--help", "a", "b", ""}
    Null = Null
    MaxWords = 5
    Outcomes = {TRUE, FALSE}
    MaxLines = 2
    MaxFindings = 1
INVARIANTS
    VerdictOnWholeEvidence
    SequenceIsRank
    PermutingOnlyAdmitsMore
    NamedLogIsRead
PROPERTIES
    Terminates
\* The program exits.
CHECK_DEADLOCK FALSE
