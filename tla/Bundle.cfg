SPECIFICATION Spec
CONSTANTS
    Outcomes = {TRUE, FALSE}
    Leaf <- Names
    Prefixes <- Directories
    PathMax = 4096
INVARIANTS
    BundleIsWhole
    EachReportToItsFile
    DescriptorsAreReturned
    NoStrayPath
\* The program exits.
CHECK_DEADLOCK FALSE
