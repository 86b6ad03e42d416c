SPECIFICATION RunSpec
CONSTANTS
    p = p  q = q  s = s  t = t  u = u
    Null = Null
    Nil = Null
    Pid = {p, q}
    Fd = {3, 4}
    Ptr = {}
    Target = {t, u}
    Site = {s}
    Inputs <- RunInputs
    Outcomes = {TRUE}
    MaxRecords = 6
    MaxReported = 0
    First = p
    Worlds <- ReexecWorld
INVARIANTS
    NoLostReport
\* The log is bounded.
CHECK_DEADLOCK FALSE
