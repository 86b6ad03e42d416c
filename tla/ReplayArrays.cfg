SPECIFICATION TopicSpec
CONSTANTS
    p = p  q = q  c = c  d = d  t = t  s = s  a = a  b = b
    Null = Null
    Nil = Null
    Pid = {p, q}
    Fd = {c, d}
    Ptr = {a, b}
    Target = {t}
    Site = {s}
    Inputs <- AllInputs
    Outcomes = {TRUE, FALSE}
    Granted = {0, 1, 2}
    MaxRecords = 5
    MaxReported = 1
PROPERTIES
    RefinesReplay
    FindingsAreAStack
\* The replay is over once the stream has ended or an error is set.
CHECK_DEADLOCK FALSE
