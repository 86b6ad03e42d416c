SPECIFICATION TopicSpec
CONSTANTS
    p = p  q = q  d = d  t = t  u = u  s = s  a = a  b = b
    heap = heap  lock = lock  x = x  y = y
    Null = Null
    Nil = Null
    Pid = {p, q}
    Fd = {d}
    Ptr = {a, b}
    Target = {t, u}
    Site <- Sites
    Class = {heap, lock}
    Id = {x, y}
    Writes <- SiteWrites
    Inputs <- AllInputs
    TextLimit = 2
    Outcomes = {TRUE, FALSE}
    MaxRecords = 6
    MaxReported = 1
INVARIANTS
    TypeOK
    PendingIsOpenAttempt
    OpenDescriptorsAreHeld
    InheritFindingsAreBacked
    InheritanceIsReported
    FdsComeFromLog
    ForkNeverRevives
    AllocsMatchLog
    DescriptorsAgree
    BlocksAgree
    RenderingsAgree
PROPERTIES
    FinalOnceProcessMovesOn
\* The replay is over once the stream has ended or an error is set.
CHECK_DEADLOCK FALSE
