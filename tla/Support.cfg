SPECIFICATION Spec
SYMMETRY SupportSymmetry
CONSTANTS
    Text = {f, g}
    Line = {l1, l2}
    Null = Null
    SizeMax = 15
    FirstCapacity = 1
    SiteSize = 3
    FindingSize = 5
    Outcomes = {TRUE, FALSE}
INVARIANTS
    RoomIsReal
    SitesAreDistinct
    FindingsKeepTheirSite
\* The report is over once an error is set.
CHECK_DEADLOCK FALSE
