SPECIFICATION Spec
SYMMETRY Symmetry
CONSTANTS
    open_ = open_  read_ = read_
    Thread = {t1, t2}
    Name = {open_, read_}
    Site <- Sites
    Wrappers <- SomeWrappers
    Limit = 3
    MaxCalls = 5
    MaxFindings = 1
INVARIANTS
    WindowStartsInCall
    WindowEndsWithCall
PROPERTIES
    StoryIsFinal
\* The log is full.
CHECK_DEADLOCK FALSE
