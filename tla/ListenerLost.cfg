CONSTANTS
    c1 = c1
    c2 = c2
    l1 = l1
    a = a
    b = b
    Callers = {c1, c2}
    Listeners = {l1}
    Topics = {a, b}
    Filters = {{a}}
    Malformed = Malformed
    NoTask = NoTask
    MaxRegs = 2
    MaxSent = 1
    Faults = FALSE
    Cancellation = FALSE
SPECIFICATION FairSpec
CHECK_DEADLOCK FALSE
PROPERTIES
    RegisteredReceives
