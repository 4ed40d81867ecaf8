CONSTANTS
    c1 = c1
    c2 = c2
    l1 = l1
    a = a
    b = b
    Callers = {c1, c2}
    Listeners = {l1}
    Topics = {a, b}
    Filters = {{a}, {a, b}}
    Malformed = Malformed
    NoTask = NoTask
    MaxRegs = 2
    MaxSent = 2
    Faults = TRUE
    Cancellation = TRUE
SPECIFICATION Spec
SYMMETRY Symmetry
CHECK_DEADLOCK FALSE
INVARIANTS
    TypeOK
    OnlyHandledTaskRuns
    PollIsExclusive
    PushIsExact
PROPERTIES
    KeepsContract
