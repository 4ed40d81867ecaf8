CONSTANTS
    c1 = c1
    c2 = c2
    l1 = l1
    a = a
    b = b
    Callers = {c1}
    Listeners = {l1}
    Topics = {a, b}
    Filters = {{a}, {a, b}}
    Malformed = Malformed
    NoTask = NoTask
    MaxRegs = 2
    MaxSent = 2
    Faults = TRUE
    Cancellation = FALSE
SPECIFICATION Spec
CHECK_DEADLOCK FALSE
PROPERTIES
    TakenIsDelivered
