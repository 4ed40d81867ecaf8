\* One queue for a receiving task and the listener task; two calls of the owned
\* transport race; capacity 0: no mismatch is retained.
CONSTANTS
    r1 = r1
    c1 = c1
    c2 = c2
    o1 = o1
    a = a
    b = b
    Receivers = {r1}
    Callers = {c1, c2}
    Owned = {o1}
    Topics = {a, b}
    Filters = {{a}}
    Malformed = Malformed
    NoSample = NoSample
    NoTask = NoTask
    NoCall = NoCall
    Capacity = 0
    Policy = "DropOldestAndReport"
    MaxLeases = 1
    MaxRegs = 2
    MaxSent = 2
    CounterMax = 1
    Faults = TRUE
    Cancellation = TRUE
SPECIFICATION FairSpec
CHECK_DEADLOCK FALSE
INVARIANTS
    TypeOK
    SampleHasOneTaker
    DiagnosticsAreExact
    PushIsExact
    RecordsMatchRegistry
PROPERTIES
    PendingDrains
    KeepsContract
