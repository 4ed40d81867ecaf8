\* Two tasks receive concurrently; the pool covers queue and leases.
CONSTANTS
    r1 = r1
    r2 = r2
    a = a
    b = b
    Receivers = {r1, r2}
    Topics = {a, b}
    Malformed = Malformed
    NoSample = NoSample
    Policy = "DropOldestAndReport"
    Capacity = 2
    MaxSamples = 4
    MaxLeases = 2
    MaxSent = 4
    CounterMax = 1
    ProxyFaults = FALSE
SPECIFICATION Spec
SYMMETRY Symmetry
INVARIANTS
    TypeOK
    EachSampleHasOneFate
    DiagnosticsAreExact
    PoolNeverExhausted
PROPERTIES
    DeliveryMatchesFilter
    RetainedLossIsOldest
    OldestFirst
