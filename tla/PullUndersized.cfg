\* A queue capacity that reaches max_samples, as the defaults allow.
CONSTANTS
    r1 = r1
    r2 = r2
    a = a
    b = b
    Receivers = {r1}
    Topics = {a, b}
    Malformed = Malformed
    NoSample = NoSample
    Policy = "DropOldestAndReport"
    Capacity = 2
    MaxSamples = 2
    MaxLeases = 1
    MaxSent = 3
    CounterMax = 1
    ProxyFaults = FALSE
SPECIFICATION Spec
PROPERTIES
    FullQueueIsNonErroring
