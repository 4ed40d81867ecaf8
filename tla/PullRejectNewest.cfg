\* Two tasks receive under RejectNewestAndReport.
CONSTANTS
    r1 = r1
    r2 = r2
    a = a
    b = b
    Receivers = {r1, r2}
    Topics = {a, b}
    Malformed = Malformed
    NoSample = NoSample
    Policy = "RejectNewestAndReport"
    Capacity = 1
    MaxSamples = 2
    MaxLeases = 2
    MaxSent = 2
    CounterMax = 1
    ProxyFaults = FALSE
SPECIFICATION FairSpec
PROPERTIES
    CallsEnd
    PolledTopicIsDrained
    ImplementsContract
