\* No queue: mismatches are dropped.  The pool is too small, LoLa may fail.
CONSTANTS
    r1 = r1
    r2 = r2
    a = a
    b = b
    Receivers = {r1, r2}
    Topics = {a, b}
    Malformed = Malformed
    NoSample = NoSample
    Policy = "DropOldestAndReport"
    Capacity = 0
    MaxSamples = 2
    MaxLeases = 3
    MaxSent = 3
    CounterMax = 1
    ProxyFaults = TRUE
SPECIFICATION Spec
SYMMETRY Symmetry
PROPERTIES
    ExhaustionHasCause
