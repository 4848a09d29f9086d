\* Two requests and one for the status at once, two attempts per window of three ticks,
\* two ticks a second, either limiter.
SPECIFICATION Spec
CONSTANTS
    Requests = {r1, r2}
    Entries = {e1, e2, e3, e4}
    None = None
    Limit = 2
    Window = 3
    Second = 2
    MaxTime = 8
SYMMETRY Symmetry
INVARIANTS
    TypeOK
    WithinLimit
    StatusTruthful
    RetryWorks
