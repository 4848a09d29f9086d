\* Two requests at once, two phones, one asked for, four codes, two of them in an hour.
SPECIFICATION Spec
CONSTANTS
    Requests = {r1, r2}
    Phones = {old, new}
    Targets = {new}
    MaxCodes = 4
    MaxRecent = 2
    MaxAttempts = 2
CONSTRAINTS
    InOrder
    OneContested
SYMMETRY RequestSymmetry
INVARIANTS
    TypeOK
    GuessesBounded
    UsedOnce
    RequestsBounded
