\* Two requests at once, four seconds, one change of password.
SPECIFICATION Spec
CONSTANTS
    Requests = {r1, r2}
    None = None
    RefreshTTL = 3
    AccessTTL = 1
    MaxTime = 3
    MaxPassword = 1
SYMMETRY RequestSymmetry
INVARIANTS
    TypeOK
    ClosedIsClosed
PROPERTIES
    RevokedIsFinal
    ContractSpec
