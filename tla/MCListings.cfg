\* Two administrators and the investors; one act on a stale read.
SPECIFICATION Spec
CONSTANTS
    Admins = {a1, a2}
    Images = {i1, i2, i3}
    NoImage = NoImage
    Units <- MCUnits
    MaxOvertaken = 1
SYMMETRY Symmetry
INVARIANTS
    TypeOK
    CoverAgrees
    VisibleWasAnnounced
PROPERTIES
    ContractSpec
CHECK_DEADLOCK FALSE
