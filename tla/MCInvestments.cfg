\* Two investors and two requests at once for the two slots of a property; the debit is
\* made in the transaction, or on another connection and then only once that is lost.
SPECIFICATION Spec
CONSTANTS
    Requests = {r1, r2}
    NoRequest = NoRequest
    Users = {u1, u2}
    Properties = {p1}
    Keys = {k1}
    NoKey = NoKey
    Slots <- MCSlots
    Units = 2
    Price = 1
    Minimum = 1
    MaxMain = 2
    MaxLost = 1
    DebitWays = {"inside", "outside"}
INVARIANTS
    TypeOK
    FundingAgrees
PROPERTIES
    ContractSpec
SYMMETRY RequestSymmetry
