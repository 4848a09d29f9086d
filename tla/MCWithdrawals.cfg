\* Two users, two requests at once, two finalizers.
SPECIFICATION Spec
CONSTANTS
    Users = {u1, u2}
    Ids = {t1, t2}
    Requesters = {r1, r2}
    Finalizers = {f1, f2}
    Amounts <- MCAmounts
    MinWithdrawalAmount = 1
    MaxWithdrawalAmount = 2
    LedgerHasUpdatedAt = TRUE
    MaxMain = 2
SYMMETRY HandlerSymmetry
INVARIANTS
    TypeOK
    OnePendingPerUser
    LockedIsPending
PROPERTIES
    ContractSpec
