\* One user, two withdrawals, any single fault and reversals.
SPECIFICATION PipelineSpec
CONSTANTS
    consumer = consumer
    reconciler = reconciler
    w1 = w1
    t1 = t1
    t2 = t2
    Consumer = consumer
    Reconciler = reconciler
    Webhooks = {w1}
    Finalizers <- MCFinalizers
    Users = {u1}
    Ids = {t1, t2}
    Requesters = {r1}
    Amounts <- MCAmounts
    MinWithdrawalAmount = 1
    MaxWithdrawalAmount = 1
    LedgerHasUpdatedAt = TRUE
    MaxMain = 1
    MaxCopies = 1
    MaxFaults = 1
    TransfersReverse = TRUE
INVARIANTS
    PipelineTypeOK
    LedgerAgreesWithBank
    LockedCoveredByPending
PROPERTIES
    TransferIsReserved
    SecondSettlementNeedsAnother
CONSTRAINT InOrder
CHECK_DEADLOCK FALSE
