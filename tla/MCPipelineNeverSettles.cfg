\* The schema of the migrations, and nothing fails.
SPECIFICATION FairPipelineSpec
CONSTANTS
    consumer = consumer
    reconciler = reconciler
    w1 = w1
    t1 = t1
    t2 = t2
    Consumer = consumer
    Reconciler = reconciler
    Webhooks = {w1}
    Finalizers <- MCFinalizers
    Users = {u1}
    Ids = {t1, t2}
    Requesters = {r1}
    Amounts <- MCAmounts
    MinWithdrawalAmount = 1
    MaxWithdrawalAmount = 1
    LedgerHasUpdatedAt = FALSE
    MaxMain = 1
    MaxCopies = 1
    MaxFaults = 0
    TransfersReverse = FALSE
PROPERTIES
    TransferIsSettled
CHECK_DEADLOCK FALSE
