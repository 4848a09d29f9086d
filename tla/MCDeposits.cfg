\* One payment handled by two webhook requests at once, with failures and retries.
SPECIFICATION FairSpec
CONSTANTS
    Users = {u1}
    Payments = {p1}
    Handlers = {h1, h2}
    Amounts <- MCAmounts
    MinDepositAmount = 2
    MaxDepositAmount = 2
    MockProvider = FALSE
INVARIANTS
    TypeOK
    SuccessIsCredited
PROPERTIES
    ContractSpec
    PaidIsCredited
