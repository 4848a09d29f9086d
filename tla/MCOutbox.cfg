\* Two dispatchers that crash, stall and lose updates; one event has no queue.
SPECIFICATION FairSpec
CONSTANTS
    NumEvents = 2
    Unmapped = {2}
    Dispatchers = {d1, d2}
    BatchSize = 2
    MaxRetries = 2
    MaxFaults = 3
INVARIANTS
    TypeOK
    GivenUpAfterRetries
    HolderOwnsClaim
PROPERTIES
    ContractSpec
    PublishedIsFinal
    Settled
CHECK_DEADLOCK FALSE
