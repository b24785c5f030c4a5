SPECIFICATION FairSpec
CONSTANTS
    Requests = {r1, r2}
    Checks = {h1, h2}
    None = None
    NumImages = 2
    PoolSize = 2
INVARIANTS
    TypeOK
    OneOcrAtATime
    EveryWaiterQueued
    PoolKeepsBusy
    ItemsMatchImages
PROPERTIES
    RequestsAnswered
    ChecksAnswered
\* That no actor is stuck for ever is what the two temporal properties say; a deadlock
\* would only hide which of them fails.
CHECK_DEADLOCK FALSE
