SPECIFICATION FairSpec
CONSTANTS
    Threads = {t1, t2, t3}
    Nobody = Nobody
    MaxMin = 3
INVARIANT
    LimiterInv
PROPERTIES
    GrantsSpaced
    LockReleased
