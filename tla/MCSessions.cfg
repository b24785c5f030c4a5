SPECIFICATION Spec
CONSTANTS
    s1 = s1
    s2 = s2
    Instances = {i1, i2}
    Secrets = {s1, s2}
    NoSecret = NoSecret
    Settings <- MCSettings
    NoToken = NoToken
    AccessTTL = 3
    RefreshTTL = 4
    Skew = 1
    MaxTime = 8
    MaxTokens = 4
SYMMETRY Symmetry
INVARIANTS
    TypeOK
    SessionEnds
    NoEarlyRefusal
