SPECIFICATION FairSpec
CONSTANT
    Checks = {c1, c2}
INVARIANTS
    TypeOK
    LoadedMeansReady
    RefusalIsHonest
    LateCheckSucceeds
PROPERTIES
    ReadyIsFinal
    ChecksAnswered
