SPECIFICATION FairSpec
CONSTANTS
    MaxItems = 3
    MaxSoft = 1
    MaxRestaurants = 2
    Topics = {t1, t2}
    NoTopic = NoTopic
    NoDetails = NoDetails
    Unrestored = Unrestored
INVARIANTS
    TypeOK
    EveryItemListed
    MembersWereSeen
    RestoredToItsOwner
    OverlapWithinAnswer
    ReanalysisReplaces
PROPERTY KeepsPromise
