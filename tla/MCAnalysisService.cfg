SPECIFICATION FairSpec
CONSTANTS
    Sources = 0
    MaxRetries = 2
    MaxRestaurants = 2
    Topics = {}
    NoTopic = NoTopic
    NoDetails = NoDetails
    NoAnswer = NoAnswer
    Neighborhoods = {n1}
    NoNeighborhood = NoNeighborhood
    OtherGroup = OtherGroup
INVARIANTS
    TypeOK
    RetryBudget
    OnlyProvidersRaise
    TrustedIsVerified
PROPERTY
    KeepsContract
