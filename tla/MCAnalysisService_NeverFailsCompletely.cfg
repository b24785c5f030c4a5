SPECIFICATION Spec
CONSTANTS
    Sources = 0
    MaxRetries = 2
    MaxRestaurants = 1
    Topics = {}
    NoTopic = NoTopic
    NoDetails = NoDetails
    NoAnswer = NoAnswer
    Neighborhoods = {n1}
    NoNeighborhood = NoNeighborhood
    OtherGroup = OtherGroup
INVARIANT NeverFailsCompletely
