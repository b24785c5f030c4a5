SPECIFICATION Spec
CONSTANTS
    Sources = 0
    MaxRetries = 0
    MaxRestaurants = 2
    Topics = {}
    NoTopic = NoTopic
    NoDetails = NoDetails
    NoAnswer = NoAnswer
    Neighborhoods = {n1}
    NoNeighborhood = NoNeighborhood
    OtherGroup = OtherGroup
INVARIANT SameNeighborhoodSameGroup
