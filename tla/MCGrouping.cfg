SPECIFICATION FairSpec
CONSTANT
    MaxItems = 5
INVARIANTS
    TypeOK
    ForestIsExact
    GroupsAreComponents
PROPERTY
    GroupingEnds
