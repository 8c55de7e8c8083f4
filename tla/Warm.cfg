SPECIFICATION Spec
CONSTANTS
    Query = {all, some}
    Empty = all
    Sort = {newest, score}
    Newest = newest
    Post = {p1}
    AutoWarmPages = 2
    PageLimit = 3
    CommandCapacity = 1
    EventCapacity = 1
    LastPage = 1
    MaxFaults = 1
    MaxActs = 3
INVARIANTS WarmLeavesNoGap WarmIsCarried
PROPERTY WarmReachesTheEnd
CHECK_DEADLOCK FALSE
