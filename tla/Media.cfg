SPECIFICATION Spec
CONSTANTS
    Post = {p1, p2}
    None = None
    Fetcher = {f1}
    CommandCapacity = 2
    PendingCapacity = 2
    EventCapacity = 1
    RecentCapacity = 1
    MaxActs = 3
INVARIANTS InflightIsCarried FullIsProtected
PROPERTY EveryImageArrives
CHECK_DEADLOCK FALSE
