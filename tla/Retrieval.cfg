CONSTANTS
    View = {a, b, f}
    Favorites = f
    None = None
    CacheCap = 2
    EventCap = 2
    Gap = 2
    Depth = 1
    MaxLevel = 1
    MaxSerial = 3
    MaxFavs = 1
    MaxStock = 1
    LaneMayFill = TRUE
    SearchMayFail = TRUE
SPECIFICATION FairSpec
INVARIANTS TypeOK ParkedIsCurrent FiledUnderItsKey OneSearchUnderway QuietIsSettled
PROPERTY Settles
CHECK_DEADLOCK FALSE
