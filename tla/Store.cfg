\* One post through every row, lane and crash; two rows to merge, a transaction
\* that may fail at each step, and the merge loop, which never gives up.
CONSTANTS
    Post = {1}
    Key = {k}
    Sort = {score}
    Rank = {0, 1}
    None = None
    MergeBatches = 2
    AnchorGap = 1
    MaxSeq = 2
    MaxSessions = 1
    MayFail = TRUE
SPECIFICATION FairSpec
INVARIANTS TypeOK LanesExact PostingsExact CrawlLeavesNoGap
PROPERTIES ImplementsCatalogue PendingDrains
CHECK_DEADLOCK FALSE
