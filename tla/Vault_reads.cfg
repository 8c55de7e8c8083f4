CONSTANTS
    Post = {1}
    Key = {k}
    Sort = {score}
    Rank = {0}
    None = None
    MergeBatches = 2
    AnchorGap = 1
    MaxSeq = 2
    MaxSessions = 0
    MayFail = FALSE
    VaultCap = 1
SPECIFICATION VaultSpec
INVARIANT ReadsStayExact
