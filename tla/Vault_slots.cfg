CONSTANTS
    Post = {1}
    Key = {k, l}
    Sort = {}
    Rank = {0}
    None = None
    MergeBatches = 1
    AnchorGap = 1
    MaxSeq = 2
    MaxSessions = 1
    MayFail = TRUE
    VaultCap = 1
SPECIFICATION VaultSpec
INVARIANTS SlotsFreshUnlessOvertaken SearchesExactUnlessOvertaken VaultWithinCap
CONSTRAINT Untimed
SYMMETRY KeySymmetry
