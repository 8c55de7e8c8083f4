CONSTANTS
    Post = {1, 2}
    None = None
    Quantum = 2
    MaxGen = 2
    MaxSessions = 2
    MayLosePower = TRUE
    MayFail = TRUE
SPECIFICATION Spec
INVARIANTS TypeOK ProjectionUnlessTorn EdgesBothWays GenerationNamesEdges KinCrawlLeavesNoGap
CHECK_DEADLOCK FALSE
