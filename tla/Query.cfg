SPECIFICATION Spec
CONSTANTS
    Terms <- UsualTerms
    Name = {n1, n2}
    Scratch = scratch
    LocalFavorites = favorites
    MaxWeight = 7
    MaxKept = 5
    MaxGroupDepth = 2
INVARIANTS BenchIsSelection TextKeepsMeaning CandidatesExact SeedIsImplied MovesLand
PROPERTY OnlySelectedChanges
CHECK_DEADLOCK FALSE
