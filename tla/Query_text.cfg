SPECIFICATION Spec
CONSTANTS
    Terms <- OddTerms
    Name = {n1}
    Scratch = scratch
    LocalFavorites = favorites
    MaxWeight = 4
    MaxKept = 4
    MaxGroupDepth = 1
INVARIANT FiltersComeBack
CHECK_DEADLOCK FALSE
