\* One saved filter beside the seed, one favorite; every order of moves, writes,
\* crashes and losses of power over any number of launches.
SPECIFICATION Spec
CONSTANTS
    None = None
    Filter = {seed, mine}
    Seed = seed
    Post = {p1}
    Installations <- ShippedInstallations
    MaxLaunches = 3
    MaxIntrusions = 1
    MaxActs = 2
INVARIANTS AdoptionWhole FiltersSurvive FavoritesDurable PolicyIsUsers
PROPERTY LoadsWhatWasKept
CHECK_DEADLOCK FALSE
