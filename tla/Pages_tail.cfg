SPECIFICATION Spec
CONSTANTS
    Post = {1, 2, 3}
    None = none
    DayOf <- ThreeDays
    RootOf <- TwoFamilies
    SmallSort = 2
    HeadCap = 2
    Score = {1, 2}
    Favorites <- SomeFavorites
    Ask <- TagByScore
    Again <- TagByScore
    Absorbed = {1}
    MayFail = FALSE
    MaxAbsorbs = 0
    MaxToggles = 1
INVARIANT ExhaustedIsProof
CHECK_DEADLOCK FALSE
