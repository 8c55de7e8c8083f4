SPECIFICATION Spec
CONSTANTS
    Post = {1, 2, 3}
    None = none
    DayOf <- ThreeDays
    RootOf <- TwoFamilies
    SmallSort = 2
    HeadCap = 2
    Score = {1, 2}
    Favorites <- SomeFavorites
    Ask <- AnyAsk
    Again <- TagByScore
    Absorbed = {1}
    MayFail = TRUE
    MaxAbsorbs = 1
    MaxToggles = 2
INVARIANTS CachesFreshUnlessOvertaken PagesExact NothingTwice
CHECK_DEADLOCK FALSE
