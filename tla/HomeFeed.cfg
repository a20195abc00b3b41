SPECIFICATION Spec
CONSTANTS
    Categories <- MCCategories
    Default = "all"
    NoCategory = NoCategory
    MaxPage = 2
    MaxLoads = 2
    MaxTaps = 2
INVARIANTS
    GroupCoversLegs
    CacheIsTrue
    NoPageTwice
    SkeletonExplained
