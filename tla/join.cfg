SPECIFICATION Spec
CONSTANTS
    Tables <- TwoTables
    Keys <- MCKeys
    Vals <- MCVals
    NoRow = NoRow
    NViews = 2
    Rels <- JoinRels
    GroupTab <- JoinTab
    Shape <- JoinShape
    Poison <- JoinPoison
    MaxFailures = 1
    Flaky = {1, 2}
    Truncates = FALSE
    CalmRefresh = FALSE
    MaxLsn = 3
    MaxTxChanges = 1
    MaxFaults = 0
    MaxShadowFaults = 1
    MaxCrashes = 1
    MaxRefreshes = 1
INVARIANTS
    TypeOK
    NoShadowLoss
    FailedShadowHasNoLiveView
    ContentInv
PROPERTIES
    ImplementsDeferredView
