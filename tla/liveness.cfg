SPECIFICATION FairSpec
CONSTANTS
    Tables <- TwoTables
    Keys <- MCKeys
    Vals <- MCVals
    NoRow = NoRow
    NViews = 2
    Rels <- JoinRels
    GroupTab <- JoinTab
    Shape <- JoinShape
    Poison <- JoinPoison
    MaxFailures = 2
    Flaky = {1}
    Truncates = FALSE
    CalmRefresh = FALSE
    MaxLsn = 2
    MaxTxChanges = 1
    MaxFaults = 1
    MaxShadowFaults = 0
    MaxCrashes = 1
    MaxRefreshes = 1
PROPERTIES
    CatchesUp
    PendingIsServed
