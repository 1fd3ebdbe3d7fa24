SPECIFICATION Spec
CONSTANTS
    Tables <- TwoTables
    Keys <- MCKeys
    Vals <- MCVals
    NoRow = NoRow
    NViews = 2
    Rels <- JoinRels
    GroupTab <- JoinTab
    Shape <- JoinShape
    Poison <- JoinPoison
    MaxFailures = 3
    Flaky = {1, 2}
    Truncates = FALSE
    CalmRefresh = FALSE
    MaxLsn = 3
    MaxTxChanges = 1
    MaxFaults = 0
    MaxShadowFaults = 0
    MaxCrashes = 0
    MaxRefreshes = 0
INVARIANTS
    ViewIsSnapshot
