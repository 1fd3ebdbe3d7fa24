SPECIFICATION Spec
CONSTANTS
    Tables <- TwoTables
    Keys <- MCKeys
    Vals <- MCVals
    NoRow = NoRow
    NViews = 2
    Rels <- SharedRels
    GroupTab <- SharedTab
    Shape <- SharedShape
    Poison <- NoPoison
    MaxFailures = 1
    Flaky = {1, 2}
    Truncates = FALSE
    CalmRefresh = TRUE
    MaxLsn = 2
    MaxTxChanges = 2
    MaxFaults = 0
    MaxShadowFaults = 0
    MaxCrashes = 1
    MaxRefreshes = 1
INVARIANTS
    ShadowIsSnapshot
    ViewIsSnapshot
