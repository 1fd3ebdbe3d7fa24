SPECIFICATION Spec
CONSTANTS
    Tables <- OneTable
    Keys <- MCKeys
    Vals <- MCVals
    NoRow = NoRow
    NViews = 2
    Rels <- SingleRels
    GroupTab <- SingleTab
    Shape <- SingleShape
    Poison <- SinglePoison
    MaxFailures = 2
    Flaky = {1}
    Truncates = TRUE
    CalmRefresh = FALSE
    MaxLsn = 3
    MaxTxChanges = 1
    MaxFaults = 1
    MaxShadowFaults = 0
    MaxCrashes = 1
    MaxRefreshes = 1
INVARIANTS
    ViewIsSnapshot
    NoLoss
    SlotInv
PROPERTIES
    ContentMovesWithFrontier
    HealthyViewsAbsorbPeek
