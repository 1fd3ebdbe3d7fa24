SPECIFICATION StreamSpec
CONSTANTS
    A = A
    B = B
    NoTable = NoTable
    Tables = {A, B}
    NViews = 2
    Rels <- SingleAndJoin
    Flaky = {1}
    MaxFailures = 2
    MaxLag = 4
    CalmLag = TRUE
    MaxWrites = 1
    MaxFaults = 1
    MaxCrashes = 1
    MaxRefreshes = 1
    MaxWaits = 0
INVARIANTS StreamTypeOK SlotPlaced NothingSkipped ShadowsKeepUp
