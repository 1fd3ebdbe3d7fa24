SPECIFICATION FairStream
CONSTANTS
    A = A
    B = B
    NoTable = NoTable
    Tables = {A}
    NViews = 1
    Rels <- Single
    Flaky = {}
    MaxFailures = 2
    MaxLag = 4
    CalmLag = TRUE
    MaxWrites = 1
    MaxFaults = 0
    MaxCrashes = 1
    MaxRefreshes = 1
    MaxWaits = 1
INVARIANTS WindowPlaced
PROPERTIES WaitIsRight WaitReturns
