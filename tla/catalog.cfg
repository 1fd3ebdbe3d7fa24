SPECIFICATION CatalogSpec
CONSTANTS
    A = A
    B = B
    Tables = {A, B}
    NViews = 4
    Rels <- JoinsAndSingle
    CalmDdl = TRUE
    CalmRefresh = TRUE
    MaxFaults = 1
    MaxRefreshes = 2
INVARIANTS CatalogTypeOK RefsAreUsers NeededIsPublished NoOrphans DdlSafe
CHECK_DEADLOCK FALSE
