SPECIFICATION FairSubSpec
CONSTANTS
    Ids <- OneId
    Rows <- MCRows
    NoRow = NoRow
    ShownRow <- MCShown
    Retain = 2
    MaxTxs = 2
    MaxWrites = 2
    MaxRefreshes = 1
    MaxLosses = 1
    Batch = 1
INVARIANTS
    SubTypeOK
    ServesWholeTransactions
    DeltasAreNetEffect
    SubInv
PROPERTIES
    ImplementsFollowedView
    CopyCatchesUp
