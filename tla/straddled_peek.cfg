SPECIFICATION SchemaSpec
CONSTANTS
    K = K
    A = A
    B = B
    Int = Int
    Real = Real
    Columns = {K, A, B}
    Types = {Int, Real}
    Key = K
    FirstSchema <- KeyBA
    NViews = 1
    Joins = {}
    Uses <- Single
    Assignable <- BothWays
    Calm = {"reuse", "group", "shadow"}
    MaxLsn = 2
    MaxDdl = 1
    MaxRefreshes = 0
INVARIANT ReadsItsColumns
CHECK_DEADLOCK FALSE
