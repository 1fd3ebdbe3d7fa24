SPECIFICATION SchemaSpec
CONSTANTS
    K = K
    A = A
    B = B
    Int = Int
    Real = Real
    Columns = {K, A, B}
    Types = {Int, Real}
    Key = K
    FirstSchema <- KeyBA
    NViews = 3
    Joins = {1, 2}
    Uses <- TwoJoinsAndSingle
    Assignable <- BothWays
    Calm = {"peek", "reuse", "group", "shadow"}
    MaxLsn = 2
    MaxDdl = 2
    MaxRefreshes = 1
INVARIANTS SchemaTypeOK ReadsItsColumns HeldByShadow DriftSafe
PROPERTIES OnlyUsersGoStale ResolvingRebuilds
CHECK_DEADLOCK FALSE
