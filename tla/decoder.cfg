SPECIFICATION Spec
CONSTANTS
    S = S
    T = T
    K = K
    Int = Int
    Real = Real
    Tables = {S, T}
    Names = {K}
    Types = {Int, Real}
    Definitions <- Lists
    Writes <- Mixed
    MaxLsn = 3
INVARIANTS DecoderInv
PROPERTIES ImplementsCommitOrder
