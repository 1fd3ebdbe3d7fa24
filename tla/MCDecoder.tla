---------------------------- MODULE MCDecoder -------------------------------
(* Instances of Decoder for TLC.                                           *)
EXTENDS Decoder, TLC

CONSTANTS S, T         \* two tables
CONSTANTS K            \* a column
CONSTANTS Int, Real    \* two types

Of(ty) == <<[name |-> K, type |-> ty]>>
Lists == {Of(Int), Of(Real)}

\* A transaction that changes nothing published, one that writes two tables,
\* one that retypes a column between two writes, and a TRUNCATE of both tables.
Mixed ==
    {<<>>,
     <<S :> Of(Int), T :> Of(Int)>>,
     <<S :> Of(Int), S :> Of(Real)>>,
     <<(S :> Of(Real)) @@ (T :> Of(Int))>>}
=============================================================================
