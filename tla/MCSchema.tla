----------------------------- MODULE MCSchema -------------------------------
(* Instances of Schema for TLC.                                            *)
EXTENDS Schema

CONSTANTS K, A, B      \* the key and two other columns
CONSTANTS Int, Real    \* two types

First(n) == [name |-> n, type |-> Int, gen |-> 0]
KeyBA == <<First(K), First(B), First(A)>>

\* Two join views on different columns, and a single-table view on one of them.
TwoJoinsAndSingle == <<{K, A}, {K, B}, {A}>>
Single == <<{A}>>

BothWays == {Int, Real} \X {Int, Real}
=============================================================================
