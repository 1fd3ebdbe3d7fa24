------------------------------ MODULE MCStream ------------------------------
(* Instances of Stream for TLC.                                            *)
EXTENDS Stream

CONSTANTS A, B

\* A single-table view and a join view on the same table.
SingleAndJoin == <<{A}, {A, B}>>
Single == <<{A}>>
\* Two join views on the same tables.
TwoJoins == <<{A, B}, {A, B}>>
=============================================================================
