------------------------------ MODULE MCWorker ------------------------------
(* Instances of Worker for TLC, and the refinement it is checked for.      *)
EXTENDS WorkerContent

OneTable == {"A"}
TwoTables == {"A", "B"}
MCKeys == {"k"}
MCVals == {"x", "y"}

\* Two single-table views of the same table: 1 counts, 2 projects and its
\* select list raises an error on "y".
SingleRels == <<{"A"}, {"A"}>>
SingleTab == <<"A", "A">>
SingleShape == <<"aggregate", "projection">>
SinglePoison == <<{}, {"y"}>>

\* A single-table view and a join view over two tables.
JoinRels == <<{"A"}, {"A", "B"}>>
JoinTab == <<"A", "A">>
JoinShape == <<"projection", "aggregate">>
JoinPoison == <<{}, {"y"}>>

\* Two join views sharing both shadows.
SharedRels == <<{"A", "B"}, {"A", "B"}>>
SharedTab == <<"A", "B">>
SharedShape == <<"aggregate", "projection">>
NoPoison == <<{}, {}>>
=============================================================================
