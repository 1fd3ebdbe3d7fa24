----------------------------- MODULE SourceData -----------------------------
(***************************************************************************)
(* The data every other module talks about: base tables, the committed     *)
(* source transactions the slot decodes, the views defined over the        *)
(* tables, and the incremental rule the worker applies to a view's storage *)
(* table for one row of one change.                                        *)
(*                                                                         *)
(* A view groups (or projects) the rows of its relations, joined on the    *)
(* key; the group value comes from the table GroupTab[v].  Grouping by key *)
(* and value is the finest grouping there is: a coarser view is a function *)
(* of it, so one representation serves COUNT/SUM aggregates and projections*)
(* alike, and the row count of a group is the only number needed.           *)
(***************************************************************************)
EXTENDS Integers, Sequences

CONSTANTS
    Tables,      \* the base tables
    Keys,        \* primary key values
    Vals,        \* values of the column the views use
    NoRow,       \* "no row with this key"
    NViews,      \* views are created with serial ids 1..NViews
    Rels,        \* [view -> its base tables]; more than one is a join view
    GroupTab,    \* [view -> the table its group value is read from]
    Shape,       \* [view -> "aggregate" or "projection"]
    Poison       \* [view -> values its select list raises an error on]

Views == 1..NViews

Shapes == {"aggregate", "projection"}

ASSUME DataAssumption ==
    /\ Keys # {}
    /\ NoRow \notin Vals
    /\ NViews \in Nat
    /\ Rels \in [Views -> SUBSET Tables]
    /\ GroupTab \in [Views -> Tables]
    /\ \A v \in Views : GroupTab[v] \in Rels[v]
    /\ Shape \in [Views -> Shapes]
    /\ Poison \in [Views -> SUBSET Vals]

\* definition.rs: a view with more than one relation is maintained as a join.
IsJoin(v) == Rels[v] # {GroupTab[v]}

-----------------------------------------------------------------------------
(* Base table contents and the changes one source transaction makes.       *)

Cell == Vals \cup {NoRow}
TableRows == [Keys -> Cell]
Db == [Tables -> TableRows]

EmptyRows == [k \in Keys |-> NoRow]
EmptyDb == [t \in Tables |-> EmptyRows]

\* The operations of pgoutput's Change.  old is the row the decoder finds in
\* the WAL (the full row: aggregates demand REPLICA IDENTITY FULL).
Ops == {"insert", "update", "delete", "truncate"}
Change == [op : Ops, tab : Tables, key : Keys, old : Cell, new : Cell]

RowChange(d, t, k, x) ==
    [op  |-> IF d[t][k] = NoRow THEN "insert"
             ELSE IF x = NoRow THEN "delete" ELSE "update",
     tab |-> t, key |-> k, old |-> d[t][k], new |-> x]

Truncate(t) ==
    [op |-> "truncate", tab |-> t, key |-> CHOOSE k \in Keys : TRUE,
     old |-> NoRow, new |-> NoRow]

\* The table's rows after the change.
RowsAfter(rows, c) ==
    IF c.op = "truncate" THEN EmptyRows ELSE [rows EXCEPT ![c.key] = c.new]

After(d, c) == [d EXCEPT ![c.tab] = RowsAfter(@, c)]

\* Every effective row change a writer may make in state d.
RowChanges(d) ==
    {RowChange(d, w[1], w[2], w[3]) :
        w \in {w \in Tables \X Keys \X Cell : d[w[1]][w[2]] # w[3]}}

Changes(d, truncates) ==
    RowChanges(d) \cup (IF truncates THEN {Truncate(t) : t \in Tables} ELSE {})

\* Committed transactions: their changes and the committed state they leave.
\* A transaction without changes is WAL no published table is touched by.
Transaction == [ch : Seq(Change), db : Db]

-----------------------------------------------------------------------------
(* What a view holds, and how its storage table is maintained.             *)

Groups == Keys \X Vals
Storage == [Groups -> Nat]
EmptyStorage == [g \in Groups |-> 0]

\* The value of the joined row with key k, when table t holds x at k and the
\* other relations hold rows (their shadows, or the base tables themselves).
Joined(v, t, rows, k) == \A s \in Rels[v] \ {t} : rows[s][k] # NoRow
GroupValue(v, t, x, rows, k) == IF GroupTab[v] = t THEN x ELSE rows[GroupTab[v]][k]

\* The view's defining query over a committed state.
Query(v, d) ==
    [g \in Groups |->
        IF /\ \A t \in Rels[v] : d[t][g[1]] # NoRow
           /\ d[GroupTab[v]][g[1]] = g[2]
        THEN 1 ELSE 0]

\* The query raises an error on a poison value of a joined row.
QueryFails(v, d) ==
    \E k \in Keys :
        /\ \A t \in Rels[v] : d[t][k] # NoRow
        /\ d[GroupTab[v]][k] \in Poison[v]

\* apply.rs delta_rows: SELECT the view's columns for one row joined with the
\* other relations.  It yields one contribution, nothing, or an error.
Contributes(v, t, rows, k) == Joined(v, t, rows, k)
DeltaFails(v, t, x, rows, k) ==
    Joined(v, t, rows, k) /\ GroupValue(v, t, x, rows, k) \in Poison[v]

\* aggregate_row with sign +1 / projection_row INSERT: a projection has a
\* unique index on its identity, so inserting a key twice is an error.
InsertConflicts(v, store, k) ==
    Shape[v] = "projection" /\ \E y \in Vals : store[<<k, y>>] > 0

AddRow(v, t, x, rows, k, store) ==
    IF Contributes(v, t, rows, k)
    THEN [store EXCEPT ![<<k, GroupValue(v, t, x, rows, k)>>] = @ + 1]
    ELSE store

\* aggregate_row with sign -1: the group's count goes down and a group whose
\* count is <= 0 is deleted.  projection_row: DELETE by identity.
RemoveRow_Unjoined(v, t, x, rows, k, store) ==
    [store EXCEPT ![<<k, GroupValue(v, t, x, rows, k)>>] = @ - 1]
RemoveRow(v, t, x, rows, k, store) ==
    IF ~Contributes(v, t, rows, k) THEN store
    ELSE IF Shape[v] = "projection"
    THEN [g \in Groups |-> IF g[1] = k THEN 0 ELSE store[g]]
    ELSE [store EXCEPT ![<<k, GroupValue(v, t, x, rows, k)>>] =
             IF @ > 0 THEN @ - 1 ELSE 0]
=============================================================================
