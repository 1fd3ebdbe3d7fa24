------------------------------- MODULE Schema -------------------------------
(***************************************************************************)
(* Schema changes of one base table, and how the worker reads the rows     *)
(* written before and after them: the decoder's relation cache             *)
(* (pgoutput.rs), the drift checks and the reading of decoded rows by      *)
(* column name (worker.rs, apply.rs), the active columns of the table's    *)
(* shadow (shadow.rs), and the rebuild of a view against the schema of the *)
(* day (populate.rs).                                                      *)
(*                                                                         *)
(* A row is abstracted to where its values come from: the transaction that *)
(* wrote it carries the column list it was written under.  Reading a value *)
(* is right if the column found at that place is the column asked for.     *)
(*                                                                         *)
(* A group is read off the queue and built in one step, and a round is one *)
(* step from its peek to its commit: apart from DDL, nothing here changes  *)
(* in between that they read, and a round reads no schema after its peek.  *)
(* A transaction is one INSERT; a view gives up at its first failure; both *)
(* are Worker's subject, as is a slot held or set back.                    *)
(***************************************************************************)
EXTENDS Naturals, Sequences, Order

CONSTANTS
    Columns, Types,      \* column names, and their types
    Key,                 \* the primary key: retyped, but never renamed or dropped
    FirstSchema,         \* the column list at the start
    NViews,              \* views get the serial ids 1..NViews
    Joins,               \* views that join the table with another one
    Uses,                \* [view -> names of the columns it uses]
    Assignable,          \* pairs <<from, to>> of types PostgreSQL assigns
    Calm,                \* what the sessions avoid, see below
    MaxLsn,              \* bound: committed transactions
    MaxDdl,              \* bound: schema changes
    MaxRefreshes         \* bound: calls of refresh()

Views == 1..NViews

\* The sessions change the schema only when the worker is past every row
\* written so far ("peek"), do not bring back a column that something still
\* knows by that name and type ("reuse"), do not refresh a view together with
\* one that was never populated ("group"), and make no first build on a shadow
\* whose columns the table no longer has ("shadow").
Cautions == {"peek", "reuse", "group", "shadow"}

\* `gen` tells contents apart: a column that is added or rewritten gets a new one.
Column == [name : Columns, type : Types, gen : Nat]
Cells(t) == {t[i] : i \in DOMAIN t}
Names(S) == {c.name : c \in S}
Place(t, n) == CHOOSE k \in DOMAIN t : t[k].name = n

\* The names of a column list are distinct.
Distinct(t) == \A i, j \in DOMAIN t : t[i].name = t[j].name => i = j

ASSUME SchemaAssumption ==
    /\ Key \in Columns
    /\ FirstSchema \in Seq(Column) /\ Distinct(FirstSchema) /\ Key \in Names(Cells(FirstSchema))
    /\ NViews \in Nat /\ Joins \subseteq Views
    /\ Uses \in [Views -> SUBSET Columns]
    /\ \A v \in Joins : Key \in Uses[v]
    /\ Assignable \subseteq Types \X Types
    /\ Calm \subseteq Cautions
    /\ MaxLsn \in Nat /\ MaxDdl \in Nat /\ MaxRefreshes \in Nat

VARIABLES
    schema, ddls,        \* the table's columns, and how often they were changed
    wal,                 \* per transaction, the column list its row was written
                         \* under; Other if it changes another table
    slot,
    status, populated, frontier,
    spec,                \* used_columns and used_column_types of each view
    stored,              \* the columns of the storage table, as first built
    shadow,              \* nabla.shadows: the row of the table's shadow
    misread,             \* views holding a value of another column
    refreshes

tableVars == <<schema, ddls>>
viewVars == <<status, populated, frontier, spec, stored, misread>>
schemaVars == <<tableVars, wal, slot, viewVars, shadow, refreshes>>

Other == <<>>
Statuses == {"absent", "initializing", "refreshing", "live", "stale", "failed"}
HasRow(v) == status[v] # "absent"
Pending(v) == status[v] \in {"initializing", "refreshing"}
NoShadow == [exists |-> FALSE, frontier |-> 0, failed |-> FALSE, columns |-> {}, misread |-> FALSE]

SchemaInit ==
    /\ schema = FirstSchema /\ ddls = 0
    /\ wal = <<>> /\ slot = 0
    /\ status = [v \in Views |-> "absent"]
    /\ populated = [v \in Views |-> FALSE]
    /\ frontier = [v \in Views |-> 0]
    /\ spec = [v \in Views |-> {}] /\ stored = [v \in Views |-> {}]
    /\ shadow = NoShadow
    /\ misread = {} /\ refreshes = 0

\* What drift and shadow_drift compare.
Same(c, d) == c.name = d.name /\ c.type = d.type
Provides(t, c) == \E i \in DOMAIN t : Same(t[i], c)

-----------------------------------------------------------------------------
(* Sessions: DDL and writes on the base tables, create_view, refresh.      *)

Known(c) ==
    \/ \E v \in Views : status[v] = "live" /\ \E d \in spec[v] : Same(c, d)
    \/ \E d \in shadow.columns : Same(c, d)

Ddl ==
    /\ ddls < MaxDdl /\ ddls' = ddls + 1
    /\ "peek" \in Calm => \A i \in DOMAIN wal : i > slot => wal[i] = Other
    /\ UNCHANGED <<wal, slot, viewVars, shadow, refreshes>>

New(n, ty) == [name |-> n, type |-> ty, gen |-> ddls + 1]
AsNew(c) == "reuse" \in Calm => ~Known(c)

AddColumn(n, ty) ==
    /\ n \notin Names(Cells(schema)) /\ AsNew(New(n, ty))
    /\ schema' = Append(schema, New(n, ty))
    /\ Ddl

DropColumn(n) ==
    /\ n \in Names(Cells(schema)) \ {Key}
    /\ schema' = [i \in 1..Len(schema) - 1 |->
                    IF i < Place(schema, n) THEN schema[i] ELSE schema[i + 1]]
    /\ Ddl

RenameColumn(n, m) ==
    /\ n \in Names(Cells(schema)) \ {Key} /\ m \notin Names(Cells(schema))
    /\ \A c \in Cells(schema) : c.name = n => AsNew([c EXCEPT !.name = m])
    /\ schema' = [i \in DOMAIN schema |->
                    IF schema[i].name = n THEN [schema[i] EXCEPT !.name = m] ELSE schema[i]]
    /\ Ddl

RetypeColumn(n, ty) ==
    /\ \E c \in Cells(schema) : c.name = n /\ c.type # ty
    /\ AsNew(New(n, ty))
    /\ schema' = [i \in DOMAIN schema |->
                    IF schema[i].name = n THEN New(n, ty) ELSE schema[i]]
    /\ Ddl

Commits(t) ==
    /\ Len(wal) < MaxLsn
    /\ wal' = Append(wal, t)
    /\ UNCHANGED <<tableVars, slot, viewVars, shadow, refreshes>>

\* definition::validate: the view's columns as the table has them.
Resolves(v) == Uses[v] \subseteq Names(Cells(schema))
Validated(v) == {c \in Cells(schema) : c.name \in Uses[v]}

CreateView(v) ==
    /\ status[v] = "absent" /\ \A u \in Views : u < v => status[u] # "absent"
    /\ Resolves(v)
    /\ status' = [status EXCEPT ![v] = "initializing"]
    /\ spec' = [spec EXCEPT ![v] = Validated(v)]
    /\ UNCHANGED <<tableVars, wal, slot, populated, frontier, stored, misread, shadow, refreshes>>

\* refresh_closure: the join views share the table's shadow.
RefreshSet(v) == IF v \in Joins THEN {u \in Joins : HasRow(u)} ELSE {v}

Refresh(v) ==
    /\ HasRow(v) /\ refreshes < MaxRefreshes
    /\ "group" \in Calm => \/ RefreshSet(v) = {v}
                           \/ \A u \in RefreshSet(v) : populated[u] \/ status[u] = "initializing"
    /\ status' = [u \in Views |->
                    IF u \in RefreshSet(v) /\ ~Pending(u) THEN "refreshing" ELSE status[u]]
    /\ refreshes' = refreshes + 1
    /\ UNCHANGED <<tableVars, wal, slot, populated, frontier, spec, stored, misread, shadow>>

-----------------------------------------------------------------------------
(* The population: run_pending, populate_group, build.                     *)

Rebuild(v) == status[v] = "refreshing" /\ populated[v]

GroupOf(v) ==
    IF v \in Joins /\ status[v] = "refreshing"
    THEN {u \in Joins : status[u] = "refreshing"} ELSE {v}

\* An error of any member that is not caught fails the transaction: a first
\* build whose query no longer resolves, or rows that do not fit the storage
\* table.  Only the validation of a rebuild has a subtransaction of its own.
Fits(v) ==
    \A c \in Validated(v), d \in stored[v] :
        c.name = d.name => c.type = d.type \/ <<c.type, d.type>> \in Assignable
GroupFails_AnyInvalid(g) == \E v \in g : ~Resolves(v) \/ ~Fits(v)
GroupFails(g) ==
    \E v \in g : IF Rebuild(v) THEN Resolves(v) /\ ~Fits(v) ELSE ~Resolves(v)

\* A rebuild regenerates the specification; a first build uses the one of
\* create_view, on the contents of the day.
SpecBuilt(v) ==
    IF Rebuild(v) THEN Validated(v)
    ELSE {[d EXCEPT !.gen = schema[Place(schema, d.name)].gen] : d \in spec[v]}

\* needed_columns and active_set: what any view in the catalog uses.
NeededColumns_Live ==
    {c \in Cells(schema) : c.name = Key \/ \E v \in Views : status[v] = "live" /\ c.name \in Uses[v]}
NeededColumns ==
    {c \in Cells(schema) : c.name = Key \/ \E v \in Views : HasRow(v) /\ c.name \in Uses[v]}

\* create and rebuild.
Snapshotted ==
    [exists |-> TRUE, frontier |-> Len(wal), failed |-> FALSE, columns |-> NeededColumns, misread |-> FALSE]

\* extend: columns it has not got by that name.
Extended == [shadow EXCEPT !.columns =
               @ \cup {c \in NeededColumns : c.name \notin Names(@)}]

\* The first member that joins decides (shadows_done).
Reuses(g) == shadow.exists /\ ~shadow.failed /\ ~Rebuild(Least(g))
ShadowAfterBuild(g) ==
    IF g = {} THEN shadow
    ELSE IF Reuses(g) THEN Extended ELSE Snapshotted

GroupBuilt(g) ==
    LET built == {v \in g : Resolves(v)} IN
    /\ ~GroupFails(g)
    /\ "shadow" \in Calm /\ built \cap Joins # {} /\ Reuses(built \cap Joins) =>
         shadow.columns \subseteq Cells(schema)
    /\ status' = [v \in Views |-> IF v \in built THEN "live"
                                 ELSE IF v \in g THEN "failed" ELSE status[v]]
    /\ populated' = [v \in Views |-> populated[v] \/ v \in built]
    /\ frontier' = [v \in Views |-> IF v \in built THEN Len(wal) ELSE frontier[v]]
    /\ spec' = [v \in Views |-> IF v \in built THEN SpecBuilt(v) ELSE spec[v]]
    /\ stored' = [v \in Views |-> IF v \in built /\ ~populated[v] THEN Validated(v) ELSE stored[v]]
    /\ misread' = misread \ built
    /\ shadow' = ShadowAfterBuild(built \cap Joins)

GroupNotBuilt(g) ==
    /\ GroupFails(g)
    /\ status' = [v \in Views |-> IF v \in g THEN "failed" ELSE status[v]]
    /\ UNCHANGED <<populated, frontier, spec, stored, misread, shadow>>

PopulateGroup(v) ==
    /\ Pending(v)
    /\ GroupBuilt(GroupOf(v)) \/ GroupNotBuilt(GroupOf(v))
    /\ UNCHANGED <<tableVars, wal, slot, refreshes>>

-----------------------------------------------------------------------------
(* A round that peeks up to e.                                             *)

Touching(e) == {i \in slot + 1..e : wal[i] # Other}

\* The cache holds the relation message that was fed last; all rows of the
\* peek are read through it.
Relation_Kept(e) ==
    IF Touching(e) = {} THEN Other ELSE wal[Least({i \in 1..e : wal[i] # Other})]
Relation(e) == IF Touching(e) = {} THEN Other ELSE wal[Greatest(Touching(e))]

\* Where row i has what the relation calls c.
Read(i, c, rel) == wal[i][Place(rel, c.name)]

Drifts(S, rel) == rel # Other /\ \E c \in S : ~Provides(rel, c)

\* Planning binds every column of the relation; a text of another type is no
\* value of this one.
PlanFails(S, i, rel) ==
    Len(wal[i]) < Len(rel) \/ \E c \in S : Read(i, c, rel).type # c.type

\* shadow_apply takes its active columns only.
ApplyFails(S, i, rel) ==
    \E c \in S : \E k \in DOMAIN rel :
        rel[k].name = c.name /\ (k > Len(wal[i]) \/ wal[i][k].type # c.type)

\* shadow_drift.
Kept(rel) == {c \in shadow.columns : Provides(rel, c)}
KeyDrifts_Never(rel) == FALSE
KeyDrifts(rel) == \E c \in shadow.columns \ Kept(rel) : c.name = Key
Maintained(e) == shadow.exists /\ ~shadow.failed /\ e > shadow.frontier

ShadowStops(e, rel) == {i \in Touching(e) : i > shadow.frontier /\ ApplyFails(Kept(rel), i, rel)}
ShadowBreaks(e, rel) ==
    Maintained(e) /\ rel # Other /\ ~KeyDrifts(rel) /\ ShadowStops(e, rel) # {}

ShadowAfterRound(e, rel) ==
    IF ~Maintained(e) THEN shadow
    ELSE IF rel = Other THEN [shadow EXCEPT !.frontier = e]
    ELSE IF KeyDrifts(rel) THEN [shadow EXCEPT !.failed = TRUE]
    ELSE IF ShadowStops(e, rel) # {}
    THEN [shadow EXCEPT !.failed = TRUE, !.columns = Kept(rel),
                        !.frontier = Least(ShadowStops(e, rel)) - 1]
    ELSE [shadow EXCEPT !.frontier = e, !.columns = Kept(rel),
                        !.misread = @ \/ \E i \in Touching(e), c \in Kept(rel) :
                                           i > shadow.frontier /\ Read(i, c, rel) # c]

\* The transactions at which v, behind e, would fail or go stale.
Stops(v, e, rel) ==
    {i \in Touching(e) : i > frontier[v] /\ PlanFails(spec[v], i, rel)}
    \cup {i \in frontier[v] + 1..e : v \in Joins /\ ShadowBreaks(e, rel) /\ i >= Least(ShadowStops(e, rel))}
Behind(v, e) == status[v] = "live" /\ e > frontier[v]
GoesStale(v, e, rel) == Behind(v, e) /\ (Drifts(spec[v], rel) \/ Stops(v, e, rel) # {})

ViewEnd(v, e, rel) ==
    IF Drifts(spec[v], rel) THEN frontier[v]
    ELSE IF Stops(v, e, rel) # {} THEN Least(Stops(v, e, rel)) - 1 ELSE e
Misreads(v, e, rel) ==
    \E i \in Touching(e), c \in spec[v] :
        frontier[v] < i /\ i <= ViewEnd(v, e, rel) /\ Read(i, c, rel) # c

\* peek, apply_round and the advance of the slot, before which the worker may crash.
Round(e) ==
    LET rel == Relation(e) IN
    /\ status' = [v \in Views |-> IF GoesStale(v, e, rel) THEN "stale" ELSE status[v]]
    /\ frontier' = [v \in Views |-> IF Behind(v, e) THEN ViewEnd(v, e, rel) ELSE frontier[v]]
    /\ misread' = misread \cup {v \in Views : Behind(v, e) /\ Misreads(v, e, rel)}
    /\ shadow' = ShadowAfterRound(e, rel)
    /\ slot' \in {slot, e}
    /\ UNCHANGED <<tableVars, wal, populated, spec, stored, refreshes>>

-----------------------------------------------------------------------------

Sessions ==
    \/ \E n \in Columns, ty \in Types : AddColumn(n, ty) \/ RetypeColumn(n, ty)
    \/ \E n, m \in Columns : DropColumn(n) \/ RenameColumn(n, m)
    \/ Commits(schema) \/ Commits(Other)
    \/ \E v \in Views : CreateView(v) \/ Refresh(v)

WorkerStep ==
    \/ \E v \in Views : PopulateGroup(v)
    \/ \E e \in slot + 1..Len(wal) : Round(e)

SchemaNext == Sessions \/ WorkerStep
SchemaSpec == SchemaInit /\ [][SchemaNext]_schemaVars

-----------------------------------------------------------------------------
(* Properties.                                                             *)

\* Types; the shadow always has the key, and positions lie within the log.
SchemaTypeOK ==
    /\ schema \in Seq(Column) /\ ddls \in Nat /\ wal \in Seq(Seq(Column))
    /\ slot \in 0..Len(wal)
    /\ status \in [Views -> Statuses]
    /\ populated \in [Views -> BOOLEAN]
    /\ frontier \in [Views -> 0..Len(wal)]
    /\ spec \in [Views -> SUBSET Column] /\ stored \in [Views -> SUBSET Column]
    /\ shadow \in [exists : BOOLEAN, frontier : 0..Len(wal), failed : BOOLEAN,
                   columns : SUBSET Column, misread : BOOLEAN]
    /\ shadow.exists => Key \in Names(shadow.columns)
    /\ misread \subseteq Views /\ refreshes \in Nat

\* README, "Every column is addressed by name": whatever columns come, go and
\* move, a live view and a shadow that is maintained hold no value of a column
\* other than the one they took it for.
ReadsItsColumns ==
    /\ \A v \in misread : status[v] # "live"
    /\ shadow.failed \/ ~shadow.misread

\* shadow.rs: a shadow holds "the union of the columns used by the views that
\* share it".  As long as the table has what a live join view uses, the view
\* finds it in a healthy shadow, in the type and with the values it was built for.
HeldByShadow ==
    \A v \in Joins :
        status[v] = "live" =>
            /\ spec[v] \cap Cells(schema) \subseteq shadow.columns
            /\ spec[v] \subseteq Cells(schema) => ~shadow.failed

\* README: changes of columns a view does not use are "tolerated silently", and
\* "exactly the views that use it" go stale when one is dropped, renamed or retyped.
OnlyUsersGoStale ==
    [][\A v \in Views :
         status[v] = "live" /\ status'[v] = "stale" =>
             \E c \in spec[v] : c.name \in Uses[v] /\ ~Provides(schema, c)]_schemaVars

\* populate.rs build: a definition that no longer resolves "fails this view
\* alone"; a rebuild that resolves is never failed by the others of its group.
ResolvingRebuilds ==
    [][\A v \in Views :
         Rebuild(v) /\ Resolves(v) /\ status'[v] # "refreshing" => status'[v] = "live"]_schemaVars

-----------------------------------------------------------------------------
(* Why they hold for cautious sessions.                                    *)

\* The rows still to be peeked were written under the schema of the day.
WrittenAsIs == \A i \in DOMAIN wal : i > slot => wal[i] \in {Other, schema}

\* What a live view or the shadow knows by a name and a type is the table's
\* column of that name and type, if there is one.
KnownAsIs ==
    /\ \A v \in Views : status[v] = "live" =>
          \A c \in spec[v], d \in Cells(schema) : Same(c, d) => c = d
    /\ \A c \in shadow.columns, d \in Cells(schema) : Same(c, d) => c = d

\* The specification lists the columns of the definition, the shadow each name once.
WellNamed ==
    /\ Distinct(schema)
    /\ \A v \in Views : HasRow(v) => Names(spec[v]) = Uses[v]
    /\ \A c, d \in shadow.columns : c.name = d.name => c = d

\* The inductive invariant.
DriftSafe == WellNamed /\ WrittenAsIs /\ KnownAsIs /\ ReadsItsColumns /\ HeldByShadow
=============================================================================
