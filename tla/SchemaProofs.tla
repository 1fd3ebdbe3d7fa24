---------------------------- MODULE SchemaProofs ----------------------------
(***************************************************************************)
(* Machine-checked theorems of module Schema, for every set of columns,    *)
(* types and views and every bound: the type invariant whatever the        *)
(* sessions do and, for sessions that take the four cautions, that no view *)
(* and no shadow holds a value of another column, that a healthy shadow    *)
(* holds what its live views use, that only views that use a changed       *)
(* column go stale, and that a rebuild that resolves succeeds.             *)
(***************************************************************************)
EXTENDS Schema, OrderProofs, SequenceTheorems

-----------------------------------------------------------------------------
(* Column lists.                                                           *)

\* A function on 1..n is a sequence.
LEMMA ListIsSeq ==
    ASSUME NEW S, NEW n \in Nat, NEW f \in [1..n -> S]
    PROVE  f \in Seq(S) /\ Len(f) = n /\ DOMAIN f = 1..n
<1>1. f \in Seq(S)
    BY SeqDef
<1>. QED
    BY <1>1, LenProperties

\* Distinct names: a name denotes one column, at the place where it is found.
LEMMA NamedOnce ==
    ASSUME NEW t, Distinct(t), NEW c \in Cells(t), NEW d \in Cells(t), c.name = d.name
    PROVE  c = d
BY DEF Distinct, Cells

LEMMA FoundByName ==
    ASSUME NEW t, Distinct(t), NEW c \in Cells(t)
    PROVE  Place(t, c.name) \in DOMAIN t /\ t[Place(t, c.name)] = c
<1>1. PICK i \in DOMAIN t : t[i] = c
    BY DEF Cells
<1>2. \E k \in DOMAIN t : t[k].name = c.name
    BY <1>1
<1>3. Place(t, c.name) \in DOMAIN t /\ t[Place(t, c.name)].name = c.name
    BY <1>2, Zenon DEF Place
<1>. QED
    BY <1>1, <1>3 DEF Distinct

\* The elements of a list of columns are columns.
LEMMA CellsAreColumns ==
    ASSUME NEW t \in Seq(Column)
    PROVE  Cells(t) \subseteq Column
BY ElementOfSeq, LenProperties DEF Cells

-----------------------------------------------------------------------------
(* Schema changes.                                                         *)

\* What every schema change keeps, and which columns it can bring.
KeyThere == Key \in Names(Cells(schema))
TypeInv == SchemaTypeOK /\ WellNamed /\ KeyThere
Brings(c) == "reuse" \in Calm => ~Known(c)
Changed ==
    /\ schema' \in Seq(Column) /\ Distinct(schema') /\ KeyThere'
    /\ \A c \in Cells(schema') : c \in Cells(schema) \/ Brings(c)

LEMMA NewIsColumn ==
    ASSUME SchemaTypeOK, NEW n \in Columns, NEW ty \in Types
    PROVE  /\ New(n, ty) \in Column
           /\ New(n, ty).name = n /\ New(n, ty).type = ty
BY DEF SchemaTypeOK, New, Column

LEMMA AddColumnKeeps ==
    ASSUME TypeInv, NEW n \in Columns, NEW ty \in Types, AddColumn(n, ty)
    PROVE  Changed
<1>. DEFINE c == New(n, ty)
<1>0. schema \in Seq(Column) /\ Distinct(schema) /\ KeyThere
    BY DEF TypeInv, SchemaTypeOK, WellNamed
<1>1. c \in Column /\ c.name = n
    BY NewIsColumn DEF TypeInv
<1>2. schema' = Append(schema, c) /\ n \notin Names(Cells(schema)) /\ AsNew(c)
    BY DEF AddColumn
<1>. HIDE DEF c
<1>3. /\ schema' \in Seq(Column) /\ DOMAIN schema = 1..Len(schema) /\ Len(schema) \in Nat
      /\ DOMAIN schema' = 1..Len(schema) + 1
      /\ \A i \in DOMAIN schema : schema'[i] = schema[i]
      /\ schema'[Len(schema) + 1] = c
    BY <1>0, <1>1, <1>2, AppendProperties, LenProperties
<1>4. \A i \in DOMAIN schema : schema[i].name # n
    BY <1>2 DEF Names, Cells
<1>5. Distinct(schema')
  <2>. SUFFICES ASSUME NEW i \in DOMAIN schema', NEW j \in DOMAIN schema',
                       schema'[i].name = schema'[j].name
                PROVE  i = j
      BY DEF Distinct
  <2>1. CASE i \in DOMAIN schema /\ j \in DOMAIN schema
      BY <1>0, <1>3, <2>1 DEF Distinct
  <2>2. i \notin DOMAIN schema => i = Len(schema) + 1
      BY <1>3
  <2>3. j \notin DOMAIN schema => j = Len(schema) + 1
      BY <1>3
  <2>. QED
      BY <1>1, <1>3, <1>4, <2>1, <2>2, <2>3
<1>6. Cells(schema') = Cells(schema) \cup {c}
  <2>1. Cells(schema') \subseteq Cells(schema) \cup {c}
    <3>. SUFFICES ASSUME NEW i \in DOMAIN schema' PROVE schema'[i] \in Cells(schema) \cup {c}
        BY DEF Cells
    <3>1. i \in DOMAIN schema \/ i = Len(schema) + 1
        BY <1>3
    <3>. QED
        BY <1>3, <3>1 DEF Cells
  <2>2. Cells(schema) \subseteq Cells(schema')
    <3>. SUFFICES ASSUME NEW i \in DOMAIN schema PROVE schema[i] \in Cells(schema')
        BY DEF Cells
    <3>1. i \in DOMAIN schema'
        BY <1>3
    <3>. QED
        BY <1>3, <3>1 DEF Cells
  <2>3. c \in Cells(schema')
    <3>1. Len(schema) + 1 \in DOMAIN schema'
        BY <1>3
    <3>. QED
        BY <1>3, <3>1 DEF Cells
  <2>. QED
      BY <2>1, <2>2, <2>3
<1>7. KeyThere'
    BY <1>0, <1>6 DEF KeyThere, Names
<1>8. Brings(c)
    BY <1>2 DEF AsNew, Brings
<1>. QED
    BY <1>3, <1>5, <1>6, <1>7, <1>8 DEF Changed

LEMMA DropColumnKeeps ==
    ASSUME TypeInv, NEW n \in Columns, DropColumn(n)
    PROVE  Changed
<1>0. schema \in Seq(Column) /\ Distinct(schema) /\ KeyThere
    BY DEF TypeInv, SchemaTypeOK, WellNamed
<1>. DEFINE k == Place(schema, n)
            l == Len(schema)
            From(i) == IF i < k THEN i ELSE i + 1
<1>1. n \in Names(Cells(schema)) /\ n # Key
    BY DEF DropColumn
<1>2. PICK c \in Cells(schema) : c.name = n
    BY <1>1 DEF Names
<1>3. k \in 1..l /\ schema[k].name = n /\ l \in Nat /\ l > 0 /\ DOMAIN schema = 1..l
    BY <1>0, <1>2, FoundByName, LenProperties
<1>4. schema' = [i \in 1..l - 1 |-> schema[From(i)]]
  <2>1. schema' = [i \in 1..l - 1 |-> IF i < k THEN schema[i] ELSE schema[i + 1]]
      BY DEF DropColumn
  <2>2. \A i \in 1..l - 1 : (IF i < k THEN schema[i] ELSE schema[i + 1]) = schema[From(i)]
      OBVIOUS
  <2>. QED
      BY <2>1, <2>2
<1>. HIDE DEF k, l
<1>5. \A i \in 1..l - 1 : From(i) \in 1..l /\ From(i) # k
    BY <1>3
<1>6. \A i, j \in 1..l - 1 : From(i) = From(j) => i = j
    BY <1>3
<1>7. \A m \in 1..l : m # k => \E i \in 1..l - 1 : From(i) = m
  <2>. SUFFICES ASSUME NEW m \in 1..l, m # k PROVE \E i \in 1..l - 1 : From(i) = m
      OBVIOUS
  <2>1. CASE m < k
    <3>1. m \in 1..l - 1 /\ From(m) = m
        BY <1>3, <2>1
    <3>. QED
        BY <3>1
  <2>2. CASE m > k
    <3>1. m - 1 \in 1..l - 1 /\ From(m - 1) = m
        BY <1>3, <2>2
    <3>. QED
        BY <3>1
  <2>. QED
      BY <1>3, <2>1, <2>2
<1>. HIDE DEF From
<1>8. DOMAIN schema' = 1..l - 1 /\ \A i \in 1..l - 1 : schema'[i] = schema[From(i)]
    BY <1>4
<1>9. schema' \in Seq(Column)
  <2>1. \A i \in 1..l - 1 : schema[From(i)] \in Column
      BY <1>0, <1>3, <1>5, CellsAreColumns DEF Cells
  <2>2. l - 1 \in Nat
      BY <1>3
  <2>3. schema' \in [1..l - 1 -> Column]
      BY <1>4, <2>1
  <2>. QED
      BY <2>2, <2>3, ListIsSeq
<1>10. Distinct(schema')
    BY <1>0, <1>3, <1>5, <1>6, <1>8 DEF Distinct
<1>11. Cells(schema') \subseteq Cells(schema)
    BY <1>3, <1>5, <1>8 DEF Cells
<1>12. KeyThere'
  <2>1. PICK m \in 1..l : schema[m].name = Key
      BY <1>0, <1>3 DEF KeyThere, Names, Cells
  <2>2. PICK i \in 1..l - 1 : From(i) = m
      BY <1>1, <1>3, <1>7, <2>1
  <2>. QED
      BY <1>8, <2>1, <2>2 DEF KeyThere, Names, Cells
<1>. QED
    BY <1>9, <1>10, <1>11, <1>12 DEF Changed

\* A change of one column where it stands: a rename, or a new type.
LEMMA ReplacedKeeps ==
    ASSUME TypeInv, NEW n \in Columns, NEW r,
           \A c \in Cells(schema) : c.name = n =>
               /\ r[c] \in Column /\ Brings(r[c])
               /\ r[c].name = n \/ r[c].name \notin Names(Cells(schema))
               /\ n = Key => r[c].name = Key,
           schema' = [i \in DOMAIN schema |-> IF schema[i].name = n THEN r[schema[i]] ELSE schema[i]]
    PROVE  Changed
<1>0. schema \in Seq(Column) /\ Distinct(schema) /\ KeyThere
    BY DEF TypeInv, SchemaTypeOK, WellNamed
<1>1. /\ DOMAIN schema = 1..Len(schema) /\ Len(schema) \in Nat
      /\ DOMAIN schema' = DOMAIN schema
      /\ \A i \in DOMAIN schema : schema[i] \in Cells(schema) /\ schema[i] \in Column
    BY <1>0, LenProperties, CellsAreColumns DEF Cells
<1>2. \A i \in DOMAIN schema :
         /\ schema[i].name = n => schema'[i] = r[schema[i]]
         /\ schema[i].name # n => schema'[i] = schema[i]
    OBVIOUS
<1>3. schema' \in Seq(Column)
  <2>1. schema' \in [1..Len(schema) -> Column]
    <3>1. \A i \in DOMAIN schema : schema'[i] \in Column
        BY <1>1, <1>2
    <3>. QED
        BY <1>1, <3>1
  <2>. QED
      BY <1>1, <2>1, ListIsSeq
<1>4. Distinct(schema')
  <2>. SUFFICES ASSUME NEW i \in DOMAIN schema, NEW j \in DOMAIN schema,
                       schema'[i].name = schema'[j].name
                PROVE  i = j
      BY <1>1 DEF Distinct
  <2>1. schema[i].name \in Names(Cells(schema)) /\ schema[j].name \in Names(Cells(schema))
      BY <1>1 DEF Names
  <2>. QED
      BY <1>0, <1>1, <1>2, <2>1 DEF Distinct
<1>5. KeyThere'
  <2>1. PICK i \in DOMAIN schema : schema[i].name = Key
      BY <1>0 DEF KeyThere, Names, Cells
  <2>2. schema'[i].name = Key
      BY <1>1, <1>2, <2>1
  <2>. QED
      BY <1>1, <2>2 DEF KeyThere, Names, Cells
<1>6. ASSUME NEW c \in Cells(schema') PROVE c \in Cells(schema) \/ Brings(c)
  <2>1. PICK i \in DOMAIN schema' : c = schema'[i]
      BY DEF Cells
  <2>2. i \in DOMAIN schema
      BY <1>1
  <2>3. schema'[i] = schema[i] \/ Brings(schema'[i])
      BY <2>2, <1>1, <1>2
  <2>. QED
      BY <2>1, <2>2, <2>3 DEF Cells
<1>. QED
    BY <1>3, <1>4, <1>5, <1>6 DEF Changed

LEMMA DdlKeeps ==
    ASSUME TypeInv, NEW n \in Columns, NEW m \in Columns, NEW ty \in Types,
           AddColumn(n, ty) \/ RetypeColumn(n, ty) \/ DropColumn(n) \/ RenameColumn(n, m)
    PROVE  Changed
<1>0. Cells(schema) \subseteq Column
    BY CellsAreColumns DEF TypeInv, SchemaTypeOK
<1>1. CASE RetypeColumn(n, ty)
  <2>. DEFINE r == [c \in Cells(schema) |-> New(n, ty)]
  <2>1. New(n, ty) \in Column /\ New(n, ty).name = n
      BY NewIsColumn DEF TypeInv
  <2>2. schema' = [i \in DOMAIN schema |-> IF schema[i].name = n THEN r[schema[i]] ELSE schema[i]]
    <3>1. \A i \in DOMAIN schema : schema[i] \in Cells(schema)
        BY DEF Cells
    <3>. QED
        BY <1>1, <3>1 DEF RetypeColumn
  <2>3. Brings(New(n, ty))
      BY <1>1 DEF RetypeColumn, AsNew, Brings
  <2>4. \A c \in Cells(schema) : c.name = n =>
               /\ r[c] \in Column /\ Brings(r[c])
               /\ r[c].name = n \/ r[c].name \notin Names(Cells(schema))
               /\ n = Key => r[c].name = Key
      BY <2>1, <2>3
  <2>. HIDE DEF r
  <2>. QED
      BY <2>2, <2>4, ReplacedKeeps
<1>2. CASE RenameColumn(n, m)
  <2>. DEFINE r == [c \in Cells(schema) |-> [c EXCEPT !.name = m]]
  <2>1. schema' = [i \in DOMAIN schema |-> IF schema[i].name = n THEN r[schema[i]] ELSE schema[i]]
    <3>1. \A i \in DOMAIN schema : schema[i] \in Cells(schema)
        BY DEF Cells
    <3>. QED
        BY <1>2, <3>1 DEF RenameColumn
  <2>2. \A c \in Cells(schema) : c.name = n =>
               /\ r[c] \in Column /\ Brings(r[c])
               /\ r[c].name = n \/ r[c].name \notin Names(Cells(schema))
               /\ n = Key => r[c].name = Key
      BY <1>0, <1>2 DEF RenameColumn, AsNew, Brings, Column
  <2>. HIDE DEF r
  <2>. QED
      BY <2>1, <2>2, ReplacedKeeps
<1>. QED
    BY <1>1, <1>2, AddColumnKeeps, DropColumnKeeps

-----------------------------------------------------------------------------
(* Populations.                                                            *)

\* A group (populate.rs group) is of queued views.
LEMMA GroupIsPending ==
    ASSUME NEW v \in Views, Pending(v)
    PROVE  /\ GroupOf(v) \subseteq Views /\ v \in GroupOf(v)
           /\ \A u \in GroupOf(v) : Pending(u) /\ status[u] # "live" /\ HasRow(u)
<1>1. GroupOf(v) \subseteq Views
    BY SchemaAssumption DEF GroupOf
<1>2. v \in GroupOf(v)
    BY DEF GroupOf
<1>3. \A u \in GroupOf(v) : Pending(u)
    BY DEF GroupOf, Pending
<1>4. \A u \in Views : Pending(u) => status[u] # "live" /\ HasRow(u)
    BY DEF Pending, HasRow
<1>. QED
    BY <1>1, <1>2, <1>3, <1>4

\* The columns a definition uses (definition.rs), as the table has them.
LEMMA ValidatedIs ==
    ASSUME TypeInv, NEW v \in Views
    PROVE  /\ Validated(v) \subseteq Cells(schema) /\ Validated(v) \subseteq Column
           /\ Resolves(v) => Names(Validated(v)) = Uses[v]
<1>1. Cells(schema) \subseteq Column
    BY CellsAreColumns DEF TypeInv, SchemaTypeOK
<1>2. Validated(v) \subseteq Cells(schema)
    BY DEF Validated
<1>3. ASSUME Resolves(v) PROVE Names(Validated(v)) = Uses[v]
    BY <1>3 DEF Resolves, Validated, Names
<1>. QED
    BY <1>1, <1>2, <1>3

\* The specification a build leaves has the columns of the definition, and
\* knows no other column by the name and type of one of the table's.
LEMMA SpecBuiltIs ==
    ASSUME TypeInv, NEW v \in Views, HasRow(v), Resolves(v)
    PROVE  /\ SpecBuilt(v) \subseteq Column
           /\ Names(SpecBuilt(v)) = Uses[v]
           /\ \A c \in SpecBuilt(v), d \in Cells(schema) : Same(c, d) => c = d
<1>0. Distinct(schema) /\ Cells(schema) \subseteq Column
    BY CellsAreColumns DEF TypeInv, SchemaTypeOK, WellNamed
<1>1. CASE Rebuild(v)
  <2>1. SpecBuilt(v) = Validated(v)
      BY <1>1 DEF SpecBuilt
  <2>. QED
      BY <1>0, <2>1, ValidatedIs, NamedOnce DEF Same
<1>2. CASE ~Rebuild(v)
  <2>. DEFINE g(d) == schema[Place(schema, d.name)].gen
  <2>1. SpecBuilt(v) = {[d EXCEPT !.gen = g(d)] : d \in spec[v]}
      BY <1>2 DEF SpecBuilt
  <2>2. spec[v] \subseteq Column /\ Names(spec[v]) = Uses[v]
      BY DEF TypeInv, SchemaTypeOK, WellNamed
  <2>3. ASSUME NEW d \in spec[v]
        PROVE  /\ [d EXCEPT !.gen = g(d)] \in Column
               /\ [d EXCEPT !.gen = g(d)].name = d.name
               /\ \A c \in Cells(schema) : Same([d EXCEPT !.gen = g(d)], c) => [d EXCEPT !.gen = g(d)] = c
    <3>1. d \in Column /\ d.name \in Names(Cells(schema))
        BY <2>2 DEF Resolves, Names
    <3>2. PICK e \in Cells(schema) : e.name = d.name
        BY <3>1 DEF Names
    <3>3. g(d) = e.gen
        BY <1>0, <3>2, FoundByName
    <3>4. \A c \in Cells(schema) : c.name = d.name => c = e
        BY <1>0, <3>2, NamedOnce
    <3>. HIDE DEF g
    <3>. QED
        BY <1>0, <3>1, <3>2, <3>3, <3>4 DEF Same, Column
  <2>. HIDE DEF g
  <2>4. SpecBuilt(v) \subseteq Column
      BY <2>1, <2>3
  <2>5. Names(SpecBuilt(v)) = Names(spec[v])
    <3>1. \A c \in SpecBuilt(v) : \E d \in spec[v] : c.name = d.name
        BY <2>1, <2>3
    <3>2. \A d \in spec[v] : \E c \in SpecBuilt(v) : c.name = d.name
        BY <2>1, <2>3
    <3>. QED
        BY <3>1, <3>2 DEF Names
  <2>. QED
      BY <2>1, <2>2, <2>3, <2>4, <2>5
<1>. QED
    BY <1>1, <1>2

\* A row of nabla.shadows (bootstrap.sql).
ShadowRow ==
    [exists : BOOLEAN, frontier : 0..Len(wal), failed : BOOLEAN, columns : SUBSET Column, misread : BOOLEAN]
RowOK(s) ==
    /\ s \in ShadowRow
    /\ s.exists => Key \in Names(s.columns)
    /\ \A c, d \in s.columns : c.name = d.name => c = d

\* What populations leave of the shadow (shadow.rs create, rebuild, extend).
LEMMA NeededIs ==
    ASSUME TypeInv
    PROVE  /\ NeededColumns \subseteq Cells(schema) /\ NeededColumns \subseteq Column
           /\ Key \in Names(NeededColumns)
<1>1. NeededColumns \subseteq Cells(schema)
    BY DEF NeededColumns
<1>2. Cells(schema) \subseteq Column
    BY CellsAreColumns DEF TypeInv, SchemaTypeOK
<1>3. Key \in Names(NeededColumns)
    BY DEF TypeInv, KeyThere, NeededColumns, Names
<1>. QED
    BY <1>1, <1>2, <1>3

LEMMA BuiltRowOK ==
    ASSUME TypeInv, NEW g
    PROVE  RowOK(ShadowAfterBuild(g))
<1>0. /\ Distinct(schema) /\ Len(wal) \in Nat /\ shadow \in ShadowRow
      /\ shadow.exists => Key \in Names(shadow.columns)
      /\ \A c, d \in shadow.columns : c.name = d.name => c = d
    BY LenProperties DEF TypeInv, SchemaTypeOK, WellNamed, ShadowRow
<1>1. RowOK(shadow)
    BY <1>0 DEF RowOK
<1>2. RowOK(Snapshotted)
  <2>1. Snapshotted = [exists |-> TRUE, frontier |-> Len(wal), failed |-> FALSE,
                       columns |-> NeededColumns, misread |-> FALSE]
      BY DEF Snapshotted
  <2>2. \A c, d \in NeededColumns : c.name = d.name => c = d
      BY <1>0, NeededIs, NamedOnce
  <2>. QED
      BY <1>0, <2>1, <2>2, NeededIs DEF RowOK, ShadowRow
<1>3. RowOK(Extended)
  <2>. DEFINE more == {c \in NeededColumns : c.name \notin Names(shadow.columns)}
              cols == shadow.columns \cup more
  <2>1. Extended = [shadow EXCEPT !.columns = cols]
      BY DEF Extended
  <2>2. more \subseteq Column /\ \A c, d \in more : c.name = d.name => c = d
      BY <1>0, NeededIs, NamedOnce
  <2>3. \A c \in more, d \in shadow.columns : c.name # d.name
      BY DEF Names
  <2>4. cols \in SUBSET Column
      BY <1>0, <2>2 DEF ShadowRow
  <2>5. \A c, d \in cols : c.name = d.name => c = d
      BY <1>0, <2>2, <2>3
  <2>6. shadow.exists => Key \in Names(cols)
      BY <1>0 DEF Names
  <2>. HIDE DEF cols
  <2>. QED
      BY <1>0, <2>1, <2>4, <2>5, <2>6 DEF RowOK, ShadowRow
<1>. QED
    BY <1>1, <1>2, <1>3 DEF ShadowAfterBuild

-----------------------------------------------------------------------------
(* Rounds.                                                                 *)

\* The position before the first of some transactions of a peek.
LEMMA BeforeFirst ==
    ASSUME TypeInv, NEW e \in 1..Len(wal), NEW S \in SUBSET (1..e), S # {}
    PROVE  Least(S) \in S /\ Least(S) - 1 \in 0..Len(wal) /\ \A i \in S : Least(S) <= i
<1>1. Len(wal) \in Nat
    BY LenProperties DEF TypeInv, SchemaTypeOK
<1>2. S \in SUBSET Nat
    BY <1>1
<1>3. Least(S) \in S /\ \A i \in S : Least(S) <= i
    BY <1>2, LeastIs
<1>4. Least(S) \in 1..e
    BY <1>3
<1>. QED
    BY <1>1, <1>3, <1>4

LEMMA ShadowStopsIn ==
    ASSUME NEW e, NEW rel, slot \in Nat, e \in Nat
    PROVE  ShadowStops(e, rel) \subseteq 1..e
BY DEF ShadowStops, Touching

LEMMA RoundRowOK ==
    ASSUME TypeInv, NEW e \in 1..Len(wal), NEW rel
    PROVE  RowOK(ShadowAfterRound(e, rel))
<1>0. /\ slot \in Nat /\ e \in Nat /\ e \in 0..Len(wal) /\ shadow \in ShadowRow
      /\ shadow.exists => Key \in Names(shadow.columns)
      /\ \A c, d \in shadow.columns : c.name = d.name => c = d
    BY LenProperties DEF TypeInv, SchemaTypeOK, WellNamed, ShadowRow
<1>1. RowOK(shadow) /\ RowOK([shadow EXCEPT !.frontier = e]) /\ RowOK([shadow EXCEPT !.failed = TRUE])
    BY <1>0 DEF RowOK, ShadowRow
<1>2. Kept(rel) \subseteq shadow.columns
    BY DEF Kept
<1>3. ASSUME ~KeyDrifts(rel) PROVE shadow.exists => Key \in Names(Kept(rel))
    BY <1>0, <1>3 DEF KeyDrifts, Names
<1>4. ASSUME ~KeyDrifts(rel), NEW p \in 0..Len(wal)
      PROVE  RowOK([shadow EXCEPT !.failed = TRUE, !.columns = Kept(rel), !.frontier = p])
    BY <1>0, <1>2, <1>3, <1>4 DEF RowOK, ShadowRow
<1>5. ASSUME ~KeyDrifts(rel), NEW b \in BOOLEAN
      PROVE  RowOK([shadow EXCEPT !.frontier = e, !.columns = Kept(rel), !.misread = b])
    BY <1>0, <1>2, <1>3, <1>5 DEF RowOK, ShadowRow
<1>6. CASE ~Maintained(e) \/ rel = Other \/ KeyDrifts(rel)
    BY <1>1, <1>6 DEF ShadowAfterRound
<1>7. CASE Maintained(e) /\ rel # Other /\ ~KeyDrifts(rel) /\ ShadowStops(e, rel) # {}
  <2>. DEFINE p == Least(ShadowStops(e, rel)) - 1
  <2>1. p \in 0..Len(wal)
      BY <1>0, <1>7, ShadowStopsIn, BeforeFirst
  <2>2. ShadowAfterRound(e, rel) = [shadow EXCEPT !.failed = TRUE, !.columns = Kept(rel), !.frontier = p]
      BY <1>7 DEF ShadowAfterRound
  <2>. HIDE DEF p
  <2>. QED
      BY <1>4, <1>7, <2>1, <2>2
<1>8. CASE Maintained(e) /\ rel # Other /\ ~KeyDrifts(rel) /\ ShadowStops(e, rel) = {}
  <2>. DEFINE b == shadow.misread \/ \E i \in Touching(e), c \in Kept(rel) :
                                        i > shadow.frontier /\ Read(i, c, rel) # c
  <2>1. ShadowAfterRound(e, rel) = [shadow EXCEPT !.frontier = e, !.columns = Kept(rel), !.misread = b]
      BY <1>8 DEF ShadowAfterRound
  <2>2. b \in BOOLEAN
      BY <1>0 DEF ShadowRow
  <2>. QED
      BY <1>5, <1>8, <2>1, <2>2
<1>. QED
    BY <1>6, <1>7, <1>8

\* Where a round leaves a view is a position.
LEMMA ViewEndIs ==
    ASSUME TypeInv, NEW e \in 1..Len(wal), NEW rel, NEW v \in Views
    PROVE  ViewEnd(v, e, rel) \in 0..Len(wal)
<1>0. slot \in Nat /\ e \in Nat /\ e \in 0..Len(wal) /\ frontier[v] \in 0..Len(wal) /\ frontier[v] \in Nat
    BY LenProperties DEF TypeInv, SchemaTypeOK
<1>1. Stops(v, e, rel) \subseteq 1..e
    BY <1>0 DEF Stops, Touching
<1>2. Stops(v, e, rel) # {} => Least(Stops(v, e, rel)) - 1 \in 0..Len(wal)
    BY <1>1, BeforeFirst
<1>. QED
    BY <1>0, <1>2 DEF ViewEnd

-----------------------------------------------------------------------------
(* The type invariant.                                                     *)

\* A schema change leaves the worker's state alone.
LEMMA DdlType ==
    ASSUME TypeInv, NEW n \in Columns, NEW m \in Columns, NEW ty \in Types,
           AddColumn(n, ty) \/ RetypeColumn(n, ty) \/ DropColumn(n) \/ RenameColumn(n, m)
    PROVE  TypeInv'
<1>1. Changed
    BY DdlKeeps
<1>2. Ddl
    BY DEF AddColumn, RetypeColumn, DropColumn, RenameColumn
<1>3. UNCHANGED <<wal, slot, status, populated, frontier, spec, stored, misread, shadow, refreshes>> /\ ddls' = ddls + 1
    BY <1>2 DEF Ddl, viewVars
<1>4. WellNamed'
  <2>1. Distinct(schema)'
      BY <1>1 DEF Changed
  <2>2. WellNamed
      BY DEF TypeInv
  <2>. QED
      BY <1>3, <2>1, <2>2 DEF WellNamed, HasRow
<1>5. SchemaTypeOK'
    BY <1>1, <1>3 DEF Changed, TypeInv, SchemaTypeOK
<1>. QED
    BY <1>1, <1>4, <1>5 DEF Changed, TypeInv

LEMMA CommitsType ==
    ASSUME TypeInv, NEW t \in {schema, Other}, Commits(t)
    PROVE  TypeInv'
<1>0. SchemaTypeOK
    BY DEF TypeInv
<1>1. t \in Seq(Column)
  <2>1. Other \in Seq(Column)
      BY EmptySeq DEF Other
  <2>. QED
      BY <1>0, <2>1 DEF SchemaTypeOK
<1>2. /\ wal' = Append(wal, t)
      /\ UNCHANGED <<schema, ddls, slot, status, populated, frontier, spec, stored, misread, shadow, refreshes>>
    BY DEF Commits, tableVars, viewVars
<1>3. wal' \in Seq(Seq(Column)) /\ Len(wal') = Len(wal) + 1 /\ Len(wal) \in Nat
    BY <1>0, <1>1, <1>2, AppendProperties, LenProperties DEF SchemaTypeOK
<1>4. 0..Len(wal) \subseteq 0..Len(wal')
    BY <1>3
<1>5. /\ slot' \in 0..Len(wal') /\ frontier' \in [Views -> 0..Len(wal')]
      /\ shadow' \in [exists : BOOLEAN, frontier : 0..Len(wal'), failed : BOOLEAN,
                      columns : SUBSET Column, misread : BOOLEAN]
    BY <1>0, <1>2, <1>4 DEF SchemaTypeOK
<1>6. SchemaTypeOK'
    BY <1>0, <1>2, <1>3, <1>5 DEF SchemaTypeOK
<1>. QED
    BY <1>2, <1>6 DEF TypeInv, WellNamed, KeyThere, HasRow

\* The calls of the API (api.rs) write a status and, in create_view, a specification.
LEMMA ApiType ==
    ASSUME TypeInv, NEW v \in Views, CreateView(v) \/ Refresh(v)
    PROVE  TypeInv'
<1>0. SchemaTypeOK /\ WellNamed
    BY DEF TypeInv
<1>1. CASE CreateView(v)
  <2>1. /\ status' = [status EXCEPT ![v] = "initializing"] /\ spec' = [spec EXCEPT ![v] = Validated(v)]
        /\ Resolves(v)
        /\ UNCHANGED <<schema, ddls, wal, slot, populated, frontier, stored, misread, shadow, refreshes>>
      BY <1>1 DEF CreateView, tableVars
  <2>2. Validated(v) \in SUBSET Column /\ Names(Validated(v)) = Uses[v]
      BY <2>1, ValidatedIs
  <2>3. SchemaTypeOK'
      BY <1>0, <2>1, <2>2 DEF SchemaTypeOK, Statuses
  <2>4. \A u \in Views : HasRow(u)' => Names(spec'[u]) = Uses[u]
      BY <1>0, <2>1, <2>2 DEF WellNamed, SchemaTypeOK, HasRow
  <2>. QED
      BY <1>0, <2>1, <2>3, <2>4 DEF TypeInv, WellNamed, KeyThere
<1>2. CASE Refresh(v)
  <2>1. /\ status' = [u \in Views |-> IF u \in RefreshSet(v) /\ ~Pending(u) THEN "refreshing" ELSE status[u]]
        /\ HasRow(v) /\ refreshes' = refreshes + 1
        /\ UNCHANGED <<schema, ddls, wal, slot, populated, frontier, spec, stored, misread, shadow>>
      BY <1>2 DEF Refresh, tableVars
  <2>2. SchemaTypeOK'
      BY <1>0, <2>1 DEF SchemaTypeOK, Statuses
  <2>3. \A u \in Views : HasRow(u)' => HasRow(u)
      BY <2>1 DEF HasRow, RefreshSet
  <2>. QED
      BY <1>0, <2>1, <2>2, <2>3 DEF TypeInv, WellNamed, KeyThere
<1>. QED
    BY <1>1, <1>2

\* A population writes the rows of its group and the shadow (populate.rs).
LEMMA PopulateType ==
    ASSUME TypeInv, NEW v \in Views, PopulateGroup(v)
    PROVE  TypeInv'
<1>. DEFINE g == GroupOf(v)
            built == {u \in g : Resolves(u)}
<1>0. /\ SchemaTypeOK /\ WellNamed /\ KeyThere /\ Len(wal) \in Nat
      /\ UNCHANGED <<schema, ddls, wal, slot, refreshes>>
    BY LenProperties DEF TypeInv, SchemaTypeOK, PopulateGroup, tableVars
<1>1. g \subseteq Views /\ \A u \in g : HasRow(u)
    BY GroupIsPending DEF PopulateGroup
<1>2. CASE GroupNotBuilt(g)
  <2>1. /\ status' = [u \in Views |-> IF u \in g THEN "failed" ELSE status[u]]
        /\ UNCHANGED <<populated, frontier, spec, stored, misread, shadow>>
      BY <1>2 DEF GroupNotBuilt
  <2>2. SchemaTypeOK'
      BY <1>0, <2>1 DEF SchemaTypeOK, Statuses
  <2>3. \A u \in Views : HasRow(u)' => HasRow(u)
      BY <1>1, <2>1 DEF HasRow
  <2>. QED
      BY <1>0, <2>1, <2>2, <2>3 DEF TypeInv, WellNamed, KeyThere
<1>3. CASE GroupBuilt(g)
  <2>1. /\ status' = [u \in Views |-> IF u \in built THEN "live" ELSE IF u \in g THEN "failed" ELSE status[u]]
        /\ populated' = [u \in Views |-> populated[u] \/ u \in built]
        /\ frontier' = [u \in Views |-> IF u \in built THEN Len(wal) ELSE frontier[u]]
        /\ spec' = [u \in Views |-> IF u \in built THEN SpecBuilt(u) ELSE spec[u]]
        /\ stored' = [u \in Views |-> IF u \in built /\ ~populated[u] THEN Validated(u) ELSE stored[u]]
        /\ misread' = misread \ built
        /\ shadow' = ShadowAfterBuild(built \cap Joins)
      BY <1>3 DEF GroupBuilt
  <2>2. \A u \in built : u \in g /\ Resolves(u)
      OBVIOUS
  <2>. HIDE DEF g, built
  <2>3. RowOK(shadow')
      BY <2>1, BuiltRowOK
  <2>4. \A u \in Views : u \in built => SpecBuilt(u) \in SUBSET Column /\ Names(SpecBuilt(u)) = Uses[u]
      BY <1>1, <2>2, SpecBuiltIs
  <2>5. \A u \in Views : Validated(u) \in SUBSET Column
      BY ValidatedIs
  <2>6. status' \in [Views -> Statuses] /\ populated' \in [Views -> BOOLEAN]
      BY <1>0, <2>1 DEF SchemaTypeOK, Statuses
  <2>7. frontier' \in [Views -> 0..Len(wal)]
      BY <1>0, <2>1 DEF SchemaTypeOK
  <2>8. spec' \in [Views -> SUBSET Column] /\ stored' \in [Views -> SUBSET Column]
      BY <1>0, <2>1, <2>4, <2>5 DEF SchemaTypeOK
  <2>9. SchemaTypeOK'
      BY <1>0, <2>1, <2>3, <2>6, <2>7, <2>8 DEF SchemaTypeOK, RowOK, ShadowRow
  <2>10. \A u \in Views : HasRow(u)' => Names(spec'[u]) = Uses[u]
      BY <1>0, <1>1, <2>1, <2>2, <2>4 DEF WellNamed, HasRow
  <2>. QED
      BY <1>0, <2>3, <2>9, <2>10 DEF TypeInv, WellNamed, KeyThere, RowOK
<1>. QED
    BY <1>2, <1>3 DEF PopulateGroup

\* A round moves frontiers and may end views and the shadow (worker.rs).
LEMMA RoundType ==
    ASSUME TypeInv, NEW e \in slot + 1..Len(wal), Round(e)
    PROVE  TypeInv'
<1>. DEFINE rel == Relation(e)
<1>0. /\ SchemaTypeOK /\ WellNamed /\ KeyThere /\ Len(wal) \in Nat /\ slot \in Nat
      /\ e \in 1..Len(wal) /\ e \in 0..Len(wal)
    BY LenProperties DEF TypeInv, SchemaTypeOK
<1>1. /\ status' = [v \in Views |-> IF GoesStale(v, e, rel) THEN "stale" ELSE status[v]]
      /\ frontier' = [v \in Views |-> IF Behind(v, e) THEN ViewEnd(v, e, rel) ELSE frontier[v]]
      /\ misread' \subseteq misread \cup Views
      /\ shadow' = ShadowAfterRound(e, rel)
      /\ slot' \in {slot, e}
      /\ UNCHANGED <<schema, ddls, wal, populated, spec, stored, refreshes>>
    BY DEF Round, tableVars
<1>. HIDE DEF rel
<1>2. RowOK(shadow')
    BY <1>0, <1>1, RoundRowOK
<1>3. status' \in [Views -> Statuses]
    BY <1>0, <1>1 DEF SchemaTypeOK, Statuses
<1>4. frontier' \in [Views -> 0..Len(wal)]
    BY <1>0, <1>1, ViewEndIs DEF SchemaTypeOK
<1>5. SchemaTypeOK'
    BY <1>0, <1>1, <1>2, <1>3, <1>4 DEF SchemaTypeOK, RowOK, ShadowRow
<1>6. \A v \in Views : HasRow(v)' => HasRow(v)
    BY <1>1 DEF HasRow, GoesStale, Behind
<1>. QED
    BY <1>0, <1>1, <1>2, <1>5, <1>6 DEF TypeInv, WellNamed, KeyThere, RowOK

LEMMA TypeInit ==
    ASSUME SchemaInit
    PROVE  TypeInv
<1>1. /\ schema \in Seq(Column) /\ Distinct(schema) /\ KeyThere
      /\ wal = <<>> /\ Len(wal) = 0 /\ wal \in Seq(Seq(Column)) /\ shadow = NoShadow
    BY SchemaAssumption DEF SchemaInit, KeyThere
<1>2. SchemaTypeOK
    BY <1>1 DEF SchemaInit, SchemaTypeOK, Statuses, NoShadow
<1>3. WellNamed
    BY <1>1 DEF SchemaInit, WellNamed, HasRow, NoShadow
<1>. QED
    BY <1>1, <1>2, <1>3 DEF TypeInv

LEMMA TypeStep ==
    ASSUME TypeInv, [SchemaNext]_schemaVars
    PROVE  TypeInv'
<1>1. CASE Sessions
  <2>1. ASSUME NEW n \in Columns, NEW ty \in Types, AddColumn(n, ty) \/ RetypeColumn(n, ty)
        PROVE  TypeInv'
      BY <2>1, DdlType
  <2>2. ASSUME NEW n \in Columns, NEW m \in Columns, DropColumn(n) \/ RenameColumn(n, m)
        PROVE  TypeInv'
    <3>1. PICK ty \in Types : TRUE
        BY SchemaAssumption, CellsAreColumns DEF Names, Column
    <3>. QED
        BY <2>2, <3>1, DdlType
  <2>. QED
      BY <1>1, <2>1, <2>2, CommitsType, ApiType DEF Sessions
<1>2. CASE WorkerStep
    BY <1>2, PopulateType, RoundType DEF WorkerStep
<1>3. CASE UNCHANGED schemaVars
  <2>1. /\ UNCHANGED <<schema, ddls, wal, slot, refreshes>>
        /\ UNCHANGED <<status, populated, frontier, spec, stored, misread, shadow>>
      BY <1>3 DEF schemaVars, tableVars, viewVars
  <2>. QED
      BY <2>1 DEF TypeInv, SchemaTypeOK, WellNamed, KeyThere, HasRow
<1>. QED
    BY <1>1, <1>2, <1>3 DEF SchemaNext

\* Every reachable state is well typed and the shadow never loses its key
\* column while it is maintained (shadow.rs, worker.rs shadow_drift), whatever
\* the sessions do to the schema.
THEOREM SchemaTypeCorrect == SchemaSpec => []SchemaTypeOK
<1>1. SchemaInit => TypeInv
    BY TypeInit
<1>2. TypeInv /\ [SchemaNext]_schemaVars => TypeInv'
    BY TypeStep
<1>3. TypeInv => SchemaTypeOK
    BY DEF TypeInv
<1>. QED
    BY <1>1, <1>2, <1>3, PTL DEF SchemaSpec

-----------------------------------------------------------------------------
(* Sessions that take the four cautions.                                   *)

\* The inductive invariant.
SafeInv == TypeInv /\ DriftSafe

\* A column a change brings is unknown to live views and the shadow.
LEMMA DdlSafe ==
    ASSUME Calm = Cautions, SafeInv, NEW n \in Columns, NEW m \in Columns, NEW ty \in Types,
           AddColumn(n, ty) \/ RetypeColumn(n, ty) \/ DropColumn(n) \/ RenameColumn(n, m)
    PROVE  WrittenAsIs' /\ KnownAsIs' /\ ReadsItsColumns' /\ HeldByShadow'
<1>0. TypeInv /\ WrittenAsIs /\ KnownAsIs /\ ReadsItsColumns /\ HeldByShadow
    BY DEF SafeInv, DriftSafe
<1>1. /\ \A c \in Cells(schema') : c \in Cells(schema) \/ ~Known(c)
      /\ \A i \in DOMAIN wal : i > slot => wal[i] = Other
      /\ UNCHANGED <<wal, slot, status, spec, misread, shadow>>
  <2>1. Ddl
      BY DEF AddColumn, RetypeColumn, DropColumn, RenameColumn
  <2>2. Changed
      BY <1>0, DdlKeeps
  <2>. QED
      BY <2>1, <2>2 DEF Ddl, Changed, Brings, Cautions, viewVars
<1>2. WrittenAsIs' /\ ReadsItsColumns'
    BY <1>0, <1>1 DEF WrittenAsIs, ReadsItsColumns
<1>3. ASSUME NEW d \in Cells(schema'), d \notin Cells(schema)
      PROVE  /\ \A v \in Views : \A c \in spec[v] : status[v] = "live" => ~Same(c, d) /\ c # d
             /\ \A c \in shadow.columns : ~Same(c, d)
  <2>1. ~Known(d)
      BY <1>1, <1>3
  <2>2. \A c : Same(c, d) <=> Same(d, c)
      BY DEF Same
  <2>3. Same(d, d)
      BY DEF Same
  <2>4. \A v \in Views : \A c \in spec[v] : status[v] = "live" => ~Same(d, c)
      BY <2>1, <2>2 DEF Known
  <2>5. \A c \in shadow.columns : ~Same(d, c)
      BY <2>1, <2>2 DEF Known
  <2>. QED
      BY <2>2, <2>3, <2>4, <2>5
<1>4. KnownAsIs'
    BY <1>0, <1>1, <1>3 DEF KnownAsIs
<1>5. ASSUME NEW v \in Joins, status[v] = "live"
      PROVE  spec[v] \cap Cells(schema') \subseteq Cells(schema)
  <2>1. v \in Views
      BY SchemaAssumption
  <2>. QED
      BY <1>3, <1>5, <2>1
<1>6. HeldByShadow'
    BY <1>0, <1>1, <1>5 DEF HeldByShadow
<1>. QED
    BY <1>2, <1>4, <1>6

\* Writing a row and the calls of the API bring no view to life.
LEMMA QuietSafe ==
    ASSUME SafeInv,
           \/ Commits(schema) \/ Commits(Other)
           \/ \E v \in Views : CreateView(v) \/ Refresh(v)
           \/ UNCHANGED schemaVars
    PROVE  WrittenAsIs' /\ KnownAsIs' /\ ReadsItsColumns' /\ HeldByShadow'
<1>0. /\ TypeInv /\ WrittenAsIs /\ KnownAsIs /\ ReadsItsColumns /\ HeldByShadow
      /\ wal \in Seq(Seq(Column)) /\ Joins \subseteq Views
      /\ status \in [Views -> Statuses] /\ spec \in [Views -> SUBSET Column]
    BY SchemaAssumption DEF SafeInv, DriftSafe, TypeInv, SchemaTypeOK
<1>1. /\ UNCHANGED <<schema, slot, misread, shadow>>
      /\ \A u \in Views : status'[u] = "live" => status[u] = "live" /\ spec'[u] = spec[u]
      /\ wal' = wal \/ wal' = Append(wal, schema) \/ wal' = Append(wal, Other)
  <2>1. CASE Commits(schema) \/ Commits(Other)
      BY <2>1 DEF Commits, tableVars, viewVars
  <2>2. ASSUME NEW v \in Views, CreateView(v)
        PROVE  /\ UNCHANGED <<schema, slot, misread, shadow, wal>>
               /\ \A u \in Views : status'[u] = "live" => status[u] = "live" /\ spec'[u] = spec[u]
      BY <1>0, <2>2 DEF CreateView, tableVars
  <2>3. ASSUME NEW v \in Views, Refresh(v)
        PROVE  /\ UNCHANGED <<schema, slot, misread, shadow, wal>>
               /\ \A u \in Views : status'[u] = "live" => status[u] = "live" /\ spec'[u] = spec[u]
      BY <1>0, <2>3 DEF Refresh, tableVars
  <2>4. CASE UNCHANGED schemaVars
      BY <2>4 DEF schemaVars, tableVars, viewVars
  <2>. QED
      BY <2>1, <2>2, <2>3, <2>4
<1>2. WrittenAsIs'
  <2>1. wal' = wal => WrittenAsIs'
      BY <1>0, <1>1 DEF WrittenAsIs
  <2>2. ASSUME NEW t \in {schema, Other}, wal' = Append(wal, t) PROVE WrittenAsIs'
    <3>1. t \in Seq(Column)
      <4>1. Other \in Seq(Column)
          BY EmptySeq DEF Other
      <4>. QED
          BY <1>0, <4>1 DEF TypeInv, SchemaTypeOK
    <3>2. /\ DOMAIN wal' = 1..Len(wal) + 1 /\ DOMAIN wal = 1..Len(wal) /\ Len(wal) \in Nat
          /\ \A i \in 1..Len(wal) : wal'[i] = wal[i]
          /\ wal'[Len(wal) + 1] = t
        BY <1>0, <2>2, <3>1, AppendProperties, LenProperties
    <3>3. \A i \in DOMAIN wal' : i \in DOMAIN wal \/ i = Len(wal) + 1
        BY <3>2
    <3>. QED
        BY <1>0, <1>1, <3>2, <3>3 DEF WrittenAsIs
  <2>. QED
      BY <1>1, <2>1, <2>2
<1>3. KnownAsIs'
    BY <1>0, <1>1 DEF KnownAsIs
<1>4. ReadsItsColumns'
  <2>1. \A v \in misread : v \in Views
      BY <1>0 DEF TypeInv, SchemaTypeOK
  <2>. QED
      BY <1>0, <1>1, <2>1 DEF ReadsItsColumns
<1>5. HeldByShadow'
    BY <1>0, <1>1 DEF HeldByShadow
<1>. QED
    BY <1>2, <1>3, <1>4, <1>5

\* A population reads the schema of the day, and makes no first build on a
\* shadow that lags behind it.
LEMMA PopulateSafe ==
    ASSUME Calm = Cautions, SafeInv, NEW v \in Views, PopulateGroup(v)
    PROVE  WrittenAsIs' /\ KnownAsIs' /\ ReadsItsColumns' /\ HeldByShadow'
<1>. DEFINE g == GroupOf(v)
            built == {u \in g : Resolves(u)}
<1>0. /\ TypeInv /\ WrittenAsIs /\ KnownAsIs /\ ReadsItsColumns /\ HeldByShadow
      /\ Joins \subseteq Views /\ misread \subseteq Views /\ Distinct(schema)
      /\ UNCHANGED <<schema, wal, slot>>
    BY SchemaAssumption DEF SafeInv, DriftSafe, TypeInv, SchemaTypeOK, WellNamed, PopulateGroup, tableVars
<1>1. WrittenAsIs'
    BY <1>0 DEF WrittenAsIs
<1>2. g \subseteq Views /\ \A u \in g : HasRow(u) /\ status[u] # "live"
    BY GroupIsPending DEF PopulateGroup
<1>3. CASE GroupNotBuilt(g)
  <2>1. /\ status' = [u \in Views |-> IF u \in g THEN "failed" ELSE status[u]]
        /\ UNCHANGED <<spec, misread, shadow>>
      BY <1>3 DEF GroupNotBuilt
  <2>2. \A u \in Views : status'[u] = "live" => status[u] = "live"
      BY <2>1
  <2>. QED
      BY <1>0, <1>1, <2>1, <2>2 DEF KnownAsIs, ReadsItsColumns, HeldByShadow
<1>4. CASE GroupBuilt(g)
  <2>1. /\ status' = [u \in Views |-> IF u \in built THEN "live" ELSE IF u \in g THEN "failed" ELSE status[u]]
        /\ spec' = [u \in Views |-> IF u \in built THEN SpecBuilt(u) ELSE spec[u]]
        /\ misread' = misread \ built
        /\ shadow' = ShadowAfterBuild(built \cap Joins)
        /\ built \cap Joins # {} /\ Reuses(built \cap Joins) => shadow.columns \subseteq Cells(schema)
      BY <1>4 DEF GroupBuilt, Cautions
  <2>2. \A u \in built : HasRow(u) /\ Resolves(u) /\ u \in Views
      BY <1>2
  <2>. HIDE DEF g, built
  <2>3. \A u \in Views : status'[u] = "live" =>
            \/ u \in built /\ spec'[u] = SpecBuilt(u)
            \/ u \notin built /\ status[u] = "live" /\ spec'[u] = spec[u]
      BY <2>1
  <2>4. /\ Snapshotted.columns = NeededColumns /\ ~Snapshotted.failed /\ ~Snapshotted.misread
        /\ Extended.failed = shadow.failed /\ Extended.misread = shadow.misread
        /\ Extended.columns = shadow.columns \cup {c \in NeededColumns : c.name \notin Names(shadow.columns)}
    <3>1. shadow \in ShadowRow
        BY <1>0 DEF TypeInv, SchemaTypeOK, ShadowRow
    <3>. QED
        BY <3>1 DEF Snapshotted, Extended, ShadowRow
  <2>5. \/ built \cap Joins = {} /\ shadow' = shadow
        \/ built \cap Joins # {} /\ Reuses(built \cap Joins) /\ shadow' = Extended
        \/ shadow' = Snapshotted
      BY <2>1 DEF ShadowAfterBuild
  <2>6. \A c, d \in Cells(schema) : c.name = d.name => c = d
      BY <1>0, NamedOnce
  <2>7. \A c \in shadow'.columns : c \in shadow.columns \/ c \in Cells(schema)
      BY <1>0, <2>4, <2>5, NeededIs
  <2>8. KnownAsIs'
    <3>1. \A u \in Views : status'[u] = "live" =>
              \A c \in spec'[u], d \in Cells(schema) : Same(c, d) => c = d
        BY <1>0, <2>2, <2>3, SpecBuiltIs DEF KnownAsIs
    <3>2. \A c \in shadow'.columns, d \in Cells(schema) : Same(c, d) => c = d
        BY <1>0, <2>6, <2>7 DEF KnownAsIs, Same
    <3>. QED
        BY <1>0, <3>1, <3>2 DEF KnownAsIs
  <2>9. ReadsItsColumns'
    <3>1. \A u \in misread' : status'[u] # "live"
        BY <1>0, <2>1, <2>3 DEF ReadsItsColumns
    <3>2. shadow'.failed \/ ~shadow'.misread
        BY <1>0, <2>4, <2>5 DEF ReadsItsColumns
    <3>. QED
        BY <3>1, <3>2 DEF ReadsItsColumns
  <2>10. ASSUME NEW u \in Joins, status'[u] = "live"
         PROVE  /\ spec'[u] \cap Cells(schema) \subseteq shadow'.columns
                /\ spec'[u] \subseteq Cells(schema) => ~shadow'.failed
    <3>1. u \in Views /\ HasRow(u) /\ Names(spec'[u]) = Uses[u]
      <4>1. u \in Views
          BY <1>0
      <4>2. CASE u \in built
          BY <1>0, <2>2, <2>3, <2>10, <4>1, <4>2, SpecBuiltIs
      <4>3. CASE u \notin built
        <5>1. status[u] = "live" /\ spec'[u] = spec[u]
            BY <2>3, <2>10, <4>1, <4>3
        <5>. QED
            BY <1>0, <4>1, <5>1 DEF TypeInv, WellNamed, HasRow
      <4>. QED
          BY <4>2, <4>3
    <3>2. spec'[u] \cap Cells(schema) \subseteq NeededColumns
        BY <3>1 DEF NeededColumns, Names
    <3>3. CASE shadow' = Snapshotted
        BY <2>4, <3>2, <3>3
    <3>4. CASE built \cap Joins # {} /\ Reuses(built \cap Joins) /\ shadow' = Extended
      <4>1. shadow.columns \subseteq Cells(schema) /\ ~shadow.failed
          BY <2>1, <3>4 DEF Reuses
      <4>2. ASSUME NEW c \in spec'[u] \cap Cells(schema) PROVE c \in shadow'.columns
        <5>1. CASE c.name \in Names(shadow.columns)
          <6>1. PICK d \in shadow.columns : d.name = c.name
              BY <5>1 DEF Names
          <6>2. c = d
              BY <2>6, <4>1, <4>2, <6>1
          <6>. QED
              BY <2>4, <3>4, <6>2
        <5>2. CASE c.name \notin Names(shadow.columns)
            BY <2>4, <3>2, <3>4, <4>2, <5>2
        <5>. QED
            BY <5>1, <5>2
      <4>. QED
          BY <2>4, <3>4, <4>1, <4>2
    <3>5. CASE built \cap Joins = {} /\ shadow' = shadow
      <4>1. u \notin built
          BY <3>5
      <4>2. status[u] = "live" /\ spec'[u] = spec[u]
          BY <2>3, <2>10, <3>1, <4>1
      <4>. QED
          BY <1>0, <3>5, <4>2 DEF HeldByShadow
    <3>. QED
        BY <2>5, <3>3, <3>4, <3>5
  <2>11. HeldByShadow'
      BY <1>0, <2>10 DEF HeldByShadow
  <2>. QED
      BY <1>1, <2>8, <2>9, <2>11
<1>. QED
    BY <1>3, <1>4 DEF PopulateGroup

\* The relation a peek is read through is the table's, and so are its rows.
LEMMA RelationIs ==
    ASSUME SafeInv, NEW e \in slot + 1..Len(wal)
    PROVE  /\ \A i \in Touching(e) : wal[i] = schema
           /\ Relation(e) = IF Touching(e) = {} THEN Other ELSE schema
<1>0. slot \in Nat /\ Len(wal) \in Nat /\ DOMAIN wal = 1..Len(wal) /\ WrittenAsIs /\ e \in Nat
    BY LenProperties DEF SafeInv, DriftSafe, TypeInv, SchemaTypeOK
<1>1. \A i \in Touching(e) : i \in slot + 1..e /\ wal[i] # Other
    BY DEF Touching
<1>2. \A i \in Touching(e) : wal[i] = schema
    BY <1>0, <1>1 DEF WrittenAsIs
<1>3. Touching(e) # {} => Greatest(Touching(e)) \in Touching(e)
  <2>1. Touching(e) \in SUBSET Nat /\ \A i \in Touching(e) : i <= e
      BY <1>0, <1>1
  <2>. QED
      BY <1>0, <2>1, GreatestIs
<1>. QED
    BY <1>2, <1>3 DEF Relation

\* A column that is found by name and type is the one meant, and is read as itself.
LEMMA ProvidedIs ==
    ASSUME SafeInv, NEW c, Provides(schema, c),
           \/ \E v \in Views : status[v] = "live" /\ c \in spec[v]
           \/ c \in shadow.columns
    PROVE  /\ c \in Cells(schema)
           /\ \A i : wal[i] = schema => Read(i, c, schema) = c
<1>0. Distinct(schema) /\ KnownAsIs
    BY DEF SafeInv, DriftSafe, WellNamed
<1>1. PICK d \in Cells(schema) : Same(c, d)
    BY DEF Provides, Same, Cells
<1>2. c = d
    BY <1>0, <1>1 DEF KnownAsIs
<1>. QED
    BY <1>0, <1>1, <1>2, FoundByName DEF Read

\* Maintaining the shadow does not stop at a row of the schema of the day.
LEMMA NoShadowStops ==
    ASSUME SafeInv, NEW e \in slot + 1..Len(wal), Touching(e) # {}
    PROVE  ShadowStops(e, schema) = {}
<1>0. Distinct(schema) /\ schema \in Seq(Column)
    BY DEF SafeInv, DriftSafe, WellNamed, TypeInv, SchemaTypeOK
<1>. SUFFICES ASSUME NEW i \in Touching(e), ApplyFails(Kept(schema), i, schema) PROVE FALSE
    BY DEF ShadowStops
<1>1. wal[i] = schema /\ DOMAIN schema = 1..Len(schema)
    BY <1>0, RelationIs, LenProperties
<1>2. PICK c \in Kept(schema), k \in DOMAIN schema :
          schema[k].name = c.name /\ (k > Len(schema) \/ schema[k].type # c.type)
    BY <1>1 DEF ApplyFails
<1>3. c \in Cells(schema)
    BY ProvidedIs DEF Kept
<1>4. schema[k] = c
    BY <1>0, <1>2, <1>3, NamedOnce DEF Cells
<1>5. k <= Len(schema) /\ Len(schema) \in Nat /\ k \in Nat
    BY <1>0, <1>1, LenProperties
<1>. QED
    BY <1>2, <1>4, <1>5

\* A view behind the peek stops at no row unless it drifted.
LEMMA NoStops ==
    ASSUME SafeInv, NEW e \in slot + 1..Len(wal), Touching(e) # {}, NEW v \in Views, status[v] = "live",
           ~Drifts(spec[v], schema)
    PROVE  Stops(v, e, schema) = {} /\ ~Misreads(v, e, schema)
<1>0. schema \in Seq(Column) /\ schema # Other
  <2>1. Cells(schema) # {}
      BY DEF SafeInv, TypeInv, KeyThere, Names
  <2>2. schema \in Seq(Column)
      BY DEF SafeInv, TypeInv, SchemaTypeOK
  <2>3. Cells(Other) = {}
      BY EmptySeq, LenProperties DEF Other, Cells
  <2>. QED
      BY <2>1, <2>2, <2>3
<1>1. \A i \in Touching(e) : wal[i] = schema
    BY RelationIs
<1>2. \A c \in spec[v] : Provides(schema, c)
    BY <1>0 DEF Drifts
<1>3. \A i \in Touching(e), c \in spec[v] : Read(i, c, schema) = c
    BY <1>1, <1>2, ProvidedIs
<1>4. \A i \in Touching(e) : ~PlanFails(spec[v], i, schema)
  <2>1. Len(schema) \in Nat
      BY <1>0, LenProperties
  <2>. QED
      BY <1>1, <1>3, <2>1 DEF PlanFails
<1>5. ~ShadowBreaks(e, schema)
    BY NoShadowStops DEF ShadowBreaks
<1>. QED
    BY <1>3, <1>4, <1>5 DEF Stops, Misreads

\* A view behind a peek of no row of the table goes on to its end.
LEMMA QuietPeek ==
    ASSUME NEW e, Touching(e) = {}, NEW v \in Views
    PROVE  /\ ~GoesStale(v, e, Other) /\ ~Misreads(v, e, Other)
BY DEF GoesStale, Drifts, Stops, ShadowBreaks, Misreads

\* What a round does to a live view and to the shadow.
LEMMA RoundSafe ==
    ASSUME SafeInv, NEW e \in slot + 1..Len(wal), Round(e)
    PROVE  WrittenAsIs' /\ KnownAsIs' /\ ReadsItsColumns' /\ HeldByShadow'
<1>. DEFINE rel == Relation(e)
<1>0. /\ TypeInv /\ WrittenAsIs /\ KnownAsIs /\ ReadsItsColumns /\ HeldByShadow
      /\ Joins \subseteq Views /\ misread \subseteq Views /\ Distinct(schema)
      /\ slot \in Nat /\ Len(wal) \in Nat /\ e \in Nat /\ e > slot
      /\ DOMAIN wal = 1..Len(wal)
      /\ shadow \in ShadowRow
    BY SchemaAssumption, LenProperties
       DEF SafeInv, DriftSafe, TypeInv, SchemaTypeOK, WellNamed, ShadowRow
<1>1. /\ status' = [v \in Views |-> IF GoesStale(v, e, rel) THEN "stale" ELSE status[v]]
      /\ misread' = misread \cup {v \in Views : Behind(v, e) /\ Misreads(v, e, rel)}
      /\ shadow' = ShadowAfterRound(e, rel)
      /\ slot' \in {slot, e}
      /\ UNCHANGED <<schema, wal, spec>>
    BY DEF Round, tableVars
<1>2. \/ rel = Other /\ Touching(e) = {}
      \/ rel = schema /\ Touching(e) # {}
    BY RelationIs
<1>. HIDE DEF rel
<1>3. WrittenAsIs'
  <2>1. \A i \in DOMAIN wal : i > slot' => i > slot
      BY <1>0, <1>1
  <2>. QED
      BY <1>0, <1>1, <2>1 DEF WrittenAsIs
<1>4. \A v \in Views : status'[v] = "live" => status[v] = "live"
    BY <1>1
<1>5. /\ \A c \in shadow'.columns : c \in shadow.columns
      /\ shadow.failed => shadow'.failed
      /\ shadow'.misread => shadow.misread
      /\ shadow'.columns = shadow.columns \/ shadow'.columns = Kept(schema)
      /\ shadow'.failed => shadow.failed \/ KeyDrifts(schema)
  <2>1. CASE ~Maintained(e) \/ rel = Other
      BY <1>0, <1>1, <2>1 DEF ShadowAfterRound, ShadowRow
  <2>2. CASE Maintained(e) /\ rel = schema /\ rel # Other /\ KeyDrifts(rel)
      BY <1>0, <1>1, <2>2 DEF ShadowAfterRound, ShadowRow
  <2>3. CASE Maintained(e) /\ rel = schema /\ rel # Other /\ ~KeyDrifts(rel)
    <3>1. Touching(e) # {}
        BY <1>2, <2>3
    <3>2. ShadowStops(e, rel) = {}
        BY <2>3, <3>1, NoShadowStops
    <3>3. \A i \in Touching(e), c \in Kept(rel) : Read(i, c, rel) = c
        BY <2>3, RelationIs, ProvidedIs DEF Kept
    <3>4. shadow' = [shadow EXCEPT !.frontier = e, !.columns = Kept(rel), !.misread = shadow.misread]
        BY <1>0, <1>1, <2>3, <3>2, <3>3 DEF ShadowAfterRound, ShadowRow
    <3>5. shadow'.columns = Kept(rel) /\ shadow'.failed = shadow.failed /\ shadow'.misread = shadow.misread
        BY <1>0, <3>4 DEF ShadowRow
    <3>. QED
        BY <2>3, <3>5 DEF Kept
  <2>. QED
      BY <1>2, <2>1, <2>2, <2>3
<1>6. KnownAsIs'
    BY <1>0, <1>1, <1>4, <1>5 DEF KnownAsIs
<1>7. ReadsItsColumns'
  <2>1. ASSUME NEW v \in misread', status'[v] = "live" PROVE FALSE
    <3>1. v \in Views /\ status[v] = "live" /\ ~GoesStale(v, e, rel)
        BY <1>0, <1>1, <1>4, <2>1
    <3>2. v \notin misread
        BY <1>0, <3>1 DEF ReadsItsColumns
    <3>3. Behind(v, e) /\ Misreads(v, e, rel)
        BY <1>1, <2>1, <3>2
    <3>4. ~Drifts(spec[v], rel)
        BY <3>1, <3>3 DEF GoesStale
    <3>. QED
        BY <1>2, <3>1, <3>3, <3>4, NoStops, QuietPeek
  <2>2. shadow'.failed \/ ~shadow'.misread
      BY <1>0, <1>5 DEF ReadsItsColumns
  <2>. QED
      BY <2>1, <2>2 DEF ReadsItsColumns
<1>8. ASSUME NEW v \in Joins, status'[v] = "live"
      PROVE  /\ spec[v] \cap Cells(schema) \subseteq shadow'.columns
             /\ spec[v] \subseteq Cells(schema) => ~shadow'.failed
  <2>1. v \in Views /\ status[v] = "live"
      BY <1>0, <1>4, <1>8
  <2>2. /\ spec[v] \cap Cells(schema) \subseteq shadow.columns
        /\ spec[v] \subseteq Cells(schema) => ~shadow.failed
      BY <1>0, <2>1 DEF HeldByShadow
  <2>3. \A c \in Cells(schema) : Provides(schema, c)
      BY DEF Cells, Provides, Same
  <2>4. spec[v] \cap Cells(schema) \subseteq shadow'.columns
      BY <1>5, <2>2, <2>3 DEF Kept
  <2>5. ASSUME spec[v] \subseteq Cells(schema), KeyDrifts(schema) PROVE FALSE
    <3>1. PICK c \in spec[v] : c.name = Key
      <4>1. Key \in Names(spec[v])
          BY <1>0, <2>1, SchemaAssumption DEF TypeInv, WellNamed, HasRow
      <4>. QED
          BY <4>1 DEF Names
    <3>2. PICK d \in shadow.columns : d \notin Kept(schema) /\ d.name = Key
        BY <2>5 DEF KeyDrifts
    <3>3. c \in Cells(schema) /\ c \in shadow.columns
        BY <2>2, <2>5
    <3>4. c = d
        BY <1>0, <3>1, <3>2, <3>3 DEF TypeInv, WellNamed
    <3>. QED
        BY <2>3, <3>2, <3>3, <3>4 DEF Kept
  <2>. QED
      BY <1>5, <2>2, <2>4, <2>5
<1>9. HeldByShadow'
    BY <1>1, <1>8 DEF HeldByShadow
<1>. QED
    BY <1>3, <1>6, <1>7, <1>9

LEMMA SafeInit ==
    ASSUME SchemaInit
    PROVE  SafeInv
<1>1. TypeInv
    BY TypeInit
<1>2. \A v \in Views : status[v] = "absent"
    BY DEF SchemaInit
<1>3. WrittenAsIs
    BY EmptySeq, LenProperties DEF SchemaInit, WrittenAsIs
<1>4. KnownAsIs
    BY <1>2 DEF SchemaInit, KnownAsIs, NoShadow
<1>5. ReadsItsColumns
    BY DEF SchemaInit, ReadsItsColumns, NoShadow
<1>6. HeldByShadow
    BY <1>2, SchemaAssumption DEF HeldByShadow
<1>. QED
    BY <1>1, <1>3, <1>4, <1>5, <1>6 DEF SafeInv, DriftSafe, TypeInv

LEMMA SafeStep ==
    ASSUME Calm = Cautions, SafeInv, [SchemaNext]_schemaVars
    PROVE  SafeInv'
<1>1. TypeInv'
    BY TypeStep DEF SafeInv
<1>2. WrittenAsIs' /\ KnownAsIs' /\ ReadsItsColumns' /\ HeldByShadow'
  <2>1. CASE Sessions
    <3>1. ASSUME NEW n \in Columns, NEW ty \in Types, AddColumn(n, ty) \/ RetypeColumn(n, ty)
          PROVE  WrittenAsIs' /\ KnownAsIs' /\ ReadsItsColumns' /\ HeldByShadow'
        BY <3>1, DdlSafe
    <3>2. ASSUME NEW n \in Columns, NEW m \in Columns, DropColumn(n) \/ RenameColumn(n, m)
          PROVE  WrittenAsIs' /\ KnownAsIs' /\ ReadsItsColumns' /\ HeldByShadow'
      <4>1. PICK ty \in Types : TRUE
          BY SchemaAssumption, CellsAreColumns DEF Names, Column
      <4>. QED
          BY <3>2, <4>1, DdlSafe
    <3>. QED
        BY <2>1, <3>1, <3>2, QuietSafe DEF Sessions
  <2>2. CASE WorkerStep
      BY <2>2, PopulateSafe, RoundSafe DEF WorkerStep
  <2>3. CASE UNCHANGED schemaVars
      BY <2>3, QuietSafe
  <2>. QED
      BY <2>1, <2>2, <2>3 DEF SchemaNext
<1>. QED
    BY <1>1, <1>2 DEF SafeInv, DriftSafe, TypeInv

\* The inductive invariant of sessions that take the four cautions: rows still to
\* be peeked were written under the schema of the day (worker.rs apply_round),
\* and what views and the shadow know by name and type is the table's column.
THEOREM SchemaIsSafe == ASSUME Calm = Cautions PROVE SchemaSpec => []DriftSafe
<1>1. SchemaInit => SafeInv
    BY SafeInit
<1>2. SafeInv /\ [SchemaNext]_schemaVars => SafeInv'
    BY SafeStep
<1>3. SafeInv => DriftSafe
    BY DEF SafeInv
<1>. QED
    BY <1>1, <1>2, <1>3, PTL DEF SchemaSpec

\* No live view and no shadow that is maintained ever holds a value of a column
\* other than the one it was taken for (worker.rs, apply.rs).
THEOREM RowsReadAsWritten == ASSUME Calm = Cautions PROVE SchemaSpec => []ReadsItsColumns
<1>1. DriftSafe => ReadsItsColumns
    BY DEF DriftSafe
<1>. QED
    BY <1>1, SchemaIsSafe, PTL

\* A shadow that is maintained holds the columns its live views use, as long as
\* the table has them (shadow.rs extend, rebuild, worker.rs shadow_drift).
THEOREM ShadowsHoldWhatIsUsed == ASSUME Calm = Cautions PROVE SchemaSpec => []HeldByShadow
<1>1. DriftSafe => HeldByShadow
    BY DEF DriftSafe
<1>. QED
    BY <1>1, SchemaIsSafe, PTL

\* A view goes stale only if a column it uses is no longer there (worker.rs drift).
THEOREM OnlyUsersAreMarked == ASSUME Calm = Cautions PROVE SchemaSpec => OnlyUsersGoStale
<1>. DEFINE P == \A v \in Views :
                    status[v] = "live" /\ status'[v] = "stale" =>
                        \E c \in spec[v] : c.name \in Uses[v] /\ ~Provides(schema, c)
<1>1. SchemaInit => SafeInv
    BY SafeInit
<1>2. SafeInv /\ [SchemaNext]_schemaVars => SafeInv'
    BY SafeStep
<1>3. SafeInv /\ [SchemaNext]_schemaVars => [P]_schemaVars
  <2>. SUFFICES ASSUME SafeInv, SchemaNext, NEW v \in Views, status[v] = "live", status'[v] = "stale"
                PROVE  \E c \in spec[v] : c.name \in Uses[v] /\ ~Provides(schema, c)
      OBVIOUS
  <2>0. status \in [Views -> Statuses] /\ HasRow(v)
      BY DEF SafeInv, TypeInv, SchemaTypeOK, HasRow
  <2>1. ~Sessions
    <3>1. \A u \in Views : ~CreateView(u) /\ ~Refresh(u)
        BY <2>0 DEF CreateView, Refresh
    <3>2. ~Commits(schema) /\ ~Commits(Other)
        BY DEF Commits, viewVars
    <3>3. \A n, m, ty : ~AddColumn(n, ty) /\ ~RetypeColumn(n, ty) /\ ~DropColumn(n) /\ ~RenameColumn(n, m)
        BY DEF AddColumn, RetypeColumn, DropColumn, RenameColumn, Ddl, viewVars
    <3>. QED
        BY <3>1, <3>2, <3>3 DEF Sessions
  <2>2. \A u \in Views : ~PopulateGroup(u)
      BY DEF PopulateGroup, GroupBuilt, GroupNotBuilt
  <2>3. PICK e \in slot + 1..Len(wal) : Round(e)
      BY <2>1, <2>2 DEF SchemaNext, WorkerStep
  <2>. DEFINE rel == Relation(e)
  <2>4. GoesStale(v, e, rel)
      BY <2>3 DEF Round
  <2>. HIDE DEF rel
  <2>5. rel = schema /\ Touching(e) # {}
      BY <2>4, RelationIs, QuietPeek DEF rel
  <2>6. Drifts(spec[v], schema)
      BY <2>4, <2>5, NoStops DEF GoesStale
  <2>7. \A c \in spec[v] : c.name \in Uses[v]
      BY <2>0 DEF SafeInv, TypeInv, WellNamed, Names
  <2>. QED
      BY <2>6, <2>7 DEF Drifts
<1>. QED
    BY <1>1, <1>2, <1>3, PTL DEF SchemaSpec, OnlyUsersGoStale

-----------------------------------------------------------------------------
(* Rebuilds.                                                               *)

\* Join views that are rebuilt together were populated before.
Rebuilding ==
    \A u, w \in Joins :
        u # w /\ status[u] = "refreshing" /\ status[w] = "refreshing" => populated[u]

LEMMA RebuildingStep ==
    ASSUME "group" \in Calm, TypeInv, Rebuilding, [SchemaNext]_schemaVars
    PROVE  Rebuilding'
<1>0. status \in [Views -> Statuses] /\ populated \in [Views -> BOOLEAN] /\ Joins \subseteq Views
    BY SchemaAssumption DEF TypeInv, SchemaTypeOK
<1>1. ASSUME \A u \in Views : /\ status'[u] = "refreshing" => status[u] = "refreshing"
                              /\ populated[u] => populated'[u]
      PROVE  Rebuilding'
    BY <1>0, <1>1 DEF Rebuilding
<1>2. ASSUME NEW v \in Views, Refresh(v) PROVE Rebuilding'
  <2>. SUFFICES ASSUME NEW u \in Joins, NEW w \in Joins, u # w,
                       status'[u] = "refreshing", status'[w] = "refreshing"
                PROVE  populated'[u]
      BY DEF Rebuilding
  <2>1. /\ status' = [x \in Views |-> IF x \in RefreshSet(v) /\ ~Pending(x) THEN "refreshing" ELSE status[x]]
        /\ populated' = populated /\ HasRow(v)
        /\ \/ RefreshSet(v) = {v}
           \/ \A x \in RefreshSet(v) : populated[x] \/ status[x] = "initializing"
      BY <1>2 DEF Refresh
  <2>2. u \in Views /\ w \in Views
      BY <1>0
  <2>3. HasRow(u) /\ HasRow(w)
      BY <2>1, <2>2 DEF HasRow, RefreshSet
  <2>4. CASE v \in Joins
    <3>1. u \in RefreshSet(v) /\ w \in RefreshSet(v)
        BY <2>3, <2>4 DEF RefreshSet
    <3>2. populated[u] \/ status[u] = "initializing"
        BY <2>1, <3>1
    <3>3. status[u] # "initializing"
        BY <2>1, <2>2 DEF Pending
    <3>. QED
        BY <2>1, <3>2, <3>3
  <2>5. CASE v \notin Joins
    <3>1. u \notin RefreshSet(v) /\ w \notin RefreshSet(v)
        BY <2>5 DEF RefreshSet
    <3>2. status[u] = "refreshing" /\ status[w] = "refreshing"
        BY <2>1, <2>2, <3>1
    <3>. QED
        BY <2>1, <3>2 DEF Rebuilding
  <2>. QED
      BY <2>4, <2>5
<1>3. ASSUME NEW v \in Views, CreateView(v) PROVE Rebuilding'
    BY <1>0, <1>1, <1>3 DEF CreateView
<1>4. ASSUME NEW v \in Views, PopulateGroup(v) PROVE Rebuilding'
    BY <1>0, <1>1, <1>4 DEF PopulateGroup, GroupBuilt, GroupNotBuilt
<1>5. ASSUME NEW e, Round(e) PROVE Rebuilding'
    BY <1>0, <1>1, <1>5 DEF Round
<1>6. ASSUME UNCHANGED <<status, populated>> PROVE Rebuilding'
    BY <1>6 DEF Rebuilding
<1>7. \A n, m, ty : AddColumn(n, ty) \/ RetypeColumn(n, ty) \/ DropColumn(n) \/ RenameColumn(n, m)
          => UNCHANGED <<status, populated>>
    BY DEF AddColumn, RetypeColumn, DropColumn, RenameColumn, Ddl, viewVars
<1>8. Commits(schema) \/ Commits(Other) \/ UNCHANGED schemaVars => UNCHANGED <<status, populated>>
    BY DEF Commits, schemaVars, viewVars
<1>. QED
    BY <1>2, <1>3, <1>4, <1>5, <1>6, <1>7, <1>8 DEF SchemaNext, Sessions, WorkerStep

\* A rebuild whose definition resolves ends live, whatever becomes of the other
\* members of its group (populate.rs build), if every type can be assigned to every
\* other and no view is refreshed together with one that was never populated.
THEOREM RebuildsThatResolve ==
    ASSUME "group" \in Calm, Assignable = Types \X Types
    PROVE  SchemaSpec => ResolvingRebuilds
<1>. DEFINE P == \A v \in Views :
                    Rebuild(v) /\ Resolves(v) /\ status'[v] # "refreshing" => status'[v] = "live"
<1>1. SchemaInit => TypeInv /\ Rebuilding
  <2>1. ASSUME SchemaInit PROVE \A v \in Joins : status[v] = "absent"
      BY <2>1, SchemaAssumption DEF SchemaInit
  <2>. QED
      BY <2>1, TypeInit DEF Rebuilding
<1>2. TypeInv /\ Rebuilding /\ [SchemaNext]_schemaVars => (TypeInv /\ Rebuilding)'
    BY TypeStep, RebuildingStep
<1>3. TypeInv /\ Rebuilding /\ [SchemaNext]_schemaVars => [P]_schemaVars
  <2>. SUFFICES ASSUME TypeInv, Rebuilding, SchemaNext, NEW v \in Views,
                       status[v] = "refreshing", populated[v], Resolves(v), status'[v] # "refreshing"
                PROVE  status'[v] = "live"
      BY DEF Rebuild
  <2>0. status \in [Views -> Statuses]
      BY DEF TypeInv, SchemaTypeOK
  <2>1. ~Sessions
    <3>1. \A u \in Views : ~CreateView(u) /\ ~Refresh(u)
        BY <2>0 DEF CreateView, Refresh, Pending
    <3>2. ~Commits(schema) /\ ~Commits(Other)
        BY DEF Commits, viewVars
    <3>3. \A n, m, ty : ~AddColumn(n, ty) /\ ~RetypeColumn(n, ty) /\ ~DropColumn(n) /\ ~RenameColumn(n, m)
        BY DEF AddColumn, RetypeColumn, DropColumn, RenameColumn, Ddl, viewVars
    <3>. QED
        BY <3>1, <3>2, <3>3 DEF Sessions
  <2>2. \A e : ~Round(e)
      BY DEF Round, GoesStale, Behind
  <2>3. PICK u \in Views : PopulateGroup(u)
      BY <2>1, <2>2 DEF SchemaNext, WorkerStep
  <2>. DEFINE g == GroupOf(u)
  <2>4. v \in g
      BY <2>3 DEF PopulateGroup, GroupBuilt, GroupNotBuilt
  <2>5. \A w \in g : Rebuild(w)
    <3>1. CASE g = {u}
        BY <2>4, <3>1 DEF Rebuild
    <3>2. CASE g # {u}
      <4>1. g = {w \in Joins : status[w] = "refreshing"}
          BY <3>2 DEF GroupOf
      <4>2. \A w \in g : w = v \/ populated[w]
          BY <2>4, <4>1 DEF Rebuilding
      <4>. QED
          BY <4>1, <4>2 DEF Rebuild
    <3>. QED
        BY <3>1, <3>2
  <2>6. \A w \in Views : Fits(w)
    <3>1. stored \in [Views -> SUBSET Column] /\ \A w \in Views : Validated(w) \subseteq Column
        BY ValidatedIs DEF TypeInv, SchemaTypeOK
    <3>. QED
        BY <3>1 DEF Fits, Column
  <2>7. ~GroupFails(g)
    <3>1. g \subseteq Views
        BY <2>3, GroupIsPending DEF PopulateGroup
    <3>. QED
        BY <2>5, <2>6, <3>1 DEF GroupFails
  <2>8. GroupBuilt(g)
      BY <2>3, <2>7 DEF PopulateGroup, GroupNotBuilt
  <2>. QED
      BY <2>4, <2>8 DEF GroupBuilt
<1>. QED
    BY <1>1, <1>2, <1>3, PTL DEF SchemaSpec, ResolvingRebuilds
=============================================================================
