---------------------------- MODULE WorkerProofs ----------------------------
(***************************************************************************)
(* Machine-checked theorems of modules Worker and WorkerContent, for every *)
(* set of tables, keys, values and views, every limit and every bound.     *)
(* First the lemmas about SourceData and the slot: the type invariant, and *)
(* that the slot never moves past a transaction a live view has still to   *)
(* absorb.  Then the content: what the views and the shadows hold, that a  *)
(* shadow loses nothing, that a healthy view is not held back by another   *)
(* one's failure, and that the worker implements DeferredView.             *)
(***************************************************************************)
EXTENDS WorkerContent, OrderProofs

-----------------------------------------------------------------------------
(* The data: what changes and database states are.                         *)

\* A change a writer can make is a change the decoder can report.
LEMMA ChangesType ==
    ASSUME NEW d \in Db, NEW tr \in BOOLEAN, NEW c \in Changes(d, tr)
    PROVE  c \in Change
<1>1. CASE c \in RowChanges(d)
  <2>1. PICK w \in Tables \X Keys \X Cell : c = RowChange(d, w[1], w[2], w[3])
      BY <1>1 DEF RowChanges
  <2>2. d[w[1]][w[2]] \in Cell
      BY DEF Db, TableRows
  <2>. QED
      BY <2>1, <2>2 DEF RowChange, Change, Ops
<1>2. CASE c \in {Truncate(t) : t \in Tables}
  <2>1. (CHOOSE k \in Keys : TRUE) \in Keys
      BY DataAssumption
  <2>. QED
      BY <1>2, <2>1 DEF Truncate, Change, Ops, Cell
<1>. QED
    BY <1>1, <1>2 DEF Changes

\* A change turns a database state into a database state.
LEMMA AfterType ==
    ASSUME NEW d \in Db, NEW c \in Change
    PROVE  After(d, c) \in Db
<1>1. \A rows \in TableRows : RowsAfter(rows, c) \in TableRows
    BY DEF RowsAfter, TableRows, EmptyRows, Change, Cell
<1>. QED
    BY <1>1 DEF After, Db, Change

\* The empty database, and the empty storage table.
LEMMA EmptyTypes ==
    /\ EmptyRows \in TableRows /\ EmptyDb \in Db /\ EmptyStorage \in Storage
BY DEF EmptyDb, EmptyRows, Db, TableRows, Cell, EmptyStorage, Storage

\* A view's query yields a storage table.
LEMMA QueryType ==
    ASSUME NEW v \in Views, NEW d \in Db
    PROVE  Query(v, d) \in Storage
BY DEF Query, Storage

\* The maintenance rules keep a storage table a storage table, whatever row
\* they are given.
LEMMA AddRowType ==
    ASSUME NEW v, NEW t, NEW x, NEW rows, NEW k, NEW store \in Storage
    PROVE  AddRow(v, t, x, rows, k, store) \in Storage
<1>. DEFINE g == <<k, GroupValue(v, t, x, rows, k)>>
<1>1. [store EXCEPT ![g] = @ + 1] \in Storage
  <2>1. \A h \in Groups : store[h] \in Nat
      BY DEF Storage
  <2>2. [store EXCEPT ![g] = @ + 1] = [h \in Groups |-> IF h = g THEN store[h] + 1 ELSE store[h]]
      BY DEF Storage
  <2>3. \A h \in Groups : (IF h = g THEN store[h] + 1 ELSE store[h]) \in Nat
      BY <2>1
  <2>. QED
      BY <2>2, <2>3 DEF Storage
<1>. QED
    BY <1>1 DEF AddRow

\* The same when a row is taken out.
LEMMA RemoveRowType ==
    ASSUME NEW v, NEW t, NEW x, NEW rows, NEW k, NEW store \in Storage
    PROVE  RemoveRow(v, t, x, rows, k, store) \in Storage
<1>. DEFINE g == <<k, GroupValue(v, t, x, rows, k)>>
            less(n) == IF n > 0 THEN n - 1 ELSE 0
<1>1. [store EXCEPT ![g] = IF @ > 0 THEN @ - 1 ELSE 0] \in Storage
  <2>1. \A h \in Groups : store[h] \in Nat
      BY DEF Storage
  <2>2. [store EXCEPT ![g] = IF @ > 0 THEN @ - 1 ELSE 0]
            = [h \in Groups |-> IF h = g THEN less(store[h]) ELSE store[h]]
      BY DEF Storage
  <2>3. \A h \in Groups : (IF h = g THEN less(store[h]) ELSE store[h]) \in Nat
      BY <2>1
  <2>. QED
      BY <2>2, <2>3 DEF Storage
<1>2. [h \in Groups |-> IF h[1] = k THEN 0 ELSE store[h]] \in Storage
    BY DEF Storage
<1>. QED
    BY <1>1, <1>2 DEF RemoveRow

-----------------------------------------------------------------------------
(* What a change is, in the state a writer makes it.                       *)

\* Database d with row x (or no row) at key k of table t.
Put(d, t, k, x) == [d EXCEPT ![t] = [@ EXCEPT ![k] = x]]

\* The result of one write is a database state, different at one cell only.
LEMMA PutIs ==
    ASSUME NEW d \in Db, NEW t \in Tables, NEW k \in Keys, NEW x \in Cell
    PROVE  /\ Put(d, t, k, x) \in Db
           /\ \A s \in Tables, j \in Keys :
                Put(d, t, k, x)[s][j] = IF s = t /\ j = k THEN x ELSE d[s][j]
<1>1. d \in [Tables -> [Keys -> Cell]]
    BY DEF Db, TableRows
<1>2. [d[t] EXCEPT ![k] = x] \in [Keys -> Cell]
    BY <1>1
<1>. QED
    BY <1>1, <1>2 DEF Put, Db, TableRows

\* A row change carries the row it finds and one that differs, and its
\* operation says which of the two are rows at all (pgoutput.rs Change).
LEMMA RowChangeIs ==
    ASSUME NEW d \in Db, NEW tr \in BOOLEAN, NEW c \in Changes(d, tr), c.op # "truncate"
    PROVE  /\ c.tab \in Tables /\ c.key \in Keys /\ c.new \in Cell
           /\ c.old = d[c.tab][c.key] /\ c.old # c.new
           /\ c.op \in {"update", "delete"} <=> c.old # NoRow
           /\ c.op # "delete" <=> c.new # NoRow
           /\ c.op = "insert" <=> c.old = NoRow
           /\ After(d, c) = Put(d, c.tab, c.key, c.new)
<1>1. c \in RowChanges(d)
    BY DEF Changes, Truncate
<1>2. PICK w \in Tables \X Keys \X Cell :
        d[w[1]][w[2]] # w[3] /\ c = RowChange(d, w[1], w[2], w[3])
    BY <1>1 DEF RowChanges
<1>3. /\ w[1] \in Tables /\ w[2] \in Keys /\ w[3] \in Cell
      /\ c.tab = w[1] /\ c.key = w[2] /\ c.new = w[3] /\ c.old = d[w[1]][w[2]]
      /\ c.op = IF c.old = NoRow THEN "insert" ELSE IF c.new = NoRow THEN "delete" ELSE "update"
    BY <1>2 DEF RowChange
<1>4. After(d, c) = Put(d, c.tab, c.key, c.new)
    BY DEF After, RowsAfter, Put
<1>. QED
    BY <1>2, <1>3, <1>4

-----------------------------------------------------------------------------
(* The incremental rule gives what the query gives.                        *)

\* The view shows value y for key k: the joined row is there, and has it.
Shows(v, d, k, y) == (\A t \in Rels[v] : d[t][k] # NoRow) /\ d[GroupTab[v]][k] = y

\* The query, group by group.
LEMMA QueryAt ==
    ASSUME NEW v \in Views, NEW d, NEW k \in Keys, NEW y \in Vals
    PROVE  Query(v, d)[<<k, y>>] = IF Shows(v, d, k, y) THEN 1 ELSE 0
BY DEF Query, Shows, Groups

\* Storage tables that agree on every group are equal.
LEMMA StorageEqual ==
    ASSUME NEW a \in Storage, NEW b \in Storage,
           \A k \in Keys, y \in Vals : a[<<k, y>>] = b[<<k, y>>]
    PROVE  a = b
<1>1. \A g \in Groups : a[g] = b[g]
    BY DEF Groups
<1>. QED
    BY <1>1 DEF Storage

\* Two states a view cannot tell apart.
LEMMA SameQuery ==
    ASSUME NEW v \in Views, NEW d \in Db, NEW e \in Db,
           \A k \in Keys, y \in Vals : Shows(v, d, k, y) <=> Shows(v, e, k, y)
    PROVE  Query(v, d) = Query(v, e)
BY QueryType, QueryAt, StorageEqual

\* Taking a row out of the view (apply.rs, sign -1): the query without it.
LEMMA RemoveGives ==
    ASSUME NEW v \in Views, NEW d \in Db, NEW t \in Rels[v], NEW k \in Keys,
           NEW rows, \A s \in Rels[v] \ {t} : rows[s] = d[s], d[t][k] # NoRow
    PROVE  RemoveRow(v, t, d[t][k], rows, k, Query(v, d)) = Query(v, Put(d, t, k, NoRow))
<1>. DEFINE store == Query(v, d)
            gone == Put(d, t, k, NoRow)
            val == d[GroupTab[v]][k]
<1>1. /\ t \in Tables /\ GroupTab[v] \in Rels[v] /\ Rels[v] \subseteq Tables
      /\ Shape[v] \in Shapes /\ NoRow \in Cell
    BY DataAssumption DEF Cell
<1>2. gone \in Db /\ \A s \in Tables, j \in Keys :
        gone[s][j] = IF s = t /\ j = k THEN NoRow ELSE d[s][j]
    BY <1>1, PutIs
<1>3. store \in Storage /\ Query(v, gone) \in Storage
    BY <1>2, QueryType
<1>4. GroupValue(v, t, d[t][k], rows, k) = val
    BY <1>1 DEF GroupValue
<1>5. \A j \in Keys, y \in Vals : Shows(v, gone, j, y) <=> (j # k /\ Shows(v, d, j, y))
    BY <1>1, <1>2 DEF Shows
<1>6. Contributes(v, t, rows, k) <=> \A s \in Rels[v] : d[s][k] # NoRow
    BY DEF Contributes, Joined
<1>. HIDE DEF store, gone
<1>7. \A j \in Keys, y \in Vals :
        /\ store[<<j, y>>] = IF Shows(v, d, j, y) THEN 1 ELSE 0
        /\ Query(v, gone)[<<j, y>>] = IF j # k /\ Shows(v, d, j, y) THEN 1 ELSE 0
    BY <1>5, QueryAt DEF store
<1>. DEFINE got == RemoveRow(v, t, d[t][k], rows, k, store)
<1>8. got \in Storage
    BY <1>3, RemoveRowType
<1>9. ASSUME NEW j \in Keys, NEW y \in Vals
      PROVE  got[<<j, y>>] = Query(v, gone)[<<j, y>>]
  <2>1. /\ <<j, y>> \in Groups /\ <<j, y>>[1] = j
        /\ <<j, y>> = <<k, val>> <=> (j = k /\ y = val)
      BY DEF Groups
  <2>2. CASE ~ Contributes(v, t, rows, k)
    <3>1. got = store /\ ~ Shows(v, d, k, y)
        BY <2>2, <1>6 DEF RemoveRow, Shows
    <3>. QED
        BY <3>1, <1>7
  <2>3. CASE Contributes(v, t, rows, k) /\ Shape[v] = "projection"
    <3>1. got = [g \in Groups |-> IF g[1] = k THEN 0 ELSE store[g]]
        BY <2>3 DEF RemoveRow
    <3>2. got[<<j, y>>] = IF j = k THEN 0 ELSE store[<<j, y>>]
        BY <3>1, <2>1
    <3>. QED
        BY <3>2, <1>7
  <2>4. CASE Contributes(v, t, rows, k) /\ Shape[v] # "projection"
    <3>1. got = [store EXCEPT ![<<k, val>>] = IF @ > 0 THEN @ - 1 ELSE 0]
        BY <2>4, <1>4 DEF RemoveRow
    <3>2. store \in [Groups -> Nat]
        BY <1>3 DEF Storage
    <3>3. Shows(v, d, k, y) <=> y = val
        BY <2>4, <1>6 DEF Shows
    <3>4. CASE j = k /\ y = val
      <4>1. got[<<j, y>>] = IF store[<<j, y>>] > 0 THEN store[<<j, y>>] - 1 ELSE 0
          BY <3>1, <3>2, <3>4, <2>1
      <4>2. store[<<j, y>>] = 1
          BY <3>3, <3>4, <1>7
      <4>. QED
          BY <4>1, <4>2, <3>4, <1>7
    <3>5. CASE ~ (j = k /\ y = val)
      <4>1. got[<<j, y>>] = store[<<j, y>>]
          BY <3>1, <3>2, <3>5, <2>1
      <4>. QED
          BY <4>1, <3>3, <3>5, <1>7
    <3>. QED
        BY <3>4, <3>5
  <2>. QED
      BY <2>2, <2>3, <2>4
<1>. QED
    BY <1>3, <1>8, <1>9, StorageEqual DEF store, gone

\* Adding a row to the view (apply.rs, sign +1): the query with it.
LEMMA AddGives ==
    ASSUME NEW v \in Views, NEW d \in Db, NEW t \in Rels[v], NEW k \in Keys, NEW x \in Vals,
           NEW rows, \A s \in Rels[v] \ {t} : rows[s] = d[s], d[t][k] = NoRow
    PROVE  AddRow(v, t, x, rows, k, Query(v, d)) = Query(v, Put(d, t, k, x))
<1>. DEFINE store == Query(v, d)
            with == Put(d, t, k, x)
            val == with[GroupTab[v]][k]
<1>1. /\ t \in Tables /\ GroupTab[v] \in Rels[v] /\ Rels[v] \subseteq Tables
      /\ x \in Cell /\ x # NoRow
    BY DataAssumption DEF Cell
<1>2. with \in Db /\ \A s \in Tables, j \in Keys :
        with[s][j] = IF s = t /\ j = k THEN x ELSE d[s][j]
    BY <1>1, PutIs
<1>3. store \in Storage /\ Query(v, with) \in Storage
    BY <1>2, QueryType
<1>4. GroupValue(v, t, x, rows, k) = val
    BY <1>1, <1>2 DEF GroupValue
<1>5. Contributes(v, t, rows, k) <=> \A s \in Rels[v] : with[s][k] # NoRow
    BY <1>1, <1>2 DEF Contributes, Joined
<1>6. \A j \in Keys, y \in Vals :
        /\ j # k => (Shows(v, with, j, y) <=> Shows(v, d, j, y))
        /\ ~ Shows(v, d, k, y)
        /\ Shows(v, with, k, y) <=> (Contributes(v, t, rows, k) /\ y = val)
    BY <1>1, <1>2, <1>5 DEF Shows
<1>. HIDE DEF store, with
<1>7. \A j \in Keys, y \in Vals :
        /\ store[<<j, y>>] = IF Shows(v, d, j, y) THEN 1 ELSE 0
        /\ Query(v, with)[<<j, y>>] = IF Shows(v, with, j, y) THEN 1 ELSE 0
    BY QueryAt DEF store
<1>. DEFINE got == AddRow(v, t, x, rows, k, store)
<1>8. got \in Storage
    BY <1>3, AddRowType
<1>9. ASSUME NEW j \in Keys, NEW y \in Vals
      PROVE  got[<<j, y>>] = Query(v, with)[<<j, y>>]
  <2>1. /\ <<j, y>> \in Groups
        /\ <<j, y>> = <<k, val>> <=> (j = k /\ y = val)
      BY DEF Groups
  <2>2. CASE ~ Contributes(v, t, rows, k)
    <3>1. got = store
        BY <2>2 DEF AddRow
    <3>. QED
        BY <3>1, <2>2, <1>6, <1>7
  <2>3. CASE Contributes(v, t, rows, k)
    <3>1. got = [store EXCEPT ![<<k, val>>] = @ + 1]
        BY <2>3, <1>4 DEF AddRow
    <3>2. store \in [Groups -> Nat]
        BY <1>3 DEF Storage
    <3>3. CASE j = k /\ y = val
      <4>1. got[<<j, y>>] = store[<<j, y>>] + 1
          BY <3>1, <3>2, <3>3, <2>1
      <4>. QED
          BY <4>1, <3>3, <2>3, <1>6, <1>7
    <3>4. CASE ~ (j = k /\ y = val)
      <4>1. got[<<j, y>>] = store[<<j, y>>]
          BY <3>1, <3>2, <3>4, <2>1
      <4>. QED
          BY <4>1, <3>4, <1>6, <1>7
    <3>. QED
        BY <3>3, <3>4
  <2>. QED
      BY <2>2, <2>3
<1>. QED
    BY <1>3, <1>8, <1>9, StorageEqual DEF store, with

\* A change of a table the view does not read.
LEMMA QueryElsewhere ==
    ASSUME NEW v \in Views, NEW d \in Db, NEW c \in Change, c.tab \notin Rels[v]
    PROVE  Query(v, After(d, c)) = Query(v, d)
<1>1. After(d, c) \in Db /\ \A s \in Rels[v] : After(d, c)[s] = d[s]
    BY AfterType, DataAssumption DEF After, Db
<1>2. GroupTab[v] \in Rels[v]
    BY DataAssumption
<1>. QED
    BY <1>1, <1>2, SameQuery DEF Shows

\* An update that leaves the row in place, of a table whose value the view does
\* not use (worker.rs touches_used_columns).
LEMMA QueryUntouched ==
    ASSUME NEW v \in Views, NEW d \in Db, NEW t \in Rels[v], NEW k \in Keys, NEW x \in Vals,
           d[t][k] # NoRow, GroupTab[v] # t
    PROVE  Query(v, Put(d, t, k, x)) = Query(v, d)
<1>1. /\ t \in Tables /\ GroupTab[v] \in Rels[v] /\ Rels[v] \subseteq Tables
      /\ x \in Cell /\ x # NoRow
    BY DataAssumption DEF Cell
<1>. DEFINE e == Put(d, t, k, x)
<1>2. e \in Db /\ \A s \in Tables, j \in Keys : e[s][j] = IF s = t /\ j = k THEN x ELSE d[s][j]
    BY <1>1, PutIs
<1>. HIDE DEF e
<1>3. \A j \in Keys, y \in Vals : Shows(v, d, j, y) <=> Shows(v, e, j, y)
    BY <1>1, <1>2 DEF Shows
<1>. QED
    BY <1>2, <1>3, SameQuery DEF e

-----------------------------------------------------------------------------
(* The log.                                                                *)

\* Every position names a database state.
LEMMA DbAtType ==
    ASSUME wal \in Seq(Transaction), NEW i \in Positions
    PROVE  DbAt(i) \in Db
<1>1. CASE i = 0
    BY <1>1, EmptyTypes DEF DbAt
<1>2. CASE i # 0
  <2>1. wal[i] \in Transaction
      BY <1>2 DEF Positions
  <2>. QED
      BY <2>1, <1>2 DEF DbAt, Transaction
<1>. QED
    BY <1>1, <1>2

\* What a commit does to the log: one transaction more, the others untouched.
WalGrows ==
    /\ wal' \in Seq(Transaction)
    /\ Flushed' = Flushed + 1
    /\ \A i \in Lsns : wal'[i] = wal[i]

\* Appending one well-typed transaction is such a step.
LEMMA AppendGrows ==
    ASSUME wal \in Seq(Transaction), NEW x \in Transaction, wal' = Append(wal, x)
    PROVE  WalGrows
BY DEF WalGrows, Flushed, Lsns

\* A writer's transaction (pgoutput::Transaction) is well typed, and grows the log.
LEMMA CommitTxGrows ==
    ASSUME TypeOK, CommitTx
    PROVE  WalGrows
<1>. DEFINE d(c) == After(CurrentDb, c)
<1>1. wal \in Seq(Transaction) /\ CurrentDb \in Db
    BY DbAtType DEF TypeOK, CurrentDb, Flushed, Positions
<1>2. PICK c \in Changes(CurrentDb, Truncates) :
         \/ wal' = Append(wal, [ch |-> <<c>>, db |-> d(c)])
         \/ \E e \in Changes(d(c), Truncates) :
                 wal' = Append(wal, [ch |-> <<c, e>>, db |-> After(d(c), e)])
    BY Zenon DEF CommitTx
<1>3. c \in Change /\ d(c) \in Db
    BY <1>1, WorkerAssumption, ChangesType, AfterType
<1>4. CASE wal' = Append(wal, [ch |-> <<c>>, db |-> d(c)])
  <2>1. [ch |-> <<c>>, db |-> d(c)] \in Transaction
      BY <1>3 DEF Transaction
  <2>. QED
      BY <2>1, <1>1, <1>4, AppendGrows
<1>5. ASSUME NEW e \in Changes(d(c), Truncates),
             wal' = Append(wal, [ch |-> <<c, e>>, db |-> After(d(c), e)])
      PROVE  WalGrows
  <2>1. e \in Change /\ After(d(c), e) \in Db
      BY <1>3, WorkerAssumption, ChangesType, AfterType
  <2>2. [ch |-> <<c, e>>, db |-> After(d(c), e)] \in Transaction
      BY <1>3, <2>1 DEF Transaction
  <2>. QED
      BY <2>2, <1>1, <1>5, AppendGrows
<1>. QED
    BY <1>2, <1>4, <1>5

\* WAL outside the published tables grows the log by an empty transaction.
LEMMA CommitNoiseGrows ==
    ASSUME TypeOK, CommitNoise
    PROVE  WalGrows
<1>1. wal \in Seq(Transaction) /\ CurrentDb \in Db
    BY DbAtType DEF TypeOK, CurrentDb, Flushed, Positions
<1>2. [ch |-> <<>>, db |-> CurrentDb] \in Transaction
    BY <1>1 DEF Transaction
<1>. QED
    BY <1>1, <1>2, AppendGrows DEF CommitNoise

\* A commit changes neither what is decoded up to an earlier position nor
\* which intervals up to it are clear.
LEMMA GrowthKeeps ==
    ASSUME TypeOK, WalGrows, slot' = slot, NEW to \in Nat, to <= Flushed
    PROVE  /\ Window(to)' = Window(to)
           /\ \A a \in Nat : Clear(a, to)' <=> Clear(a, to)
<1>1. Flushed \in Nat /\ Lsns = 1..Flushed /\ Lsns' = 1..(Flushed + 1)
    BY DEF TypeOK, Flushed, Lsns, WalGrows
<1>2. \A i \in Lsns : Decoded(i)' <=> Decoded(i)
    BY DEF Decoded, WalGrows
<1>3. \A i \in Lsns' : i <= to => i \in Lsns
    BY <1>1
<1>. QED
    BY <1>1, <1>2, <1>3 DEF Window, Clear

\* The transactions of a peek window are positions of the log.
LEMMA WindowIs ==
    ASSUME TypeOK, NEW to \in Nat
    PROVE  /\ Window(to) \in SUBSET Nat
           /\ \A i \in Window(to) : i \in Lsns /\ slot < i /\ i <= to /\ i <= Flushed
           /\ \A i \in Window(to) : wal[i] \in Transaction
BY DEF Window, Lsns, Flushed, TypeOK

\* Where the slot may go after a round is a position of the log.
LEMMA AdvanceToIs ==
    ASSUME TypeOK, Bounds, pc = "commit"
    PROVE  /\ AdvanceTo \in Nat /\ AdvanceTo <= upto
           /\ blockedAt # 0 /\ blockedAt \in Window(cur) =>
                AdvanceTo < blockedAt
<1>1. /\ cur \in Window(upto) /\ upto \in Nat /\ slot \in Nat /\ blockedAt \in Nat
      /\ slot < cur /\ cur <= upto /\ cur \in Nat
    BY WindowIs DEF TypeOK, Bounds
<1>2. CASE blockedAt = 0
    BY <1>1, <1>2 DEF AdvanceTo
<1>3. CASE blockedAt # 0 /\ Before(blockedAt) = {}
    BY <1>1, <1>3, WindowIs DEF AdvanceTo
<1>4. CASE blockedAt # 0 /\ Before(blockedAt) # {}
  <2>1. Before(blockedAt) \in SUBSET Nat /\ \A n \in Before(blockedAt) : n <= upto
      BY <1>1, WindowIs DEF Before
  <2>2. Greatest(Before(blockedAt)) \in Before(blockedAt)
      BY <1>1, <1>4, <2>1, GreatestIs
  <2>. QED
      BY <1>1, <1>4, <2>1, <2>2 DEF AdvanceTo, Before
<1>. QED
    BY <1>2, <1>3, <1>4

-----------------------------------------------------------------------------
(* Types and bounds are preserved: one lemma per part of the worker.       *)

\* Using up one more of a bound.
LEMMA UsedType ==
    ASSUME used \in Budget
    PROVE  /\ [used EXCEPT !.faults = @ + 1] \in Budget
           /\ [used EXCEPT !.shadowFaults = @ + 1] \in Budget
           /\ [used EXCEPT !.crashes = @ + 1] \in Budget
           /\ [used EXCEPT !.refreshes = @ + 1] \in Budget
<1>1. /\ used.faults + 1 \in Nat /\ used.shadowFaults + 1 \in Nat
      /\ used.crashes + 1 \in Nat /\ used.refreshes + 1 \in Nat
    BY DEF Budget
<1>. QED
    BY <1>1 DEF Budget

\* What the population leaves in a shadow is a shadow.
LEMMA ShadowAfterBuildType ==
    ASSUME TypeOK, Bounds, NEW t \in Tables
    PROVE  ShadowAfterBuild(t) \in ShadowTable
<1>1. DbAt(point) \in Db /\ point \in Nat /\ shadow[t] \in ShadowTable
    BY DbAtType DEF TypeOK, Bounds, Positions, Flushed
<1>2. DbAt(point)[t] \in TableRows
    BY <1>1 DEF Db
<1>. QED
    BY <1>1, <1>2 DEF ShadowAfterBuild, ShadowTable

\* Planning a change keeps a view's flags and its storage well typed.
LEMMA PlannedType ==
    ASSUME TypeOK, NEW v \in Views, NEW c
    PROVE  /\ Planned(v, c) \in Storage
           /\ \A b \in BOOLEAN : PlannedPhase(v, c, b) \in Phases
<1>1. plan[v] \in Storage /\ phase[v] \in Phases
    BY DEF TypeOK
<1>2. Removed(v, c) \in Storage
    BY <1>1, RemoveRowType DEF Removed
<1>3. Planned(v, c) \in Storage
    BY <1>1, <1>2, AddRowType DEF Planned
<1>. QED
    BY <1>1, <1>3 DEF PlannedPhase, Phases, Trying

\* The change applied to the shadow of its table.
LEMMA ShadowAppliedType ==
    ASSUME TypeOK, NEW c \in Change
    PROVE  ShadowApplied(c) \in TableRows
<1>1. c.tab \in Tables /\ c.key \in Keys /\ c.new \in Cell
    BY DEF Change
<1>2. lshadow[c.tab].rows \in TableRows
    BY <1>1 DEF TypeOK, ShadowTable
<1>. QED
    BY <1>1, <1>2 DEF ShadowApplied, TableRows

\* The first position of the log is reached by every log.
LEMMA ZeroIsReached ==
    ASSUME TypeOK
    PROVE  0 <= Flushed
BY DEF TypeOK, Flushed

\* The bounds hold as long as what they are about stays.
LEMMA BoundsStay ==
    ASSUME Bounds, UNCHANGED <<wal, slot, point, upto, advTo, pc, cur>>,
           pc' = "apply" => pos' >= 1
    PROVE  Bounds'
<1>1. Window(upto)' = Window(upto)
    BY DEF Window, Lsns, Decoded
<1>2. Flushed' = Flushed
    BY DEF Flushed
<1>. QED
    BY <1>1, <1>2 DEF Bounds

\* Clients: commits, create_view and refresh (api.rs).
LEMMA ClientsType ==
    ASSUME TypeOK, Bounds, Clients
    PROVE  TypeOK' /\ Bounds'
<1>1. ASSUME WalGrows,
             UNCHANGED <<slot, catalogVars, shadow, pc, buildVars, peekVars, roundVars, used>>
      PROVE  TypeOK' /\ Bounds'
  <2>1. Window(upto)' = Window(upto)
      BY <1>1, GrowthKeeps DEF TypeOK, Bounds, peekVars, Window, Lsns, Decoded
  <2>2. TypeOK'
      BY <1>1 DEF TypeOK, WalGrows, catalogVars, buildVars, peekVars, roundVars
  <2>3. UNCHANGED <<slot, point, upto, advTo, pc, cur, pos>>
      BY <1>1 DEF buildVars, peekVars, roundVars
  <2>4. Flushed \in Nat /\ Flushed' \in Nat /\ Flushed <= Flushed'
      BY <1>1 DEF TypeOK, WalGrows, Flushed
  <2>5. slot \in Nat /\ point \in Nat /\ upto \in Nat /\ advTo \in Nat
      BY DEF TypeOK
  <2>6. Bounds'
      BY <2>1, <2>3, <2>4, <2>5 DEF Bounds
  <2>. QED
      BY <2>2, <2>6
<1>2. CASE CommitTx
    BY <1>1, <1>2, CommitTxGrows DEF CommitTx
<1>3. CASE CommitNoise
    BY <1>1, <1>3, CommitNoiseGrows DEF CommitNoise
<1>4. ASSUME NEW v \in Views, CreateView(v) \/ Refresh(v)
      PROVE  TypeOK' /\ Bounds'
  <2>1. status' \in [Views -> Statuses]
      BY <1>4 DEF TypeOK, CreateView, Refresh, Statuses
  <2>2. used' \in Budget
      BY <1>4, UsedType DEF TypeOK, CreateView, Refresh
  <2>3. UNCHANGED <<wal, slot, populated, frontier, failures, epoch, storage, shadow,
                    pc, buildVars, peekVars, roundVars>>
      BY <1>4 DEF CreateView, Refresh
  <2>4. TypeOK'
      BY <2>1, <2>2, <2>3 DEF TypeOK, buildVars, peekVars, roundVars
  <2>. QED
      BY <2>3, <2>4 DEF Bounds, Window, Lsns, Decoded, Flushed, buildVars, peekVars, roundVars
<1>. QED
    BY <1>2, <1>3, <1>4 DEF Clients

\* The population of pending views (populate.rs).
LEMMA PopulationType ==
    ASSUME TypeOK, Bounds, LoadPending \/ BeginBuild \/ EndBuild \/ BuildFails \/ BuildsDone
    PROVE  TypeOK' /\ Bounds'
<1>1. CASE LoadPending
    BY <1>1 DEF LoadPending, TypeOK, Bounds, Steps, Window, Lsns, Decoded, Flushed,
                catalogVars, buildVars, peekVars, roundVars
<1>2. CASE BeginBuild
  <2>1. NextGroup \subseteq Views /\ Flushed \in Nat
      BY DEF NextGroup, Reach, TypeOK, Flushed
  <2>2. /\ UNCHANGED <<wal, slot, status, populated, frontier, failures, epoch, storage, shadow,
                       upto, drained, advTo, cur, pos, blockedAt, phase, lfrontier, lfailures,
                       draft, plan, lshadow, used>>
        /\ grp' = NextGroup /\ todo' = todo \ NextGroup /\ point' = Flushed /\ pc' = "building"
      BY <1>2 DEF BeginBuild, ConsistentPoint, catalogVars, peekVars, roundVars
  <2>3. TypeOK'
      BY <2>1, <2>2 DEF TypeOK, Steps
  <2>4. Bounds'
      BY <2>1, <2>2 DEF Bounds, Flushed
  <2>. QED
      BY <2>3, <2>4
<1>3. CASE BuildsDone
    BY <1>3 DEF BuildsDone, TypeOK, Bounds, Steps, Window, Lsns, Decoded, Flushed,
                catalogVars, buildVars, peekVars, roundVars
<1>4. CASE EndBuild
  <2>1. DbAt(point) \in Db /\ point \in Nat
      BY DbAtType DEF TypeOK, Bounds, Positions, Flushed
  <2>2. /\ shadow' \in [Tables -> ShadowTable]
        /\ storage' \in [Views -> Storage]
      BY <1>4, <2>1, ShadowAfterBuildType, QueryType DEF EndBuild, TypeOK
  <2>3. /\ frontier' \in [Views -> Nat] /\ epoch' \in [Views -> Nat]
        /\ status' \in [Views -> Statuses] /\ populated' \in [Views -> BOOLEAN]
        /\ failures' \in [Views -> Nat]
      BY <1>4, <2>1 DEF EndBuild, TypeOK, Statuses
  <2>4. UNCHANGED <<wal, slot, todo, peekVars, roundVars, used>>
        /\ pc' = "build" /\ grp' = {} /\ point' = 0
      BY <1>4 DEF EndBuild
  <2>. QED
      BY <2>2, <2>3, <2>4 DEF TypeOK, Bounds, Steps, Flushed, peekVars, roundVars
<1>5. CASE BuildFails
  <2>1. status' \in [Views -> Statuses]
      BY <1>5 DEF BuildFails, StatusAfterFailure, TypeOK, Statuses
  <2>3. used' \in Budget
      BY <1>5, UsedType DEF BuildFails, TypeOK
  <2>2. UNCHANGED <<wal, slot, populated, frontier, failures, epoch, storage, shadow,
                    todo, peekVars, roundVars>>
        /\ pc' = "build" /\ grp' = {} /\ point' = 0
      BY <1>5 DEF BuildFails
  <2>4. TypeOK'
      BY <2>1, <2>2, <2>3 DEF TypeOK, Steps, peekVars, roundVars
  <2>. QED
      BY <2>2, <2>4 DEF Bounds, Flushed, TypeOK, peekVars, roundVars
<1>. QED
    BY <1>1, <1>2, <1>3, <1>4, <1>5

\* A nonempty window has a first transaction.
LEMMA FirstOfWindow ==
    ASSUME TypeOK, NEW to \in Nat, NEW W \in SUBSET Window(to), W # {}
    PROVE  Least(W) \in W /\ Least(W) \in Window(to) /\ \A n \in W : Least(W) <= n
<1>1. W \in SUBSET Nat
    BY WindowIs
<1>. QED
    BY <1>1, LeastIs

\* The peek: the current transaction is the first of the window (run_round).
LEMMA PeekType ==
    ASSUME TypeOK, Bounds, Peek
    PROVE  TypeOK' /\ Bounds'
<1>1. PICK to \in Positions, all \in BOOLEAN :
        /\ upto' = to /\ drained' = all
        /\ IF Window(to) = {}
           THEN pc' = "idle" /\ UNCHANGED roundVars
           ELSE /\ pc' = "apply"
                /\ cur' = Least(Window(to)) /\ pos' = 1 /\ blockedAt' = 0
                /\ phase' = [v \in Views |-> IF status[v] = "live" THEN "on" ELSE "out"]
                /\ lfrontier' = frontier /\ lfailures' = failures
                /\ draft' = storage /\ plan' = storage
                /\ lshadow' = shadow
    BY DEF Peek
<1>2. UNCHANGED <<wal, slot, catalogVars, shadow, buildVars, advTo, used>>
    BY DEF Peek
<1>3. to \in Nat /\ to <= Flushed
    BY DEF Positions, Flushed, TypeOK
<1>4. Window(to)' = Window(to)
    BY <1>2 DEF Window, Lsns, Decoded
<1>5. CASE Window(to) = {}
    BY <1>1, <1>2, <1>3, <1>5 DEF TypeOK, Bounds, Steps, Flushed, catalogVars, buildVars,
                                  roundVars
<1>6. CASE Window(to) # {}
  <2>1. cur' \in Window(to) /\ cur' \in Nat
      BY <1>1, <1>3, <1>6, FirstOfWindow, WindowIs
  <2>2. phase' \in [Views -> Phases]
      BY <1>1, <1>6 DEF Phases, Trying
  <2>3. TypeOK'
      BY <1>1, <1>2, <1>3, <1>6, <2>1, <2>2 DEF TypeOK, Steps, catalogVars, buildVars
  <2>4. Bounds'
      BY <1>1, <1>2, <1>3, <1>4, <1>6, <2>1 DEF Bounds, Flushed, buildVars
  <2>. QED
      BY <2>3, <2>4
<1>. QED
    BY <1>5, <1>6

\* Phase 1 of apply_round.
LEMMA PlanChangeType ==
    ASSUME TypeOK, Bounds, PlanChange
    PROVE  TypeOK' /\ Bounds'
<1>. DEFINE c == wal[cur].ch[pos]
            lost(fault) == ShadowActive(c.tab) /\ (fault \/ ShadowApplyFails(c))
<1>1. /\ pc = "apply" /\ pos' = pos + 1
      /\ UNCHANGED <<wal, slot, catalogVars, shadow, pc, buildVars, peekVars,
                     cur, blockedAt, lfrontier, lfailures, draft>>
    BY DEF PlanChange
<1>2. c \in Change
  <2>1. cur \in Window(upto) /\ upto \in Nat
      BY <1>1 DEF Bounds, TypeOK
  <2>2. wal[cur] \in Transaction
      BY <2>1, WindowIs
  <2>3. wal[cur].ch \in Seq(Change)
      BY <2>2 DEF Transaction
  <2>4. pos \in Nat /\ pos >= 1 /\ pos <= Len(wal[cur].ch)
      BY <1>1 DEF PlanChange, Bounds, TypeOK
  <2>. QED
      BY <2>3, <2>4
<1>3. PICK fault \in BOOLEAN :
        /\ used' = IF fault THEN [used EXCEPT !.shadowFaults = @ + 1] ELSE used
        /\ phase' = [v \in Views |-> PlannedPhase(v, c, lost(fault))]
        /\ plan' = [v \in Views |->
                      IF ActiveFor(v, c.tab) /\ ~GoesStale(v, c) /\ ~PlanFails(v, c)
                      THEN Planned(v, c) ELSE plan[v]]
        /\ lshadow' =
             IF ~ShadowActive(c.tab) THEN lshadow
             ELSE IF lost(fault) THEN [lshadow EXCEPT ![c.tab].failed = TRUE]
             ELSE [lshadow EXCEPT ![c.tab].rows = ShadowApplied(c)]
    BY Zenon DEF PlanChange
<1>4. used' \in Budget
    BY <1>3, UsedType DEF TypeOK
<1>5. phase' \in [Views -> Phases]
  <2>1. lost(fault) \in BOOLEAN
      BY DEF ShadowActive
  <2>. QED
      BY <1>3, <2>1, PlannedType, Zenon
<1>6. plan' \in [Views -> Storage]
  <2>1. \A v \in Views : plan[v] \in Storage /\ Planned(v, c) \in Storage
      BY PlannedType DEF TypeOK
  <2>. QED
      BY <1>3, <2>1
<1>7. lshadow' \in [Tables -> ShadowTable]
  <2>1. c.tab \in Tables /\ ShadowApplied(c) \in TableRows
      BY <1>2, ShadowAppliedType DEF Change
  <2>2. lshadow \in [Tables -> ShadowTable]
      BY DEF TypeOK
  <2>3. /\ [lshadow[c.tab] EXCEPT !.failed = TRUE] \in ShadowTable
        /\ [lshadow[c.tab] EXCEPT !.rows = ShadowApplied(c)] \in ShadowTable
      BY <2>1, <2>2 DEF ShadowTable
  <2>4. /\ [lshadow EXCEPT ![c.tab].failed = TRUE] \in [Tables -> ShadowTable]
        /\ [lshadow EXCEPT ![c.tab].rows = ShadowApplied(c)] \in [Tables -> ShadowTable]
      BY <2>1, <2>2, <2>3
  <2>. QED
      BY <1>3, <2>2, <2>4
<1>8. TypeOK'
    BY <1>1, <1>4, <1>5, <1>6, <1>7 DEF TypeOK, catalogVars, buildVars, peekVars
<1>. QED
    BY <1>1, <1>8, BoundsStay DEF TypeOK, buildVars, peekVars

\* Phase 2 of apply_round: the next current transaction is in the window again.
LEMMA ExecTxType ==
    ASSUME TypeOK, Bounds, ExecTx
    PROVE  TypeOK' /\ Bounds'
<1>. DEFINE rest == {i \in Window(upto) : i > cur}
            failing(tr) == {v \in Views : ExecFails(v, tr)}
            held(tr) == \E v \in failing(tr) : FailedPhase(v) = "blocked"
<1>1. /\ pc = "apply" /\ UNCHANGED <<wal, slot, catalogVars, shadow, buildVars, peekVars>>
    BY DEF ExecTx
<1>2. cur \in Window(upto) /\ cur \in Nat /\ upto \in Nat
    BY <1>1, WindowIs DEF Bounds, TypeOK
<1>3. PICK tr \in SUBSET {v \in Flaky : Absorbing(v) /\ phase[v] = "on"} :
        /\ used' = IF tr = {} THEN used ELSE [used EXCEPT !.faults = @ + 1]
        /\ lfrontier' = [v \in Views |-> IF Absorbs(v, tr) THEN cur ELSE lfrontier[v]]
        /\ draft' = [v \in Views |-> IF Absorbs(v, tr) THEN plan[v] ELSE draft[v]]
        /\ plan' = [v \in Views |-> IF Absorbing(v) THEN draft'[v] ELSE plan[v]]
        /\ lfailures' = [v \in Views |-> IF v \in failing(tr) THEN lfailures[v] + 1
                                         ELSE lfailures[v]]
        /\ phase' = [v \in Views |->
                       IF v \in failing(tr) THEN FailedPhase(v)
                       ELSE IF Absorbing(v) /\ phase[v] = "stale" THEN "marked"
                       ELSE phase[v]]
        /\ blockedAt' = IF blockedAt = 0 /\ held(tr) THEN cur ELSE blockedAt
        /\ lshadow' = [t \in Tables |-> ShadowAfterTx(t)]
        /\ IF rest = {}
           THEN pc' = "commit" /\ UNCHANGED <<cur, pos>>
           ELSE cur' = Least(rest) /\ pos' = 1 /\ UNCHANGED pc
    BY Zenon DEF ExecTx
<1>4. used' \in Budget
    BY <1>3, UsedType DEF TypeOK
<1>5. /\ lfrontier' \in [Views -> Nat] /\ draft' \in [Views -> Storage]
      /\ plan' \in [Views -> Storage] /\ lfailures' \in [Views -> Nat]
      /\ blockedAt' \in Nat
  <2>. USE DEF TypeOK
  <2>1. draft' \in [Views -> Storage]
      BY <1>3
  <2>2. plan' \in [Views -> Storage]
      BY <1>3, <2>1
  <2>3. lfailures' \in [Views -> Nat]
    <3>1. \A v \in Views : lfailures[v] \in Nat /\ lfailures[v] + 1 \in Nat
        OBVIOUS
    <3>. QED
        BY <1>3, <3>1
  <2>4. lfrontier' \in [Views -> Nat] /\ blockedAt' \in Nat
      BY <1>2, <1>3
  <2>. QED
      BY <2>1, <2>2, <2>3, <2>4
<1>6. phase' \in [Views -> Phases]
  <2>1. \A v \in Views : phase[v] \in Phases /\ FailedPhase(v) \in Phases /\ "marked" \in Phases
      BY DEF TypeOK, FailedPhase, Phases, Trying
  <2>. QED
      BY <1>3, <2>1
<1>7. lshadow' \in [Tables -> ShadowTable]
  <2>1. \A t \in Tables : lshadow[t] \in ShadowTable
      BY DEF TypeOK
  <2>2. \A t \in Tables : [lshadow[t] EXCEPT !.frontier = cur] \in ShadowTable
      BY <1>2, <2>1 DEF ShadowTable
  <2>. QED
      BY <1>3, <2>1, <2>2 DEF ShadowAfterTx
<1>8. cur' \in Window(upto) /\ cur' \in Nat /\ pos' \in Nat /\ pc' \in {"apply", "commit"}
      /\ (pc' = "apply" => pos' >= 1)
  <2>1. CASE rest = {}
      BY <1>1, <1>2, <1>3, <2>1 DEF TypeOK
  <2>2. CASE rest # {}
    <3>1. rest \in SUBSET Window(upto)
        OBVIOUS
    <3>2. Least(rest) \in Window(upto) /\ Least(rest) \in Nat
        BY <1>2, <2>2, <3>1, FirstOfWindow, WindowIs
    <3>. QED
        BY <1>1, <1>3, <2>2, <3>2
  <2>. QED
      BY <2>1, <2>2
<1>9. TypeOK'
    BY <1>1, <1>4, <1>5, <1>6, <1>7, <1>8 DEF TypeOK, Steps, catalogVars, buildVars, peekVars
<1>. QED
    BY <1>1, <1>8, <1>9 DEF Bounds, Window, Lsns, Decoded, Flushed, buildVars, peekVars

\* The round's scratch state, emptied.
LEMMA EndRoundType ==
    ASSUME EndRound
    PROVE  /\ cur' = 0 /\ pos' = 0 /\ blockedAt' = 0
           /\ phase' \in [Views -> Phases] /\ lfrontier' \in [Views -> Nat]
           /\ lfailures' \in [Views -> Nat] /\ draft' \in [Views -> Storage]
           /\ plan' \in [Views -> Storage] /\ lshadow' \in [Tables -> ShadowTable]
<1>1. NoShadow \in ShadowTable
    BY EmptyTypes DEF NoShadow, ShadowTable
<1>. QED
    BY <1>1, EmptyTypes DEF EndRound, Phases, Trying

\* The catalog updates that end apply_round.
LEMMA CommitRoundType ==
    ASSUME TypeOK, Bounds, CommitRound
    PROVE  TypeOK' /\ Bounds'
<1>1. /\ pc' = "advance" /\ shadow' = lshadow /\ advTo' = AdvanceTo
      /\ drained' = (drained /\ blockedAt = 0) /\ EndRound
      /\ UNCHANGED <<wal, slot, populated, epoch, buildVars, upto, used>>
    BY DEF CommitRound
<1>2. AdvanceTo \in Nat /\ AdvanceTo <= upto
    BY AdvanceToIs DEF CommitRound
<1>3. /\ status' \in [Views -> Statuses] /\ frontier' \in [Views -> Nat]
      /\ storage' \in [Views -> Storage] /\ failures' \in [Views -> Nat]
    BY DEF CommitRound, TypeOK, FailuresAfter, Statuses
<1>4. TypeOK'
    BY <1>1, <1>2, <1>3, EndRoundType DEF TypeOK, Steps, buildVars
<1>5. upto \in Nat /\ Flushed \in Nat
    BY DEF TypeOK, Flushed
<1>. QED
    BY <1>1, <1>2, <1>4, <1>5 DEF Bounds, Flushed, buildVars

\* The slot advance and the idle advance.
LEMMA AdvanceType ==
    ASSUME TypeOK, Bounds, PeekNothing \/ AdvanceSlot \/ IdleSlot \/ IdleCommit
    PROVE  TypeOK' /\ Bounds'
<1>1. CASE PeekNothing
    BY <1>1 DEF PeekNothing, TypeOK, Bounds, Steps, Flushed, catalogVars, buildVars, peekVars,
                roundVars
<1>2. CASE AdvanceSlot
  <2>3. /\ slot \in Nat /\ slot <= Flushed /\ upto \in Nat /\ upto <= Flushed
        /\ advTo \in Nat /\ advTo <= Flushed /\ drained \in BOOLEAN /\ Flushed \in Nat
      BY DEF TypeOK, Bounds, Flushed
  <2>1. /\ slot' \in Nat /\ slot' <= Flushed /\ pc' \in {"idle", "poll"}
        /\ upto' \in Nat /\ upto' <= Flushed /\ advTo' \in Nat /\ advTo' <= Flushed
        /\ drained' \in BOOLEAN
    <3>1. slot' \in Nat /\ slot' <= Flushed
        BY <1>2, <2>3 DEF AdvanceSlot, Later
    <3>2. CASE drained
        BY <1>2, <2>3, <3>1, <3>2 DEF AdvanceSlot, peekVars
    <3>3. CASE ~drained
      <4>1. pc' = "poll" /\ upto' = 0 /\ drained' = FALSE /\ advTo' = 0
          BY <1>2, <3>3, Zenon DEF AdvanceSlot, ForgetPeek
      <4>2. drained' \in BOOLEAN
          BY <4>1
      <4>. QED
          BY <4>1, <4>2, <2>3, <3>1
    <3>. QED
        BY <3>1, <3>2, <3>3
  <2>2. UNCHANGED <<wal, catalogVars, shadow, buildVars, roundVars, used>>
      BY <1>2 DEF AdvanceSlot
  <2>. QED
      BY <2>1, <2>2 DEF TypeOK, Bounds, Steps, Flushed, catalogVars, buildVars, roundVars
<1>3. CASE IdleSlot
    BY <1>3 DEF IdleSlot, Later, TypeOK, Bounds, Steps, Flushed, catalogVars, buildVars,
                peekVars, roundVars
<1>4. CASE IdleCommit
  <2>0. shadow \in [Tables -> ShadowTable] /\ upto \in Nat
      BY DEF TypeOK
  <2>1. \A t \in Tables : [shadow[t] EXCEPT !.frontier = upto] \in ShadowTable
      BY <2>0 DEF ShadowTable
  <2>2. shadow' \in [Tables -> ShadowTable] /\ frontier' \in [Views -> Nat]
      BY <1>4, <2>1 DEF IdleCommit, TypeOK
  <2>3. /\ pc' = "poll" /\ upto' = 0 /\ drained' = FALSE /\ advTo' = 0
        /\ UNCHANGED <<wal, slot, status, populated, failures, epoch, storage, buildVars,
                       roundVars, used>>
      BY <1>4 DEF IdleCommit, ForgetPeek
  <2>4. TypeOK'
      BY <2>2, <2>3 DEF TypeOK, Steps, buildVars, roundVars
  <2>5. Bounds'
      BY <2>3, ZeroIsReached DEF Bounds, Flushed, buildVars
  <2>. QED
      BY <2>4, <2>5
<1>. QED
    BY <1>1, <1>2, <1>3, <1>4

\* An aborted round.
LEMMA AbortType ==
    ASSUME TypeOK, Bounds, Abort
    PROVE  TypeOK' /\ Bounds'
<1>1. /\ slot' \in 0..slot /\ pc' = "poll" /\ todo' = {} /\ grp' = {} /\ point' = 0
      /\ upto' = 0 /\ drained' = FALSE /\ advTo' = 0 /\ EndRound
      /\ UNCHANGED <<wal, catalogVars, shadow>>
    BY DEF Abort, ForgetPeek
<1>2. used' \in Budget
    BY UsedType DEF Abort, TypeOK
<1>3. TypeOK'
  <2>1. /\ cur' \in Nat /\ pos' \in Nat /\ blockedAt' \in Nat
        /\ phase' \in [Views -> Phases] /\ lfrontier' \in [Views -> Nat]
        /\ lfailures' \in [Views -> Nat] /\ draft' \in [Views -> Storage]
        /\ plan' \in [Views -> Storage] /\ lshadow' \in [Tables -> ShadowTable]
      BY <1>1, EndRoundType
  <2>2. slot' \in Nat
      BY <1>1 DEF TypeOK
  <2>. QED
      BY <1>1, <1>2, <2>1, <2>2 DEF TypeOK, Steps, catalogVars
<1>4. slot \in Nat /\ Flushed \in Nat /\ slot <= Flushed
    BY DEF TypeOK, Bounds, Flushed
<1>. QED
    BY <1>1, <1>3, <1>4 DEF Bounds, Flushed

\* Every step keeps types and bounds.
LEMMA StepType ==
    ASSUME TypeOK, Bounds, [Next]_vars
    PROVE  TypeOK' /\ Bounds'
<1>1. CASE UNCHANGED vars
    BY <1>1 DEF vars, TypeOK, Bounds, Window, Lsns, Decoded, Flushed, catalogVars, buildVars,
                peekVars, roundVars
<1>2. CASE Next
    BY <1>2, ClientsType, PopulationType, PeekType, PlanChangeType, ExecTxType,
       CommitRoundType, AdvanceType, AbortType DEF Next, WorkerStep
<1>. QED
    BY <1>1, <1>2

\* The initial state has them.
LEMMA InitType ==
    ASSUME Init
    PROVE  TypeOK /\ Bounds
<1>1. NoShadow \in ShadowTable
    BY EmptyTypes DEF NoShadow, ShadowTable
<1>2. wal \in Seq(Transaction) /\ Len(wal) = 0
    BY DEF Init
<1>3. /\ status \in [Views -> Statuses] /\ populated \in [Views -> BOOLEAN]
      /\ frontier \in [Views -> Nat] /\ failures \in [Views -> Nat]
      /\ epoch \in [Views -> Nat] /\ storage \in [Views -> Storage]
      /\ shadow \in [Tables -> ShadowTable]
    BY <1>1, EmptyTypes DEF Init, Statuses
<1>4. /\ phase \in [Views -> Phases] /\ lfrontier \in [Views -> Nat]
      /\ lfailures \in [Views -> Nat] /\ draft \in [Views -> Storage]
      /\ plan \in [Views -> Storage] /\ lshadow \in [Tables -> ShadowTable]
    BY <1>1, EmptyTypes DEF Init, Phases, Trying
<1>5. used \in Budget
    BY DEF Init, Budget
<1>6. /\ slot = 0 /\ pc = "poll" /\ todo = {} /\ grp = {} /\ point = 0
      /\ upto = 0 /\ advTo = 0 /\ cur = 0 /\ pos = 0 /\ blockedAt = 0
    BY DEF Init
<1>7. drained \in BOOLEAN
    BY DEF Init
<1>8. TypeOK
    BY <1>2, <1>3, <1>4, <1>5, <1>6, <1>7 DEF TypeOK, Steps
<1>. QED
    BY <1>2, <1>6, <1>8 DEF Bounds, Flushed

\* Every value the worker, the catalog and the slot take has its type, and
\* every position lies in the log, in every execution (worker.rs, bootstrap.sql).
THEOREM TypeCorrect == Spec => []TypeOK
<1>1. Init => TypeOK /\ Bounds
    BY InitType
<1>2. TypeOK /\ Bounds /\ [Next]_vars => TypeOK' /\ Bounds'
    BY StepType
<1>. QED
    BY <1>1, <1>2, PTL DEF Spec

-----------------------------------------------------------------------------
(* The slot never passes what a live view has still to absorb.             *)

\* What is clear stays clear in a smaller interval.
LEMMA ClearWithin ==
    ASSUME NEW a \in Nat, NEW b \in Int, Clear(a, b),
           NEW c \in Nat, NEW d \in Int, a <= c, d <= b, wal \in Seq(Transaction)
    PROVE  Clear(c, d)
BY DEF Clear, Lsns

\* Whatever happens to the log, what is known of an old transaction stays.
LEMMA OldTransactions ==
    ASSUME TypeOK, UNCHANGED wal \/ WalGrows
    PROVE  /\ Flushed \in Nat /\ Lsns = 1..Flushed
           /\ \A i \in Lsns' : i \in Nat /\ (i <= Flushed => i \in Lsns)
           /\ \A i \in Lsns : Decoded(i)' <=> Decoded(i)
<1>1. Flushed \in Nat /\ Lsns = 1..Flushed
    BY DEF TypeOK, Flushed, Lsns
<1>2. \A i \in Lsns : wal'[i] = wal[i]
    BY DEF WalGrows
<1>. QED
    BY <1>1, <1>2 DEF Flushed, Lsns, Decoded, WalGrows

\* Clients: a commit lies after everything the worker has peeked, and neither
\* create_view nor refresh makes a view live.
LEMMA ClientsSafe ==
    ASSUME SlotInv, Clients
    PROVE  Covered' /\ RoundSafe' /\ AdvanceSafe'
<1>. USE DEF SlotInv
<1>1. /\ UNCHANGED <<slot, frontier, pc, cur, blockedAt, phase, lfrontier, upto, advTo, drained>>
      /\ \A v \in Views : status'[v] = "live" => status[v] = "live"
    BY DEF Clients, CommitTx, CommitNoise, CreateView, Refresh, TypeOK, catalogVars, peekVars,
           roundVars
<1>2. UNCHANGED wal \/ WalGrows
    BY CommitTxGrows, CommitNoiseGrows DEF Clients, CreateView, Refresh
<1>3. ASSUME NEW b \in Int, b <= Flushed, NEW a \in Nat, Clear(a, b)
      PROVE  Clear(a, b)'
  <2>1. \A i \in Lsns' : i <= b => i \in Lsns /\ (Decoded(i)' <=> Decoded(i))
      BY <1>2, <1>3, OldTransactions
  <2>. QED
      BY <1>3, <2>1 DEF Clear
<1>4. /\ slot \in Nat /\ upto \in Nat /\ advTo \in Nat /\ cur \in Nat /\ blockedAt \in Nat
      /\ Flushed \in Nat /\ slot <= Flushed /\ upto <= Flushed /\ advTo <= Flushed
      /\ \A v \in Views : frontier[v] \in Nat /\ lfrontier[v] \in Nat
    BY DEF TypeOK, Bounds, Flushed
<1>5. Covered'
    BY <1>1, <1>3, <1>4 DEF Covered
<1>6. RoundSafe'
  <2>. SUFFICES ASSUME pc \in {"apply", "commit"}
                PROVE  RoundSafe'
      BY <1>1 DEF RoundSafe
  <2>1. cur \in Window(upto) /\ cur <= upto
      BY <1>4, WindowIs DEF Bounds
  <2>2. blockedAt \in Window(cur) => blockedAt <= cur /\ blockedAt \in Window(cur)'
    <3>1. Window(cur)' = Window(cur)
        BY <1>1, <1>2, <1>4, <2>1, GrowthKeeps DEF Window, Lsns, Decoded
    <3>. QED
        BY <3>1, <1>4, WindowIs
  <2>. QED
      BY <1>1, <1>3, <1>4, <2>1, <2>2 DEF RoundSafe
<1>7. AdvanceSafe'
    BY <1>1, <1>3, <1>4 DEF AdvanceSafe
<1>. QED
    BY <1>5, <1>6, <1>7

\* Population: a view becomes live at a consistent point the slot has not
\* passed (build checks this before it commits).
LEMMA PopulationSafe ==
    ASSUME SlotInv, LoadPending \/ BeginBuild \/ EndBuild \/ BuildFails \/ BuildsDone
    PROVE  Covered' /\ RoundSafe' /\ AdvanceSafe'
<1>. USE DEF SlotInv
<1>1. pc' \in {"build", "building", "peek"} /\ UNCHANGED <<wal, slot>>
    BY DEF LoadPending, BeginBuild, EndBuild, BuildFails, BuildsDone
<1>2. RoundSafe' /\ AdvanceSafe'
    BY <1>1 DEF RoundSafe, AdvanceSafe
<1>3. ASSUME NEW v \in Views, status'[v] = "live"
      PROVE  \/ status[v] = "live" /\ frontier'[v] = frontier[v]
             \/ frontier'[v] >= slot
  <2>1. CASE EndBuild
    <3>1. slot <= point
        BY <2>1 DEF EndBuild
    <3>2. CASE v \in grp
        BY <2>1, <3>1, <3>2 DEF EndBuild, TypeOK
    <3>3. CASE v \notin grp
        BY <1>3, <2>1, <3>3 DEF EndBuild, TypeOK
    <3>. QED
        BY <3>2, <3>3
  <2>2. CASE BuildFails
      BY <1>3, <2>2 DEF BuildFails, StatusAfterFailure, TypeOK
  <2>3. CASE LoadPending \/ BeginBuild \/ BuildsDone
      BY <1>3, <2>3 DEF LoadPending, BeginBuild, BuildsDone, catalogVars
  <2>. QED
      BY <2>1, <2>2, <2>3
<1>4. Covered'
  <2>. SUFFICES ASSUME NEW v \in Views, status'[v] = "live", NEW i \in Lsns,
                       frontier'[v] < i, i <= slot
                PROVE  ~ Decoded(i)
      BY <1>1 DEF Covered, Clear, Lsns, Decoded
  <2>1. TypeOK'
      BY StepType DEF Next, WorkerStep
  <2>2. frontier'[v] \in Nat /\ slot \in Nat /\ i \in Nat
      BY <2>1 DEF TypeOK, Lsns
  <2>. QED
      BY <1>3, <2>2 DEF Covered, Clear
<1>. QED
    BY <1>2, <1>4

\* The peek: everything between a live view's frontier and the first peeked
\* transaction is clear, because the slot has confirmed nothing beyond it.
LEMMA PeekSafe ==
    ASSUME SlotInv, Peek
    PROVE  Covered' /\ RoundSafe' /\ AdvanceSafe'
<1>. USE DEF SlotInv
<1>1. PICK to \in Positions :
        /\ upto' = to
        /\ IF Window(to) = {}
           THEN pc' = "idle" /\ UNCHANGED roundVars
           ELSE /\ pc' = "apply"
                /\ cur' = Least(Window(to)) /\ pos' = 1 /\ blockedAt' = 0
                /\ phase' = [v \in Views |-> IF status[v] = "live" THEN "on" ELSE "out"]
                /\ lfrontier' = frontier
    BY DEF Peek
<1>2. UNCHANGED <<wal, slot, status, frontier>>
    BY DEF Peek, catalogVars
<1>3. to \in Nat /\ slot \in Nat /\ \A v \in Views : frontier[v] \in Nat
    BY DEF Positions, TypeOK
<1>4. Covered'
    BY <1>2 DEF Covered, Clear, Lsns, Decoded
<1>5. ASSUME NEW v \in Views, status[v] = "live", NEW i \in Lsns, frontier[v] < i, i <= to,
             Decoded(i)
      PROVE  i \in Window(to)
  <2>1. i \in Nat
      BY DEF Lsns
  <2>2. ~ (i <= slot)
      BY <1>5 DEF Covered, Clear
  <2>. QED
      BY <1>3, <1>5, <2>1, <2>2 DEF Window
<1>6. CASE Window(to) = {}
  <2>1. pc' = "idle" /\ upto' = to
      BY <1>1, <1>6
  <2>2. \A v \in Views : status[v] = "live" => Clear(frontier[v], to)
      BY <1>5, <1>6 DEF Clear
  <2>3. RoundSafe'
      BY <2>1 DEF RoundSafe
  <2>4. AdvanceSafe'
      BY <1>2, <2>1, <2>2 DEF AdvanceSafe, Clear, Lsns, Decoded
  <2>. QED
      BY <1>4, <2>3, <2>4
<1>7. CASE Window(to) # {}
  <2>1. /\ cur' \in Window(to) /\ cur' \in Nat
        /\ \A n \in Window(to) : cur' <= n /\ n \in Nat
      BY <1>1, <1>3, <1>7, FirstOfWindow, WindowIs
  <2>2. cur' <= to
      BY <1>3, <2>1, WindowIs
  <2>3. ASSUME NEW v \in Views, status[v] = "live", NEW i \in Lsns, frontier[v] < i, i <= cur' - 1
        PROVE  ~ Decoded(i)
    <3>1. i \in Nat
        BY DEF Lsns
    <3>2. i <= to /\ ~ (cur' <= i)
        BY <1>3, <2>1, <2>2, <2>3, <3>1
    <3>. QED
        BY <1>5, <2>1, <2>3, <3>2
  <2>4. pc' = "apply" /\ blockedAt' = 0 /\ lfrontier' = frontier
        /\ \A v \in Views : phase'[v] = IF status[v] = "live" THEN "on" ELSE "out"
      BY <1>1, <1>7
  <2>5. RoundSafe'
      BY <1>2, <1>3, <2>3, <2>4 DEF RoundSafe, Clear, Lsns, Decoded, Trying
  <2>. QED
      BY <1>4, <2>4, <2>5 DEF AdvanceSafe
<1>. QED
    BY <1>6, <1>7, <1>4

\* Planning a change moves views between the flags of one round, never out of
\* it or back into it, and moves no frontier.
LEMMA PlanChangeSafe ==
    ASSUME SlotInv, PlanChange
    PROVE  Covered' /\ RoundSafe' /\ AdvanceSafe'
<1>. USE DEF SlotInv
<1>1. /\ pc = "apply" /\ UNCHANGED <<wal, slot, status, frontier, pc, upto, cur, blockedAt,
                                     lfrontier>>
    BY DEF PlanChange, catalogVars, peekVars
<1>. DEFINE c == wal[cur].ch[pos]
            lost(fault) == ShadowActive(c.tab) /\ (fault \/ ShadowApplyFails(c))
<1>2. PICK fault \in BOOLEAN : phase' = [v \in Views |-> PlannedPhase(v, c, lost(fault))]
    BY Zenon DEF PlanChange
<1>3. ASSUME NEW v \in Views
      PROVE  \/ phase'[v] = phase[v]
             \/ /\ phase[v] \in Trying
                /\ phase'[v] \in Trying
    BY <1>2 DEF PlannedPhase, DependsOn, ActiveFor, Trying
<1>4. Covered' /\ AdvanceSafe'
    BY <1>1 DEF Covered, AdvanceSafe, Clear, Lsns, Decoded
<1>5. RoundSafe'
    BY <1>1, <1>3 DEF RoundSafe, Clear, Lsns, Decoded, Window, Trying
<1>. QED
    BY <1>4, <1>5

\* The transaction after the current one: nothing is decoded in between, and
\* after the last one nothing is left of the peek.
NextStop == IF pc' = "apply" THEN cur' - 1 ELSE upto

LEMMA NextCurrent ==
    ASSUME TypeOK, Bounds, ExecTx
    PROVE  /\ pc = "apply" /\ pc' \in {"apply", "commit"} /\ UNCHANGED <<wal, slot, upto>>
           /\ cur' \in Nat /\ cur <= cur' /\ (pc' = "apply" => pos' = 1 /\ cur < cur')
           /\ NextStop \in Nat /\ cur <= NextStop /\ NextStop <= upto /\ Clear(cur, NextStop)
<1>. DEFINE rest == {i \in Window(upto) : i > cur}
            upNext == IF rest = {} THEN upto ELSE Least(rest) - 1
<1>1. pc = "apply" /\ UNCHANGED <<wal, slot, upto>>
    BY DEF ExecTx, peekVars
<1>2. IF rest = {}
      THEN pc' = "commit" /\ UNCHANGED <<cur, pos>>
      ELSE cur' = Least(rest) /\ pos' = 1 /\ UNCHANGED pc
    BY Zenon DEF ExecTx
<1>3. /\ cur \in Window(upto) /\ cur \in Nat /\ upto \in Nat /\ slot \in Nat
      /\ slot < cur /\ cur <= upto
    BY <1>1, WindowIs DEF Bounds, TypeOK
<1>4. /\ upNext \in Nat /\ cur <= upNext /\ upNext <= upto /\ Clear(cur, upNext)
      /\ rest # {} => Least(rest) \in Nat /\ cur < Least(rest)
  <2>1. CASE rest = {}
    <3>1. \A i \in Lsns : cur < i /\ i <= upto => ~ Decoded(i)
        BY <1>3, <2>1 DEF Window, Lsns
    <3>. QED
        BY <1>3, <2>1, <3>1 DEF Clear
  <2>2. CASE rest # {}
    <3>1. rest \in SUBSET Window(upto)
        OBVIOUS
    <3>2. /\ Least(rest) \in rest /\ Least(rest) \in Window(upto)
          /\ \A n \in rest : Least(rest) <= n
        BY <1>3, <2>2, <3>1, FirstOfWindow
    <3>3. Least(rest) \in Nat /\ Least(rest) <= upto /\ cur < Least(rest)
        BY <1>3, <3>2, WindowIs
    <3>4. ASSUME NEW i \in Lsns, cur < i, i <= Least(rest) - 1
          PROVE  ~ Decoded(i)
      <4>1. i \in Nat /\ slot < i /\ i <= upto /\ ~ (Least(rest) <= i)
          BY <1>3, <3>3, <3>4 DEF Lsns
      <4>. QED
          BY <3>2, <3>4, <4>1 DEF Window
    <3>. QED
        BY <1>3, <2>2, <3>3, <3>4 DEF Clear
  <2>. QED
      BY <2>1, <2>2
<1>5. CASE rest = {}
    BY <1>1, <1>2, <1>3, <1>4, <1>5 DEF NextStop
<1>6. CASE rest # {}
    BY <1>1, <1>2, <1>3, <1>4, <1>6 DEF NextStop
<1>. QED
    BY <1>5, <1>6

\* Executing a transaction: a view that absorbs it has absorbed everything up
\* to the next one; a view to be retried holds the slot before this one.
LEMMA ExecTxSafe ==
    ASSUME SlotInv, ExecTx
    PROVE  Covered' /\ RoundSafe' /\ AdvanceSafe'
<1>. USE DEF SlotInv
<1>. DEFINE failing(tr) == {v \in Views : ExecFails(v, tr)}
            held(tr) == \E v \in failing(tr) : FailedPhase(v) = "blocked"
            upNext == NextStop
<1>1. /\ pc = "apply" /\ UNCHANGED <<wal, slot, status, frontier, upto>>
    BY DEF ExecTx, catalogVars, peekVars
<1>2. PICK tr :
        /\ lfrontier' = [v \in Views |-> IF Absorbs(v, tr) THEN cur ELSE lfrontier[v]]
        /\ phase' = [v \in Views |->
                       IF v \in failing(tr) THEN FailedPhase(v)
                       ELSE IF Absorbing(v) /\ phase[v] = "stale" THEN "marked"
                       ELSE phase[v]]
        /\ blockedAt' = IF blockedAt = 0 /\ held(tr) THEN cur ELSE blockedAt
    BY Zenon DEF ExecTx
<1>3. /\ cur \in Window(upto) /\ cur \in Nat /\ upto \in Nat /\ slot \in Nat /\ blockedAt \in Nat
      /\ slot < cur /\ cur <= upto
      /\ \A v \in Views : frontier[v] \in Nat /\ lfrontier[v] \in Nat
    BY <1>1, WindowIs DEF Bounds, TypeOK
<1>4. /\ upNext \in Nat /\ cur <= upNext /\ upNext <= upto /\ Clear(cur, upNext)
      /\ pc' \in {"apply", "commit"} /\ cur' \in Nat /\ cur <= cur'
    BY NextCurrent
<1>5. (IF pc' = "apply" THEN cur' - 1 ELSE upto) = upNext
    BY DEF NextStop
<1>6. /\ blockedAt = 0 \/ blockedAt \in Window(cur)
      /\ \A v \in Views :
            /\ status[v] = "live" => phase[v] # "out"
            /\ phase[v] # "out" => lfrontier[v] >= frontier[v]
            /\ phase[v] \in Trying => Clear(lfrontier[v], cur - 1)
            /\ phase[v] = "blocked" => blockedAt # 0 /\ Clear(lfrontier[v], blockedAt - 1)
    BY <1>1 DEF RoundSafe
<1>7. blockedAt' = 0 \/ (blockedAt' \in Window(cur) /\ blockedAt' <= cur /\ blockedAt' \in Nat)
  <2>1. cur \in Window(cur)
      BY <1>3 DEF Window
  <2>. QED
      BY <1>2, <1>3, <1>6, <2>1, WindowIs
<1>8. blockedAt # 0 => blockedAt' = blockedAt
    BY <1>2
<1>9. ASSUME NEW v \in Views
      PROVE  /\ status[v] = "live" => phase'[v] # "out"
             /\ phase'[v] # "out" => lfrontier'[v] >= frontier[v]
             /\ phase'[v] \in Trying => Clear(lfrontier'[v], upNext)
             /\ phase'[v] = "blocked" => blockedAt' # 0 /\ Clear(lfrontier'[v], blockedAt' - 1)
  <2>1. /\ phase'[v] = IF ExecFails(v, tr) THEN FailedPhase(v)
                       ELSE IF Absorbing(v) /\ phase[v] = "stale" THEN "marked"
                       ELSE phase[v]
        /\ lfrontier'[v] = IF Absorbs(v, tr) THEN cur ELSE lfrontier[v]
      BY <1>2
  <2>2. CASE ExecFails(v, tr)
    <3>1. /\ phase'[v] = FailedPhase(v) /\ FailedPhase(v) \in {"gaveup", "blocked"}
          /\ phase[v] \in Trying /\ lfrontier'[v] = lfrontier[v]
        BY <2>1, <2>2 DEF ExecFails, Absorbs, Absorbing, FailedPhase
    <3>2. FailedPhase(v) = "blocked" => blockedAt' # 0
        BY <1>2, <1>3, <2>2
    <3>3. Clear(lfrontier[v], cur - 1)
        BY <1>6, <3>1
    <3>4. blockedAt' # 0 => Clear(lfrontier[v], blockedAt' - 1)
        BY <1>3, <1>7, <3>3, ClearWithin DEF TypeOK
    <3>. QED
        BY <1>6, <3>1, <3>2, <3>4 DEF Trying
  <2>3. CASE Absorbs(v, tr)
    <3>1. phase[v] = "on" /\ ~ ExecFails(v, tr) /\ cur > lfrontier[v]
        BY <2>3 DEF Absorbs, Absorbing, ExecFails
    <3>. QED
        BY <1>3, <1>4, <1>6, <2>1, <2>3, <3>1
  <2>4. CASE ~ ExecFails(v, tr) /\ ~ Absorbs(v, tr)
    <3>1. lfrontier'[v] = lfrontier[v]
        BY <2>1, <2>4
    <3>2. CASE Absorbing(v) /\ phase[v] = "stale"
        BY <1>6, <2>1, <2>4, <3>1, <3>2 DEF Trying
    <3>3. CASE ~ (Absorbing(v) /\ phase[v] = "stale")
      <4>1. phase'[v] = phase[v]
          BY <2>1, <2>4, <3>3
      <4>2. ASSUME phase[v] \in Trying
            PROVE  Clear(lfrontier[v], upNext)
        <5>1. cur <= lfrontier[v]
            BY <1>3, <2>4, <3>3, <4>2 DEF ExecFails, Absorbs, Absorbing, Trying
        <5>. QED
            BY <1>3, <1>4, <5>1, ClearWithin DEF TypeOK
      <4>. QED
          BY <1>6, <1>8, <3>1, <4>1, <4>2
    <3>. QED
        BY <3>2, <3>3
  <2>. QED
      BY <2>2, <2>3, <2>4
<1>10. \A i \in Lsns' : i \in Lsns /\ (Decoded(i)' <=> Decoded(i))
    BY <1>1 DEF Lsns, Decoded
<1>11. RoundSafe'
  <2>1. blockedAt' = 0 \/ (blockedAt \in Window(cur))'
      BY <1>1, <1>3, <1>4, <1>7 DEF Window, Lsns, Decoded
  <2>2. ASSUME NEW v \in Views
        PROVE  (/\ status[v] = "live" => phase[v] # "out"
                /\ phase[v] # "out" => lfrontier[v] >= frontier[v]
                /\ phase[v] \in Trying =>
                     Clear(lfrontier[v], IF pc = "apply" THEN cur - 1 ELSE upto)
                /\ phase[v] = "blocked" =>
                     blockedAt # 0 /\ Clear(lfrontier[v], blockedAt - 1))'
    <3>1. (phase[v] # "out" => lfrontier[v] >= frontier[v])'
        BY <1>1, <1>9
    <3>2. (IF pc = "apply" THEN cur - 1 ELSE upto)' = upNext
        BY <1>1, <1>5
    <3>3. phase'[v] \in Trying =>
             Clear(lfrontier[v], IF pc = "apply" THEN cur - 1 ELSE upto)'
        BY <1>9, <1>10, <3>2 DEF Clear
    <3>4. phase'[v] = "blocked" => blockedAt' # 0 /\ Clear(lfrontier[v], blockedAt - 1)'
        BY <1>9, <1>10 DEF Clear
    <3>. QED
        BY <1>1, <1>9, <3>1, <3>3, <3>4
  <2>. QED
      BY <2>1, <2>2 DEF RoundSafe
<1>12. Covered' /\ AdvanceSafe'
    BY <1>1, <1>4 DEF Covered, AdvanceSafe, Clear, Lsns, Decoded
<1>. QED
    BY <1>11, <1>12

\* The round's commit: what the slot may skip afterwards, every view that
\* stays live has absorbed.
LEMMA CommitRoundSafe ==
    ASSUME SlotInv, CommitRound
    PROVE  Covered' /\ RoundSafe' /\ AdvanceSafe'
<1>. USE DEF SlotInv
<1>1. /\ pc = "commit" /\ pc' = "advance" /\ advTo' = AdvanceTo
      /\ drained' = (drained /\ blockedAt = 0)
      /\ UNCHANGED <<wal, slot, upto>>
    BY DEF CommitRound
<1>2. /\ cur \in Nat /\ upto \in Nat /\ slot \in Nat /\ blockedAt \in Nat /\ AdvanceTo \in Nat
      /\ AdvanceTo <= upto
      /\ blockedAt # 0 => AdvanceTo <= blockedAt - 1
      /\ \A v \in Views : frontier[v] \in Nat /\ lfrontier[v] \in Nat
    BY <1>1, AdvanceToIs DEF TypeOK, RoundSafe
<1>3. ASSUME NEW v \in Views, status'[v] = "live"
      PROVE  /\ status[v] = "live" /\ phase[v] \in Trying \cup {"blocked"}
             /\ frontier'[v] = lfrontier[v] /\ lfrontier[v] >= frontier[v]
  <2>1. status[v] = "live" /\ ~ GaveUp(v)
      BY <1>3 DEF CommitRound, TypeOK
  <2>2. phase[v] # "out" /\ phase[v] \in Phases
      BY <1>1, <2>1 DEF RoundSafe, TypeOK
  <2>. QED
      BY <1>1, <2>1, <2>2 DEF CommitRound, Loaded, GaveUp, Phases, Trying, RoundSafe
<1>4. ASSUME NEW v \in Views, status'[v] = "live"
      PROVE  /\ Clear(frontier'[v], slot) /\ Clear(frontier'[v], AdvanceTo)
             /\ drained' => Clear(frontier'[v], upto)
  <2>1. Clear(lfrontier[v], slot)
    <3>1. Clear(frontier[v], slot) /\ lfrontier[v] >= frontier[v]
        BY <1>3, <1>4 DEF Covered
    <3>2. wal \in Seq(Transaction) /\ frontier[v] \in Nat /\ lfrontier[v] \in Nat /\ slot \in Nat
        BY DEF TypeOK
    <3>. QED
        BY <3>1, <3>2, ClearWithin
  <2>2. CASE phase[v] = "blocked"
    <3>1. blockedAt # 0 /\ Clear(lfrontier[v], blockedAt - 1)
        BY <1>1, <2>2 DEF RoundSafe
    <3>2. Clear(lfrontier[v], AdvanceTo)
        BY <1>2, <3>1, ClearWithin DEF TypeOK
    <3>. QED
        BY <1>1, <1>3, <1>4, <2>1, <3>1, <3>2
  <2>3. CASE phase[v] \in Trying
    <3>1. Clear(lfrontier[v], upto)
        BY <1>1, <2>3 DEF RoundSafe
    <3>2. Clear(lfrontier[v], AdvanceTo)
        BY <1>2, <3>1, ClearWithin DEF TypeOK
    <3>. QED
        BY <1>3, <1>4, <2>1, <3>1, <3>2
  <2>. QED
      BY <1>3, <1>4, <2>2, <2>3
<1>5. \A i \in Lsns' : i \in Lsns /\ (Decoded(i)' <=> Decoded(i))
    BY <1>1 DEF Lsns, Decoded
<1>6. Covered'
    BY <1>1, <1>4, <1>5 DEF Covered, Clear
<1>7. AdvanceSafe'
    BY <1>1, <1>4, <1>5 DEF AdvanceSafe, Clear
<1>8. RoundSafe'
    BY <1>1 DEF RoundSafe
<1>. QED
    BY <1>6, <1>7, <1>8

\* The slot moves, only forward, to where the committed round or the drained
\* peek allows; the idle advance then moves the frontiers forward.
LEMMA AdvanceSlotSafe ==
    ASSUME SlotInv, PeekNothing \/ AdvanceSlot \/ IdleSlot \/ IdleCommit
    PROVE  Covered' /\ RoundSafe' /\ AdvanceSafe'
<1>. USE DEF SlotInv
<1>1. UNCHANGED <<wal, status>> /\ pc' \in {"poll", "idle", "idleCommit"}
    BY DEF PeekNothing, AdvanceSlot, IdleSlot, IdleCommit, catalogVars
<1>2. RoundSafe'
    BY <1>1 DEF RoundSafe
<1>3. \A i \in Lsns' : i \in Lsns /\ (Decoded(i)' <=> Decoded(i))
    BY <1>1 DEF Lsns, Decoded
<1>4. CASE PeekNothing
  <2>1. pc' = "poll" /\ UNCHANGED <<slot, frontier>>
      BY <1>4 DEF PeekNothing, catalogVars
  <2>2. Covered'
      BY <1>1, <1>3, <2>1 DEF Covered, Clear
  <2>. QED
      BY <1>2, <2>1, <2>2 DEF AdvanceSafe
<1>5. CASE AdvanceSlot
  <2>1. UNCHANGED frontier /\ (slot' = slot \/ slot' = advTo) /\ pc = "advance"
      BY <1>5 DEF AdvanceSlot, Later, catalogVars
  <2>2. Covered'
      BY <1>1, <1>3, <2>1 DEF Covered, AdvanceSafe, Clear
  <2>3. pc' = "poll" \/ (drained /\ upto' = upto /\ pc' = "idle")
      BY <1>5 DEF AdvanceSlot, peekVars
  <2>4. AdvanceSafe'
      BY <1>1, <1>3, <2>1, <2>3 DEF AdvanceSafe, Clear
  <2>. QED
      BY <1>2, <2>2, <2>4
<1>6. CASE IdleSlot
  <2>1. UNCHANGED <<frontier, upto>> /\ (slot' = slot \/ slot' = upto) /\ pc = "idle"
        /\ pc' = "idleCommit"
      BY <1>6 DEF IdleSlot, Later, catalogVars, peekVars
  <2>. QED
      BY <1>1, <1>2, <1>3, <2>1 DEF Covered, AdvanceSafe, Clear
<1>7. CASE IdleCommit
  <2>1. pc' = "poll" /\ UNCHANGED slot /\ upto \in Nat
        /\ \A v \in Views : frontier'[v] \in Nat /\ frontier[v] \in Nat /\ frontier'[v] >= frontier[v]
      BY <1>7 DEF IdleCommit, IdleAdvances, TypeOK
  <2>2. \A v \in Views : status[v] = "live" => Clear(frontier'[v], slot)
      BY <2>1, ClearWithin DEF Covered, TypeOK
  <2>3. Covered'
      BY <1>1, <1>3, <2>1, <2>2 DEF Covered, Clear
  <2>. QED
      BY <1>2, <2>1, <2>3 DEF AdvanceSafe
<1>. QED
    BY <1>4, <1>5, <1>6, <1>7, <1>2

\* An abort may take the slot back, never forward.
LEMMA AbortSafe ==
    ASSUME SlotInv, Abort
    PROVE  Covered' /\ RoundSafe' /\ AdvanceSafe'
<1>. USE DEF SlotInv
<1>1. /\ pc' = "poll" /\ UNCHANGED <<wal, status, frontier>> /\ slot' \in 0..slot
      /\ slot \in Nat /\ \A v \in Views : frontier[v] \in Nat
    BY DEF Abort, catalogVars, TypeOK
<1>2. \A v \in Views : status[v] = "live" => Clear(frontier[v], slot')
    BY <1>1, ClearWithin DEF Covered, TypeOK
<1>3. Covered'
    BY <1>1, <1>2 DEF Covered, Clear, Lsns, Decoded
<1>. QED
    BY <1>1, <1>3 DEF RoundSafe, AdvanceSafe

\* The inductive invariant holds in every execution: at every step of a round,
\* and across aborts, the slot is behind what every live view has absorbed.
THEOREM SlotInvariant == Spec => []SlotInv
<1>1. ASSUME Init PROVE SlotInv
  <2>1. TypeOK /\ Bounds
      BY <1>1, InitType
  <2>2. pc = "poll" /\ \A v \in Views : status[v] = "absent"
      BY <1>1 DEF Init
  <2>. QED
      BY <2>1, <2>2 DEF SlotInv, Covered, RoundSafe, AdvanceSafe
<1>2. ASSUME SlotInv, [Next]_vars PROVE SlotInv'
  <2>1. TypeOK' /\ Bounds'
      BY <1>2, StepType DEF SlotInv
  <2>2. Covered' /\ RoundSafe' /\ AdvanceSafe'
    <3>1. CASE Clients
        BY <1>2, <3>1, ClientsSafe
    <3>2. CASE LoadPending \/ BeginBuild \/ EndBuild \/ BuildFails \/ BuildsDone
        BY <1>2, <3>2, PopulationSafe
    <3>3. CASE Peek
        BY <1>2, <3>3, PeekSafe
    <3>4. CASE PlanChange
        BY <1>2, <3>4, PlanChangeSafe
    <3>5. CASE ExecTx
        BY <1>2, <3>5, ExecTxSafe
    <3>6. CASE CommitRound
        BY <1>2, <3>6, CommitRoundSafe
    <3>7. CASE PeekNothing \/ AdvanceSlot \/ IdleSlot \/ IdleCommit
        BY <1>2, <3>7, AdvanceSlotSafe
    <3>8. CASE Abort
        BY <1>2, <3>8, AbortSafe
    <3>9. CASE UNCHANGED vars
        BY <1>2, <3>9 DEF vars, SlotInv, Covered, RoundSafe, AdvanceSafe, Clear, Window, Lsns,
                          Decoded, catalogVars, buildVars, peekVars, roundVars
    <3>. QED
        BY <1>2, <3>1, <3>2, <3>3, <3>4, <3>5, <3>6, <3>7, <3>8, <3>9 DEF Next, WorkerStep
  <2>. QED
      BY <2>1, <2>2 DEF SlotInv
<1>. QED
    BY <1>1, <1>2, PTL DEF Spec

\* No change is lost (worker.rs run_round and idle_advance): the slot never
\* moves past a transaction that touches a live view and lies above the view's
\* frontier.
THEOREM NothingLost == Spec => []NoLoss
<1>1. ASSUME SlotInv PROVE NoLoss
  <2>. SUFFICES ASSUME NEW v \in Views, NEW i \in Lsns, status[v] = "live",
                       frontier[v] < i, i <= slot, Touches(i, v)
                PROVE  FALSE
      BY DEF NoLoss
  <2>1. ~ Decoded(i)
      BY <1>1 DEF SlotInv, Covered, Clear
  <2>. QED
      BY <2>1 DEF Decoded, Touches
<1>. QED
    BY SlotInvariant, <1>1, PTL

-----------------------------------------------------------------------------
(* The log and its states.                                                 *)

\* A transaction of the log.
LEMMA TransactionAt ==
    ASSUME TypeOK, NEW i \in Lsns
    PROVE  /\ i \in Nat /\ i >= 1 /\ i <= Flushed /\ i - 1 \in Nat /\ Flushed \in Nat
           /\ wal[i].ch \in Seq(Change) /\ Len(wal[i].ch) \in Nat /\ wal[i].db \in Db
           /\ DOMAIN wal[i].ch = 1..Len(wal[i].ch)
<1>1. wal \in Seq(Transaction) /\ i \in 1..Len(wal)
    BY DEF TypeOK, Lsns
<1>2. wal[i] \in Transaction
    BY <1>1
<1>3. wal[i].ch \in Seq(Change) /\ wal[i].db \in Db
    BY <1>2 DEF Transaction
<1>. QED
    BY <1>1, <1>3 DEF Flushed

\* What the log said it still says after any step.
LEMMA PastIsFixed ==
    ASSUME TypeOK, UNCHANGED wal \/ WalGrows
    PROVE  /\ Flushed \in Nat /\ Flushed' \in Nat /\ Flushed <= Flushed'
           /\ \A i \in Nat : i <= Flushed => DbAt(i)' = DbAt(i)
           /\ \A i \in Lsns, j \in Nat : StateBefore(i, j)' = StateBefore(i, j)
           /\ \A a \in Nat, b \in Int : b <= Flushed /\ Clear(a, b) => Clear(a, b)'
<1>1. /\ Flushed \in Nat /\ Flushed' \in Nat /\ Flushed <= Flushed' /\ Lsns = 1..Flushed
      /\ Lsns' = 1..(Flushed')
      /\ \A i \in Lsns : wal'[i] = wal[i]
    BY DEF TypeOK, Flushed, WalGrows, Lsns
<1>2. \A i \in Nat : i <= Flushed => DbAt(i)' = DbAt(i)
    BY <1>1 DEF DbAt
<1>3. ASSUME NEW i \in Lsns, NEW j \in Nat
      PROVE  StateBefore(i, j)' = StateBefore(i, j)
  <2>1. i - 1 \in Nat /\ i - 1 <= Flushed /\ wal'[i] = wal[i]
      BY <1>1
  <2>2. DbAt(i - 1)' = DbAt(i - 1)
      BY <2>1, <1>2
  <2>. QED
      BY <2>1, <2>2 DEF StateBefore
<1>4. ASSUME NEW a \in Nat, NEW b \in Int, b <= Flushed, Clear(a, b)
      PROVE  Clear(a, b)'
    BY <1>1, <1>4 DEF Clear, Decoded
<1>. QED
    BY <1>1, <1>2, <1>3, <1>4

\* The states within a transaction are database states.
LEMMA StateBeforeType ==
    ASSUME TypeOK, NEW i \in Lsns, NEW j \in Nat, j >= 1
    PROVE  StateBefore(i, j) \in Db
<1>1. wal \in Seq(Transaction) /\ i - 1 \in Positions /\ wal[i] \in Transaction
    BY DEF TypeOK, Lsns, Positions
<1>2. wal[i].ch \in Seq(Change) /\ wal[i].db \in Db /\ DbAt(i - 1) \in Db
    BY <1>1, DbAtType DEF Transaction
<1>3. CASE j > Len(wal[i].ch)
    BY <1>2, <1>3 DEF StateBefore
<1>4. CASE j <= Len(wal[i].ch)
  <2>1. wal[i].ch[1] \in Change
      BY <1>2, <1>4
  <2>. QED
      BY <1>2, <1>4, <2>1, AfterType DEF StateBefore
<1>. QED
    BY <1>2, <1>3, <1>4

\* A transaction starts in the state before it and ends in the one it commits.
LEMMA StateBeforeEnds ==
    ASSUME TypeOK, HistoryFits, NEW i \in Lsns
    PROVE  /\ StateBefore(i, 1) = DbAt(i - 1)
           /\ \A j \in Nat : j > Len(wal[i].ch) => StateBefore(i, j) = DbAt(i)
<1>1. i # 0 /\ wal[i].ch \in Seq(Change) /\ Len(wal[i].ch) \in Nat
    BY TransactionAt
<1>2. Len(wal[i].ch) = 0 => wal[i].db = DbAt(i - 1)
    BY <1>1 DEF HistoryFits, Decoded
<1>3. StateBefore(i, 1) = DbAt(i - 1)
    BY <1>1, <1>2 DEF StateBefore
<1>. QED
    BY <1>1, <1>3 DEF StateBefore, DbAt

\* Where nothing is decoded the committed state does not change.
LEMMA ClearKeepsDb ==
    ASSUME TypeOK, HistoryFits, NEW a \in Nat, NEW b \in Nat, a <= b, b <= Flushed, Clear(a, b)
    PROVE  DbAt(b) = DbAt(a)
<1>. DEFINE S == {i \in Nat : a <= i /\ i <= b /\ DbAt(i) # DbAt(a)}
<1>. SUFFICES ASSUME S # {} PROVE FALSE
    OBVIOUS
<1>1. Least(S) \in S /\ \A n \in S : Least(S) <= n
    BY LeastIs
<1>. DEFINE m == Least(S)
<1>. HIDE DEF m
<1>2. /\ m \in Nat /\ a <= m /\ m <= b /\ DbAt(m) # DbAt(a)
      /\ \A n \in S : m <= n
    BY <1>1 DEF m
<1>3. m - 1 \in Nat /\ a <= m - 1 /\ m \in Lsns
    BY <1>2 DEF Lsns, Flushed, TypeOK
<1>4. DbAt(m - 1) = DbAt(a)
    BY <1>2, <1>3
<1>5. ~ Decoded(m)
    BY <1>2, <1>3 DEF Clear
<1>. QED
    BY <1>2, <1>3, <1>4, <1>5 DEF HistoryFits, DbAt

\* A writer's transaction fits the log it is appended to.
LEMMA AppendFits ==
    ASSUME TypeOK, HistoryFits, NEW x \in Transaction, wal' = Append(wal, x),
           \/ x = [ch |-> <<>>, db |-> CurrentDb]
           \/ \E c \in Changes(CurrentDb, Truncates) :
                \/ x = [ch |-> <<c>>, db |-> After(CurrentDb, c)]
                \/ \E e \in Changes(After(CurrentDb, c), Truncates) :
                    x = [ch |-> <<c, e>>, db |-> After(After(CurrentDb, c), e)]
    PROVE  HistoryFits'
<1>0. PICK n \in Nat : n = Flushed + 1
    BY DEF TypeOK, Flushed
<1>1. /\ Flushed \in Nat /\ Lsns = 1..Flushed /\ Lsns' = 1..n /\ Flushed' = n
      /\ \A i \in Lsns : wal'[i] = wal[i]
      /\ wal'[n] = x /\ n \in Lsns' /\ wal' \in Seq(Transaction)
    BY <1>0 DEF TypeOK, Flushed, Lsns
<1>2. WalGrows
    BY <1>0, <1>1 DEF WalGrows
<1>3. /\ \A i \in Nat : i <= Flushed => DbAt(i)' = DbAt(i)
      /\ \A i \in Lsns, j \in Nat : StateBefore(i, j)' = StateBefore(i, j)
    BY <1>2, PastIsFixed
<1>4. DbAt(n - 1)' = CurrentDb
    BY <1>0, <1>1, <1>3 DEF CurrentDb
<1>. DEFINE Fits(i) ==
        /\ ~Decoded(i) => wal[i].db = DbAt(i - 1)
        /\ \A j \in DOMAIN wal[i].ch :
            /\ wal[i].ch[j] \in Changes(StateBefore(i, j), Truncates)
            /\ StateBefore(i, j + 1) = After(StateBefore(i, j), wal[i].ch[j])
<1>5. ASSUME NEW i \in Lsns
      PROVE  Fits(i)'
  <2>0. i - 1 \in Nat /\ i - 1 <= Flushed
      BY TransactionAt
  <2>1. wal'[i] = wal[i] /\ i - 1 \in Nat /\ i - 1 <= Flushed
      BY <1>1, <2>0
  <2>2. DbAt(i - 1)' = DbAt(i - 1) /\ (Decoded(i)' <=> Decoded(i))
      BY <2>1, <1>3 DEF Decoded
  <2>3. \A j \in DOMAIN wal[i].ch : j \in Nat /\ j + 1 \in Nat
    <3>1. \A j \in DOMAIN wal[i].ch : j \in Nat
        BY TransactionAt
    <3>. QED
        BY <3>1
  <2>4. \A j \in DOMAIN wal[i].ch :
          StateBefore(i, j)' = StateBefore(i, j) /\ StateBefore(i, j + 1)' = StateBefore(i, j + 1)
      BY <2>3, <1>3
  <2>5. Fits(i)
      BY DEF HistoryFits
  <2>. QED
      BY <2>1, <2>2, <2>4, <2>5
<1>6. Fits(n)'
  <2>1. CASE x = [ch |-> <<>>, db |-> CurrentDb]
    <3>1. wal'[n].ch = <<>> /\ wal'[n].db = CurrentDb /\ DOMAIN wal'[n].ch = {}
        BY <1>1, <2>1
    <3>. QED
        BY <3>1, <1>4
  <2>2. ASSUME NEW c \in Changes(CurrentDb, Truncates),
               x = [ch |-> <<c>>, db |-> After(CurrentDb, c)]
        PROVE  Fits(n)'
    <3>1. wal'[n].ch = <<c>> /\ wal'[n].db = After(CurrentDb, c)
        BY <1>1, <2>2
    <3>2. StateBefore(n, 1)' = CurrentDb /\ StateBefore(n, 2)' = After(CurrentDb, c)
        BY <3>1, <1>4 DEF StateBefore
    <3>3. Decoded(n)'
        BY <3>1 DEF Decoded
    <3>4. DOMAIN wal'[n].ch = {1} /\ wal'[n].ch[1] = c /\ 1 + 1 = 2
        BY <3>1
    <3>. QED
        BY <2>2, <3>2, <3>3, <3>4
  <2>3. ASSUME NEW c \in Changes(CurrentDb, Truncates),
               NEW e \in Changes(After(CurrentDb, c), Truncates),
               x = [ch |-> <<c, e>>, db |-> After(After(CurrentDb, c), e)]
        PROVE  Fits(n)'
    <3>1. wal'[n].ch = <<c, e>> /\ wal'[n].db = After(After(CurrentDb, c), e)
        BY <1>1, <2>3
    <3>2. /\ StateBefore(n, 1)' = CurrentDb
          /\ StateBefore(n, 2)' = After(CurrentDb, c)
          /\ StateBefore(n, 3)' = After(After(CurrentDb, c), e)
        BY <3>1, <1>4 DEF StateBefore
    <3>3. Decoded(n)'
        BY <3>1 DEF Decoded
    <3>4. /\ DOMAIN wal'[n].ch = {1, 2} /\ wal'[n].ch[1] = c /\ wal'[n].ch[2] = e
          /\ 1 + 1 = 2 /\ 2 + 1 = 3
        BY <3>1
    <3>. QED
        BY <2>3, <3>2, <3>3, <3>4
  <2>. QED
      BY <2>1, <2>2, <2>3
<1>7. \A i \in Lsns' : i \in Lsns \/ i = n
    BY <1>0, <1>1
<1>. QED
    BY <1>5, <1>6, <1>7 DEF HistoryFits

\* Only writers touch the log.
LEMMA LogOnlyGrows ==
    ASSUME TypeOK, [Next]_vars
    PROVE  UNCHANGED wal \/ WalGrows
BY CommitTxGrows, CommitNoiseGrows
   DEF Next, Clients, CreateView, Refresh, WorkerStep, LoadPending, BeginBuild, EndBuild,
       BuildFails, BuildsDone, Peek, PeekNothing, PlanChange, ExecTx, CommitRound, AdvanceSlot,
       IdleSlot, IdleCommit, Abort, vars

\* Every step keeps the log consistent.
LEMMA HistoryStep ==
    ASSUME TypeOK, HistoryFits, [Next]_vars
    PROVE  HistoryFits'
<1>1. CASE UNCHANGED wal
    BY <1>1 DEF HistoryFits, Lsns, Decoded, StateBefore, DbAt
<1>2. CASE CommitTx
  <2>. DEFINE d(c) == After(CurrentDb, c)
  <2>1. wal \in Seq(Transaction) /\ CurrentDb \in Db
      BY DbAtType DEF TypeOK, CurrentDb, Flushed, Positions
  <2>2. PICK c \in Changes(CurrentDb, Truncates) :
           \/ wal' = Append(wal, [ch |-> <<c>>, db |-> d(c)])
           \/ \E e \in Changes(d(c), Truncates) :
                   wal' = Append(wal, [ch |-> <<c, e>>, db |-> After(d(c), e)])
      BY <1>2, Zenon DEF CommitTx
  <2>3. c \in Change /\ d(c) \in Db
      BY <2>1, WorkerAssumption, ChangesType, AfterType
  <2>4. CASE wal' = Append(wal, [ch |-> <<c>>, db |-> d(c)])
    <3>1. [ch |-> <<c>>, db |-> d(c)] \in Transaction
        BY <2>3 DEF Transaction
    <3>. QED
        BY <2>4, <3>1, AppendFits
  <2>5. ASSUME NEW e \in Changes(d(c), Truncates),
               wal' = Append(wal, [ch |-> <<c, e>>, db |-> After(d(c), e)])
        PROVE  HistoryFits'
    <3>1. e \in Change /\ After(d(c), e) \in Db
        BY <2>3, WorkerAssumption, ChangesType, AfterType
    <3>2. [ch |-> <<c, e>>, db |-> After(d(c), e)] \in Transaction
        BY <2>3, <3>1 DEF Transaction
    <3>. QED
        BY <2>5, <3>2, AppendFits
  <2>. QED
      BY <2>2, <2>4, <2>5
<1>3. CASE CommitNoise
  <2>1. wal \in Seq(Transaction) /\ CurrentDb \in Db
      BY DbAtType DEF TypeOK, CurrentDb, Flushed, Positions
  <2>2. [ch |-> <<>>, db |-> CurrentDb] \in Transaction
      BY <2>1 DEF Transaction
  <2>. QED
      BY <1>3, <2>2, AppendFits DEF CommitNoise
<1>4. UNCHANGED wal \/ CommitTx \/ CommitNoise
    BY DEF Next, Clients, CreateView, Refresh, WorkerStep, LoadPending, BeginBuild, EndBuild,
       BuildFails, BuildsDone, Peek, PeekNothing, PlanChange, ExecTx, CommitRound, AdvanceSlot,
       IdleSlot, IdleCommit, Abort, vars
<1>. QED
    BY <1>1, <1>2, <1>3, <1>4

-----------------------------------------------------------------------------
(* What the steps of a round do, view by view and shadow by shadow.        *)

\* The change the round plans next.
Now == wal[cur].ch[pos]

\* It is a change of the state the round stands at, and leads to the next one.
LEMMA NowFits ==
    ASSUME TypeOK, Bounds, HistoryFits, PlanChange
    PROVE  /\ pc = "apply" /\ cur \in Lsns /\ cur \in Nat /\ pos \in Nat /\ pos >= 1
           /\ Now \in Change /\ StateBefore(cur, pos) \in Db
           /\ Now \in Changes(StateBefore(cur, pos), Truncates)
           /\ StateBefore(cur, pos + 1) = After(StateBefore(cur, pos), Now)
<1>1. pc = "apply" /\ pos <= Len(wal[cur].ch)
    BY DEF PlanChange
<1>2. cur \in Lsns /\ cur \in Nat /\ pos \in Nat /\ pos >= 1
    BY <1>1, WindowIs DEF Bounds, TypeOK
<1>3. pos \in DOMAIN wal[cur].ch /\ StateBefore(cur, pos) \in Db
    BY <1>1, <1>2, TransactionAt, StateBeforeType
<1>4. /\ Now \in Changes(StateBefore(cur, pos), Truncates)
      /\ StateBefore(cur, pos + 1) = After(StateBefore(cur, pos), Now)
    BY <1>2, <1>3 DEF HistoryFits, Now
<1>5. Now \in Change
    BY <1>3, <1>4, ChangesType, WorkerAssumption
<1>. QED
    BY <1>1, <1>2, <1>3, <1>4, <1>5

\* Phase 1, with "lost" saying that the shadow of the change's table fails.
PlanChangeDoes(lost) ==
    /\ lost \in BOOLEAN /\ lost => ShadowActive(Now.tab)
    /\ ShadowActive(Now.tab) /\ ShadowApplyFails(Now) => lost
    /\ lost => ShadowApplyFails(Now) \/ MaxShadowFaults > 0
    /\ \A v \in Views : phase'[v] = PlannedPhase(v, Now, lost)
    /\ \A v \in Views :
         plan'[v] = IF ActiveFor(v, Now.tab) /\ ~GoesStale(v, Now) /\ ~PlanFails(v, Now)
                    THEN Planned(v, Now) ELSE plan[v]
    /\ \A t \in Tables :
         lshadow'[t] = IF t = Now.tab /\ ShadowActive(t)
                       THEN IF lost THEN [lshadow[t] EXCEPT !.failed = TRUE]
                            ELSE [lshadow[t] EXCEPT !.rows = ShadowApplied(Now)]
                       ELSE lshadow[t]

\* Planning a change, as above.
LEMMA PlanChangeIs ==
    ASSUME TypeOK, Bounds, PlanChange
    PROVE  /\ pc = "apply" /\ pos' = pos + 1
           /\ UNCHANGED <<wal, slot, status, populated, frontier, failures, epoch, storage,
                          shadow, pc, todo, grp, upto, advTo, cur, blockedAt, lfrontier, lfailures,
                          draft>>
           /\ \E lost : PlanChangeDoes(lost)
<1>1. PICK fault \in BOOLEAN :
        LET lost == ShadowActive(Now.tab) /\ (fault \/ ShadowApplyFails(Now)) IN
        /\ fault => ShadowActive(Now.tab) /\ used.shadowFaults < MaxShadowFaults
        /\ phase' = [v \in Views |-> PlannedPhase(v, Now, lost)]
        /\ plan' = [v \in Views |->
                      IF ActiveFor(v, Now.tab) /\ ~GoesStale(v, Now) /\ ~PlanFails(v, Now)
                      THEN Planned(v, Now) ELSE plan[v]]
        /\ lshadow' =
             IF ~ShadowActive(Now.tab) THEN lshadow
             ELSE IF lost THEN [lshadow EXCEPT ![Now.tab].failed = TRUE]
             ELSE [lshadow EXCEPT ![Now.tab].rows = ShadowApplied(Now)]
    BY Zenon DEF PlanChange, Now
<1>. DEFINE lost == ShadowActive(Now.tab) /\ (fault \/ ShadowApplyFails(Now))
<1>2. lost \in BOOLEAN /\ (lost => ShadowActive(Now.tab))
      /\ (ShadowActive(Now.tab) /\ ShadowApplyFails(Now) => lost)
    BY DEF ShadowActive
<1>3. lshadow \in [Tables -> ShadowTable]
    BY DEF TypeOK
<1>10. lost => ShadowApplyFails(Now) \/ MaxShadowFaults > 0
  <2>1. fault => used.shadowFaults < MaxShadowFaults
      BY <1>1
  <2>2. used.shadowFaults \in Nat /\ MaxShadowFaults \in Nat
      BY WorkerAssumption DEF TypeOK, Budget
  <2>3. fault => MaxShadowFaults > 0
      BY <2>1, <2>2
  <2>. QED
      BY <2>3
<1>. HIDE DEF lost
<1>4. /\ phase' = [v \in Views |-> PlannedPhase(v, Now, lost)]
      /\ plan' = [v \in Views |->
                    IF ActiveFor(v, Now.tab) /\ ~GoesStale(v, Now) /\ ~PlanFails(v, Now)
                    THEN Planned(v, Now) ELSE plan[v]]
      /\ lshadow' =
           IF ~ShadowActive(Now.tab) THEN lshadow
           ELSE IF lost THEN [lshadow EXCEPT ![Now.tab].failed = TRUE]
           ELSE [lshadow EXCEPT ![Now.tab].rows = ShadowApplied(Now)]
    BY <1>1 DEF lost
<1>5. \A t \in Tables :
         lshadow'[t] = IF t = Now.tab /\ ShadowActive(t)
                       THEN IF lost THEN [lshadow[t] EXCEPT !.failed = TRUE]
                            ELSE [lshadow[t] EXCEPT !.rows = ShadowApplied(Now)]
                       ELSE lshadow[t]
    BY <1>3, <1>4
<1>6. \A v \in Views : phase'[v] = PlannedPhase(v, Now, lost)
    BY <1>4, Zenon
<1>7. \A v \in Views :
         plan'[v] = IF ActiveFor(v, Now.tab) /\ ~GoesStale(v, Now) /\ ~PlanFails(v, Now)
                    THEN Planned(v, Now) ELSE plan[v]
    BY <1>4, Zenon
<1>8. PlanChangeDoes(lost)
    BY <1>2, <1>5, <1>6, <1>7, <1>10, Zenon DEF PlanChangeDoes
<1>9. /\ pc = "apply" /\ pos' = pos + 1
      /\ UNCHANGED <<wal, slot, status, populated, frontier, failures, epoch, storage,
                     shadow, pc, todo, grp, upto, advTo, cur, blockedAt, lfrontier, lfailures,
                          draft>>
    BY DEF PlanChange, catalogVars, buildVars, peekVars
<1>. QED
    BY <1>8, <1>9

\* Phase 2, with tr the views that meet a transient error.
ExecTxDoes(tr) ==
    /\ \A v \in tr : v \in Flaky /\ MaxFaults > 0
    /\ \A v \in Views :
        /\ lfrontier'[v] = IF Absorbs(v, tr) THEN cur ELSE lfrontier[v]
        /\ draft'[v] = IF Absorbs(v, tr) THEN plan[v] ELSE draft[v]
        /\ plan'[v] = IF Absorbing(v) THEN draft'[v] ELSE plan[v]
        /\ lfailures'[v] = IF ExecFails(v, tr) THEN lfailures[v] + 1 ELSE lfailures[v]
        /\ phase'[v] = IF ExecFails(v, tr) THEN FailedPhase(v)
                       ELSE IF Absorbing(v) /\ phase[v] = "stale" THEN "marked"
                       ELSE phase[v]
    /\ \A t \in Tables :
         lshadow'[t] = IF ShadowActive(t) THEN [lshadow[t] EXCEPT !.frontier = cur]
                       ELSE lshadow[t]

\* Executing a transaction, as above.
LEMMA ExecTxIs ==
    ASSUME TypeOK, ExecTx
    PROVE  /\ pc = "apply" /\ pos > Len(wal[cur].ch)
           /\ UNCHANGED <<wal, slot, status, populated, frontier, failures, epoch, storage,
                          shadow, todo, grp, upto, advTo>>
           /\ \E tr : ExecTxDoes(tr)
<1>1. PICK tr \in SUBSET {v \in Flaky : Absorbing(v) /\ phase[v] = "on"} :
        /\ tr # {} => used.faults < MaxFaults
        /\ lfrontier' = [v \in Views |-> IF Absorbs(v, tr) THEN cur ELSE lfrontier[v]]
        /\ draft' = [v \in Views |-> IF Absorbs(v, tr) THEN plan[v] ELSE draft[v]]
        /\ plan' = [v \in Views |-> IF Absorbing(v) THEN draft'[v] ELSE plan[v]]
        /\ lfailures' = [v \in Views |-> IF v \in {w \in Views : ExecFails(w, tr)}
                                         THEN lfailures[v] + 1 ELSE lfailures[v]]
        /\ phase' = [v \in Views |->
                       IF v \in {w \in Views : ExecFails(w, tr)} THEN FailedPhase(v)
                       ELSE IF Absorbing(v) /\ phase[v] = "stale" THEN "marked"
                       ELSE phase[v]]
        /\ lshadow' = [t \in Tables |-> ShadowAfterTx(t)]
    BY Zenon DEF ExecTx
<1>4. \A v \in tr : v \in Flaky /\ MaxFaults > 0
  <2>1. used.faults \in Nat /\ MaxFaults \in Nat
      BY WorkerAssumption DEF TypeOK, Budget
  <2>2. tr # {} => MaxFaults > 0
      BY <1>1, <2>1
  <2>. QED
      BY <2>2
<1>2. ExecTxDoes(tr)
    BY <1>1, <1>4 DEF ExecTxDoes, ShadowAfterTx
<1>3. /\ pc = "apply" /\ pos > Len(wal[cur].ch)
      /\ UNCHANGED <<wal, slot, status, populated, frontier, failures, epoch, storage,
                     shadow, todo, grp, upto, advTo>>
    BY DEF ExecTx, catalogVars, buildVars, peekVars
<1>. QED
    BY <1>2, <1>3

\* The round's commit, view by view.
LEMMA CommitRoundIs ==
    ASSUME TypeOK, CommitRound
    PROVE  /\ pc = "commit" /\ pc' = "advance" /\ shadow' = lshadow
           /\ UNCHANGED <<wal, slot, populated, todo, grp, upto>>
           /\ \A v \in Views :
               /\ status'[v] = IF GaveUp(v) THEN "stale" ELSE status[v]
               /\ frontier'[v] = IF Loaded(v) THEN lfrontier[v] ELSE frontier[v]
               /\ storage'[v] = IF Loaded(v) THEN draft[v] ELSE storage[v]
               /\ failures'[v] = FailuresAfter(v)
               /\ lfrontier'[v] = 0
           /\ \A t \in Tables : lshadow'[t] = NoShadow
BY DEF CommitRound, EndRound, buildVars

\* A group's build, view by view and shadow by shadow.
LEMMA EndBuildIs ==
    ASSUME TypeOK, EndBuild
    PROVE  /\ pc = "building" /\ pc' = "build" /\ grp' = {} /\ slot <= point
           /\ UNCHANGED <<wal, slot, todo, upto, lfrontier, lshadow>>
           /\ \A t \in Tables : shadow'[t] = ShadowAfterBuild(t)
           /\ \A v \in Views :
               /\ storage'[v] = IF v \in grp THEN Query(v, DbAt(point)) ELSE storage[v]
               /\ frontier'[v] = IF v \in grp THEN point ELSE frontier[v]
               /\ status'[v] = IF v \in grp THEN "live" ELSE status[v]
               /\ populated'[v] = (populated[v] \/ v \in grp)
BY DEF EndBuild, peekVars, roundVars

\* The peek, when there is something to apply.
LEMMA PeekIs ==
    ASSUME TypeOK, Peek
    PROVE  /\ pc = "peek" /\ UNCHANGED <<wal, slot, status, populated, frontier, failures, epoch,
                                         storage, shadow, todo, grp, advTo>>
           /\ \/ /\ pc' = "idle" /\ Window(upto') = {} /\ upto' \in Positions
                 /\ UNCHANGED <<lfrontier, lshadow>>
              \/ /\ pc' = "apply" /\ pos' = 1 /\ upto' \in Positions
                 /\ cur' \in Window(upto') /\ \A n \in Window(upto') : cur' <= n
                 /\ lfrontier' = frontier /\ lfailures' = failures
                 /\ draft' = storage /\ plan' = storage /\ lshadow' = shadow
                 /\ \A v \in Views : phase'[v] = IF status[v] = "live" THEN "on" ELSE "out"
<1>1. PICK to \in Positions :
        /\ upto' = to
        /\ IF Window(to) = {}
           THEN pc' = "idle" /\ UNCHANGED roundVars
           ELSE /\ pc' = "apply"
                /\ cur' = Least(Window(to)) /\ pos' = 1
                /\ phase' = [v \in Views |-> IF status[v] = "live" THEN "on" ELSE "out"]
                /\ lfrontier' = frontier /\ lfailures' = failures
                /\ draft' = storage /\ plan' = storage /\ lshadow' = shadow
    BY DEF Peek
<1>2. pc = "peek" /\ UNCHANGED <<wal, slot, status, populated, frontier, failures, epoch,
                                 storage, shadow, todo, grp, advTo>>
    BY DEF Peek, catalogVars, buildVars
<1>3. to \in Nat
    BY DEF Positions, TypeOK
<1>4. CASE Window(to) = {}
    BY <1>1, <1>2, <1>4 DEF roundVars
<1>5. CASE Window(to) # {}
  <2>1. cur' \in Window(to) /\ \A n \in Window(to) : cur' <= n
      BY <1>1, <1>3, <1>5, FirstOfWindow
  <2>. QED
      BY <1>1, <1>2, <1>5, <2>1
<1>. QED
    BY <1>4, <1>5

-----------------------------------------------------------------------------
(* Frontiers, the life of a view, and the failure counters.                *)

\* No step puts a frontier beyond the log, or beyond the point of a build.
LEMMA FrontiersStep ==
    ASSUME SlotInv, FrontiersBehind, [Next]_vars
    PROVE  FrontiersBehind'
<1>. USE DEF SlotInv
<1>1. /\ Flushed \in Nat /\ Flushed' \in Nat /\ Flushed <= Flushed'
      /\ point \in Nat /\ point <= Flushed /\ upto \in Nat /\ upto <= Flushed /\ cur \in Nat
      /\ \A v \in Views : frontier[v] \in Nat /\ lfrontier[v] \in Nat
      /\ \A t \in Tables : shadow[t] \in ShadowTable /\ lshadow[t] \in ShadowTable
    BY LogOnlyGrows, PastIsFixed DEF TypeOK, Bounds
<1>2. \A t \in Tables : shadow[t].frontier \in Nat /\ lshadow[t].frontier \in Nat
    BY <1>1 DEF ShadowTable
<1>3. CASE UNCHANGED <<frontier, lfrontier, shadow, lshadow>> /\ pc' # "building"
    BY <1>1, <1>2, <1>3 DEF FrontiersBehind
<1>4. CASE UNCHANGED <<frontier, lfrontier, shadow, lshadow, pc, point>>
    BY <1>1, <1>2, <1>4 DEF FrontiersBehind
<1>5. CASE BeginBuild
  <2>1. UNCHANGED <<frontier, lfrontier, shadow, lshadow, wal>> /\ point' = Flushed
      BY <1>5 DEF BeginBuild, ConsistentPoint, catalogVars, roundVars
  <2>. QED
      BY <2>1, <1>1, <1>2 DEF FrontiersBehind, Flushed
<1>6. CASE EndBuild
  <2>1. \A t \in Tables : ShadowAfterBuild(t).frontier \in {point, shadow[t].frontier}
      BY DEF ShadowAfterBuild
  <2>. QED
      BY <2>1, <1>6, EndBuildIs, <1>1, <1>2 DEF FrontiersBehind
<1>7. CASE Peek
    BY <1>7, PeekIs, <1>1, <1>2 DEF FrontiersBehind
<1>8. CASE PlanChange
  <2>1. PICK lost : PlanChangeDoes(lost)
      BY <1>8, PlanChangeIs
  <2>2. \A t \in Tables : lshadow'[t].frontier = lshadow[t].frontier
      BY <2>1, <1>1 DEF PlanChangeDoes, ShadowTable
  <2>3. UNCHANGED <<frontier, lfrontier, shadow>> /\ pc' = "apply"
      BY <1>8, PlanChangeIs
  <2>. QED
      BY <2>2, <2>3, <1>1, <1>2 DEF FrontiersBehind
<1>9. CASE ExecTx
  <2>1. PICK tr : ExecTxDoes(tr)
      BY <1>9, ExecTxIs
  <2>2. UNCHANGED <<frontier, shadow, wal>> /\ pc' # "building" /\ pc = "apply"
      BY <1>9, ExecTxIs, NextCurrent
  <2>3. cur <= Flushed
      BY <2>2, <1>1, WindowIs DEF Bounds
  <2>4. \A t \in Tables : lshadow'[t].frontier \in {cur, lshadow[t].frontier}
      BY <2>1, <1>1 DEF ExecTxDoes, ShadowTable
  <2>5. \A v \in Views : lfrontier'[v] \in {cur, lfrontier[v]}
      BY <2>1 DEF ExecTxDoes
  <2>. QED
      BY <2>2, <2>3, <2>4, <2>5, <1>1, <1>2 DEF FrontiersBehind, Flushed
<1>10. CASE CommitRound
    BY <1>10, CommitRoundIs, <1>1, <1>2 DEF FrontiersBehind, NoShadow
<1>11. CASE IdleCommit
  <2>1. /\ \A v \in Views : frontier'[v] \in {upto, frontier[v]}
        /\ \A t \in Tables : shadow'[t].frontier \in {upto, shadow[t].frontier}
        /\ UNCHANGED <<lfrontier, lshadow, wal>> /\ pc' = "poll"
      BY <1>11, <1>1 DEF IdleCommit, TypeOK, ShadowTable, roundVars
  <2>. QED
      BY <2>1, <1>1, <1>2 DEF FrontiersBehind, Flushed
<1>12. CASE Abort
  <2>1. /\ UNCHANGED <<frontier, shadow, wal>> /\ pc' = "poll"
        /\ \A v \in Views : lfrontier'[v] = 0
        /\ \A t \in Tables : lshadow'[t].frontier = 0
      BY <1>12 DEF Abort, EndRound, NoShadow, catalogVars
  <2>. QED
      BY <2>1, <1>1, <1>2 DEF FrontiersBehind, Flushed
<1>13. CASE Clients \/ UNCHANGED vars
    BY <1>4, <1>13 DEF Clients, CommitTx, CommitNoise, CreateView, Refresh, vars, catalogVars,
                       buildVars, roundVars
<1>14. CASE LoadPending \/ BuildsDone \/ BuildFails \/ PeekNothing \/ AdvanceSlot \/ IdleSlot
    BY <1>3, <1>14 DEF LoadPending, BuildsDone, BuildFails, PeekNothing, AdvanceSlot, IdleSlot,
                       catalogVars, buildVars, roundVars
<1>. QED
    BY <1>5, <1>6, <1>7, <1>8, <1>9, <1>10, <1>11, <1>12, <1>13, <1>14 DEF Next, WorkerStep

\* A group is made of views still to build.
LEMMA GroupPending ==
    ASSUME TypeOK, todo # {}
    PROVE  NextGroup \subseteq todo
<1>1. todo \in SUBSET Views /\ Views \in SUBSET Nat
    BY DEF TypeOK, Views
<1>2. Least(todo) \in todo
    BY <1>1, LeastIs
<1>3. \A a \in todo, b \in Views : JoinsGroupOf(a, b) => b \in todo
    BY DEF JoinsGroupOf
<1>. QED
    BY <1>1, <1>2, <1>3, Zenon DEF NextGroup, Reach

\* refresh() queues views that exist.
LEMMA RefreshedExist ==
    ASSUME NEW v \in Views, status[v] # "absent"
    PROVE  \A u \in RefreshSet(v) : u \in Views /\ status[u] # "absent"
<1>. DEFINE E == {u \in Views : status[u] # "absent"}
<1>1. Reach(Views, v, SharesShadow) \subseteq E
  <2>1. E \in SUBSET Views /\ v \in E /\ \A a \in E, b \in Views : SharesShadow(a, b) => b \in E
      BY DEF SharesShadow
  <2>. HIDE DEF E
  <2>. QED
      BY <2>1, Zenon DEF Reach
<1>. QED
    BY <1>1 DEF RefreshSet

\* Ids are serial.
Serial == \A u, v \in Views : u < v /\ status[v] # "absent" => status[u] # "absent"

\* No step breaks the life cycle of a view (populate.rs, api.rs).
LEMMA LifecycleStep ==
    ASSUME SlotInv, Lifecycle, [Next]_vars
    PROVE  Lifecycle'
<1>. USE DEF SlotInv, InRound, Pending
<1>1. /\ status \in [Views -> Statuses] /\ populated \in [Views -> BOOLEAN]
      /\ todo \in SUBSET Views /\ grp \in SUBSET Views /\ phase \in [Views -> Phases]
    BY DEF TypeOK
<1>0. Serial
    BY DEF Lifecycle, Serial
<1>2. CASE /\ pc' \notin {"build", "building", "apply", "commit"} /\ pc # "building"
           /\ UNCHANGED <<status, populated, todo, grp>>
    BY <1>2 DEF Lifecycle
<1>3. CASE UNCHANGED <<status, populated, pc, todo, grp, phase>>
    BY <1>3 DEF Lifecycle
<1>4. ASSUME NEW v \in Views, CreateView(v)
      PROVE  Lifecycle'
  <2>1. /\ UNCHANGED <<populated, pc, todo, grp, phase>>
        /\ status[v] = "absent" /\ status' = [status EXCEPT ![v] = "initializing"]
      BY <1>4 DEF CreateView, buildVars, roundVars
  <2>2. Serial'
    <3>1. \A u \in Views : u < v => status[u] # "absent"
        BY <1>4 DEF CreateView
    <3>2. \A u \in Views : status'[u] = IF u = v THEN "initializing" ELSE status[u]
        BY <2>1, <1>1
    <3>. QED
        BY <1>0, <3>1, <3>2 DEF Serial
  <2>. QED
      BY <2>1, <2>2, <1>1 DEF Lifecycle, Serial
<1>5. ASSUME NEW v \in Views, Refresh(v)
      PROVE  Lifecycle'
  <2>1. UNCHANGED <<populated, pc, todo, grp, phase>>
      BY <1>5 DEF Refresh, buildVars, roundVars
  <2>2. \A u \in Views : status'[u] = status[u] \/ (~Pending(u) /\ status'[u] = "refreshing")
      BY <1>5 DEF Refresh
  <2>4. RefreshSet(v) \in SUBSET Views
      BY DEF RefreshSet, Reach
  <2>5. \A u \in RefreshSet(v) : status[u] # "absent"
      BY <1>5, RefreshedExist DEF Refresh
  <2>3. Serial'
    <3>1. \A u \in Views : status'[u] = "absent" <=> status[u] = "absent"
        BY <1>5, <2>5, <1>1 DEF Refresh
    <3>. QED
        BY <1>0, <3>1 DEF Serial
  <2>. QED
      BY <2>1, <2>2, <2>3, <1>1 DEF Lifecycle, Serial
<1>6. CASE LoadPending
  <2>1. /\ pc = "poll" /\ todo' = {v \in Views : Pending(v)} /\ pc' = "build"
        /\ UNCHANGED <<status, populated, grp>>
      BY <1>6 DEF LoadPending, catalogVars
  <2>. QED
      BY <2>1, <1>1 DEF Lifecycle
<1>7. CASE BeginBuild
  <2>1. /\ todo # {} /\ pc = "build" /\ pc' = "building" /\ UNCHANGED <<status, populated>>
        /\ grp' = NextGroup /\ todo' = todo \ NextGroup
      BY <1>7 DEF BeginBuild, catalogVars
  <2>. QED
      BY <2>1, GroupPending DEF Lifecycle
<1>8. CASE EndBuild
    BY <1>8, EndBuildIs, <1>1 DEF Lifecycle, EndBuild
<1>9. CASE BuildFails
  <2>1. /\ pc = "building" /\ pc' = "build" /\ grp' = {} /\ UNCHANGED <<populated, todo>>
        /\ \A v \in Views : status'[v] = IF v \in grp THEN "failed" ELSE status[v]
      BY <1>9 DEF BuildFails, StatusAfterFailure
  <2>. QED
      BY <2>1, <1>1 DEF Lifecycle
<1>10. CASE Peek
    BY <1>10, PeekIs, <1>1 DEF Lifecycle
<1>11. CASE PlanChange
  <2>1. PICK lost : PlanChangeDoes(lost)
      BY <1>11, PlanChangeIs
  <2>2. \A v \in Views : phase'[v] # "out" => phase[v] # "out"
      BY <2>1, <1>1 DEF PlanChangeDoes, PlannedPhase, DependsOn, ActiveFor
  <2>. QED
      BY <1>11, PlanChangeIs, <2>2 DEF Lifecycle
<1>12. CASE ExecTx
  <2>1. PICK tr : ExecTxDoes(tr)
      BY <1>12, ExecTxIs
  <2>2. \A v \in Views : phase'[v] # "out" => phase[v] # "out"
      BY <2>1, <1>1 DEF ExecTxDoes, ExecFails, Absorbing, Trying
  <2>. QED
      BY <1>12, ExecTxIs, NextCurrent, <2>2 DEF Lifecycle
<1>13. CASE CommitRound
  <2>1. \A v \in Views : status'[v] = status[v] \/ (status'[v] = "stale" /\ populated[v])
    <3>1. pc = "commit" /\ \A v \in Views : status'[v] = IF GaveUp(v) THEN "stale" ELSE status[v]
        BY <1>13, CommitRoundIs
    <3>2. \A v \in Views : GaveUp(v) => populated[v]
        BY <3>1 DEF Lifecycle, GaveUp
    <3>. QED
        BY <3>1, <3>2
  <2>2. Serial'
    <3>1. \A v \in Views : status'[v] = "absent" <=> status[v] = "absent"
        BY <2>1, <1>1 DEF Lifecycle
    <3>. QED
        BY <1>0, <3>1 DEF Serial
  <2>. QED
      BY <1>13, CommitRoundIs, <2>1, <2>2, <1>1 DEF Lifecycle, Serial
<1>14. CASE BuildsDone \/ PeekNothing \/ AdvanceSlot \/ IdleSlot \/ IdleCommit
    BY <1>2, <1>14 DEF BuildsDone, PeekNothing, AdvanceSlot, IdleSlot, IdleCommit,
                       catalogVars, buildVars
<1>16. CASE Abort
    BY <1>16 DEF Abort, catalogVars, Lifecycle
<1>15. CASE CommitTx \/ CommitNoise \/ UNCHANGED vars
    BY <1>3, <1>15 DEF CommitTx, CommitNoise, vars, catalogVars, buildVars, roundVars
<1>. QED
    BY <1>4, <1>5, <1>6, <1>7, <1>8, <1>9, <1>10, <1>11, <1>12, <1>13, <1>14, <1>15, <1>16
       DEF Next, WorkerStep, Clients

\* The failure counters of a round (worker.rs record_failure).
LEMMA FailuresStep ==
    ASSUME SlotInv, FailuresCounted, [Next]_vars
    PROVE  FailuresCounted'
<1>. USE DEF SlotInv, InRound
<1>1. \A v \in Views : failures[v] \in Nat /\ lfailures[v] \in Nat /\ phase[v] \in Phases
    BY DEF TypeOK
<1>2. CASE pc' \notin {"apply", "commit"}
    BY <1>2 DEF FailuresCounted
<1>3. CASE UNCHANGED <<pc, phase, failures, lfailures>>
    BY <1>3 DEF FailuresCounted
<1>4. CASE Peek
    BY <1>4, PeekIs, <1>1 DEF FailuresCounted, Trying
<1>5. CASE PlanChange
  <2>1. PICK lost : PlanChangeDoes(lost)
      BY <1>5, PlanChangeIs
  <2>2. \A v \in Views : \/ phase'[v] = phase[v]
                         \/ phase[v] \in Trying /\ phase'[v] \in Trying
      BY <2>1, <1>1 DEF PlanChangeDoes, PlannedPhase, DependsOn, ActiveFor, Trying
  <2>. QED
      BY <1>5, PlanChangeIs, <2>2 DEF FailuresCounted, Trying
<1>6. CASE ExecTx
  <2>1. PICK tr : ExecTxDoes(tr)
      BY <1>6, ExecTxIs
  <2>2. pc = "apply" /\ UNCHANGED failures
      BY <1>6, ExecTxIs
  <2>3. ASSUME NEW v \in Views
        PROVE  /\ phase'[v] \in Trying => lfailures'[v] = failures[v]
               /\ phase'[v] = "blocked" => lfailures'[v] > failures[v]
    <3>1. /\ phase[v] \in Trying => lfailures[v] = failures[v]
          /\ phase[v] = "blocked" => lfailures[v] > failures[v]
        BY <2>2 DEF FailuresCounted
    <3>2. CASE ExecFails(v, tr)
      <4>1. /\ phase'[v] \in {"gaveup", "blocked"} /\ lfailures'[v] = lfailures[v] + 1
            /\ phase[v] \in Trying
          BY <2>1, <3>2 DEF ExecTxDoes, FailedPhase, ExecFails, Absorbing
      <4>. QED
          BY <4>1, <3>1, <1>1 DEF Trying
    <3>3. CASE ~ ExecFails(v, tr)
      <4>1. phase'[v] \in {"marked", phase[v]} /\ lfailures'[v] = lfailures[v]
          BY <2>1, <3>3 DEF ExecTxDoes
      <4>. QED
          BY <4>1, <3>1 DEF Trying
    <3>. QED
        BY <3>2, <3>3
  <2>. QED
      BY <2>2, <2>3 DEF FailuresCounted
<1>7. CASE Clients \/ UNCHANGED vars
    BY <1>3, <1>7 DEF Clients, CommitTx, CommitNoise, CreateView, Refresh, vars, catalogVars,
                      roundVars
<1>. QED
    BY <1>2, <1>4, <1>5, <1>6, <1>7
       DEF Next, WorkerStep, LoadPending, BeginBuild, EndBuild, BuildFails, BuildsDone,
           PeekNothing, CommitRound, AdvanceSlot, IdleSlot, IdleCommit, Abort

-----------------------------------------------------------------------------
(* A maintained shadow loses nothing.                                      *)

\* What a maintained shadow must have absorbed, given the slot's and the
\* round's positions.
ShadowCovered(t) ==
    Kept(shadow[t]) =>
        /\ Clear(shadow[t].frontier, slot)
        /\ pc \in {"advance", "idle", "idleCommit"} => Clear(shadow[t].frontier, upto)
DraftCovered(t) ==
    InRound /\ Kept(lshadow[t]) =>
        Clear(lshadow[t].frontier, IF pc = "apply" THEN cur - 1 ELSE upto)

\* No step makes the slot pass what a maintained shadow has still to absorb
\* (shadow.rs, worker.rs apply_round and idle_advance).
LEMMA ShadowsCoveredStep ==
    ASSUME SlotInv, ShadowsCovered, [Next]_vars
    PROVE  ShadowsCovered'
<1>. USE DEF SlotInv
<1>1. /\ Flushed \in Nat /\ slot \in Nat /\ slot <= Flushed /\ upto \in Nat /\ upto <= Flushed
      /\ cur \in Nat /\ advTo \in Nat /\ wal \in Seq(Transaction)
      /\ \A t \in Tables : shadow[t] \in ShadowTable /\ lshadow[t] \in ShadowTable
    BY DEF TypeOK, Bounds, Flushed
<1>2. \A t \in Tables : shadow[t].frontier \in Nat /\ lshadow[t].frontier \in Nat
    BY <1>1 DEF ShadowTable
<1>3. /\ \A t \in Tables : ShadowCovered(t) /\ DraftCovered(t)
      /\ pc = "advance" => advTo <= upto
    BY DEF ShadowsCovered, ShadowCovered, DraftCovered
<1>4. SUFFICES /\ \A t \in Tables : ShadowCovered(t)' /\ DraftCovered(t)'
               /\ pc' = "advance" => advTo' <= upto'
    BY DEF ShadowsCovered, ShadowCovered, DraftCovered
<1>5. UNCHANGED wal => \A i \in Lsns' : i \in Lsns /\ (Decoded(i)' <=> Decoded(i))
    BY DEF Lsns, Decoded
<1>6. CASE /\ UNCHANGED <<wal, shadow, slot>>
           /\ pc' \notin {"apply", "commit", "advance", "idle", "idleCommit"}
    BY <1>3, <1>5, <1>6 DEF ShadowCovered, DraftCovered, InRound, Clear
<1>7. CASE Clients
  <2>1. UNCHANGED <<slot, shadow, pc, cur, upto, advTo, lshadow>>
      BY <1>7 DEF Clients, CommitTx, CommitNoise, CreateView, Refresh, peekVars, roundVars
  <2>2. \A a \in Nat, b \in Int : b <= Flushed /\ Clear(a, b) => Clear(a, b)'
      BY LogOnlyGrows, PastIsFixed
  <2>3. InRound => cur - 1 \in Int /\ cur - 1 <= Flushed
      BY <1>1, WindowIs DEF InRound, Bounds
  <2>. QED
      BY <1>1, <1>2, <1>3, <2>1, <2>2, <2>3 DEF ShadowCovered, DraftCovered, InRound
<1>8. CASE EndBuild
  <2>1. /\ pc' = "build" /\ slot <= point /\ UNCHANGED <<wal, slot>>
        /\ \A t \in Tables : shadow'[t] = ShadowAfterBuild(t)
      BY <1>8, EndBuildIs
  <2>2. ASSUME NEW t \in Tables
        PROVE  shadow'[t] = shadow[t] \/ shadow'[t].frontier = point
    <3>1. ShadowAfterBuild(t) = shadow[t] \/ ShadowAfterBuild(t).frontier = point
        BY DEF ShadowAfterBuild
    <3>. QED
        BY <2>1, <3>1
  <2>3. point \in Nat
      BY DEF TypeOK
  <2>4. ASSUME NEW t \in Tables, shadow'[t].frontier = point
        PROVE  Clear(shadow'[t].frontier, slot)
      BY <1>1, <2>1, <2>3, <2>4 DEF Clear, Lsns
  <2>5. \A t \in Tables : Kept(shadow'[t]) => Clear(shadow'[t].frontier, slot)
      BY <1>3, <2>2, <2>4 DEF ShadowCovered
  <2>. QED
      BY <1>5, <2>1, <2>5 DEF ShadowCovered, DraftCovered, InRound, Clear
<1>9. CASE Peek
  <2>1. /\ UNCHANGED <<wal, slot, shadow>> /\ upto' \in Positions
        /\ \/ pc' = "idle" /\ Window(upto') = {}
           \/ /\ pc' = "apply" /\ lshadow' = shadow
              /\ cur' \in Window(upto') /\ \A n \in Window(upto') : cur' <= n
      BY <1>9, PeekIs
  <2>2. upto' \in Nat
      BY <2>1, <1>1 DEF Positions
  <2>3. ASSUME NEW t \in Tables, Kept(shadow[t]), NEW i \in Lsns, shadow[t].frontier < i,
               i <= upto', Decoded(i)
        PROVE  i \in Window(upto')
    <3>1. i \in Nat /\ ~ (i <= slot)
        BY <1>3, <2>3 DEF ShadowCovered, Clear, Lsns
    <3>. QED
        BY <1>1, <2>2, <2>3, <3>1 DEF Window
  <2>4. CASE pc' = "idle"
    <3>1. \A t \in Tables : Kept(shadow[t]) => Clear(shadow[t].frontier, upto')
        BY <2>1, <2>3, <2>4 DEF Clear
    <3>. QED
        BY <1>3, <1>5, <2>1, <2>4, <3>1 DEF ShadowCovered, DraftCovered, InRound, Clear
  <2>5. CASE pc' = "apply"
    <3>1. cur' \in Nat /\ cur' <= upto' /\ \A n \in Window(upto') : cur' <= n
        BY <2>1, <2>2, <2>5, WindowIs
    <3>2. ASSUME NEW t \in Tables, Kept(shadow[t]), NEW i \in Lsns, shadow[t].frontier < i,
                 i <= cur' - 1
          PROVE  ~ Decoded(i)
      <4>0. i \in Nat
          BY DEF Lsns
      <4>1. cur' \in Nat /\ cur' <= upto' /\ i <= cur' - 1
          BY <3>1, <3>2
      <4>3. \A a, b, n \in Nat : a <= b /\ n <= a - 1 => n <= b /\ ~ (a <= n)
          OBVIOUS
      <4>2. i <= upto' /\ ~ (cur' <= i)
          BY <2>2, <4>0, <4>1, <4>3
      <4>. QED
          BY <2>3, <3>1, <3>2, <4>2
    <3>3. \A t \in Tables : Kept(shadow[t]) => Clear(shadow[t].frontier, cur' - 1)
        BY <3>2 DEF Clear
    <3>. QED
        BY <1>3, <1>5, <2>1, <2>5, <3>3 DEF ShadowCovered, DraftCovered, InRound, Clear
  <2>. QED
      BY <2>1, <2>4, <2>5
<1>10. CASE PlanChange
  <2>1. PICK lost : PlanChangeDoes(lost)
      BY <1>10, PlanChangeIs
  <2>2. \A t \in Tables : /\ Kept(lshadow'[t]) => Kept(lshadow[t])
                         /\ lshadow'[t].frontier = lshadow[t].frontier
      BY <2>1, <1>1 DEF PlanChangeDoes, ShadowTable, Kept
  <2>3. pc = "apply" /\ UNCHANGED <<wal, slot, shadow, pc, cur>>
      BY <1>10, PlanChangeIs
  <2>. QED
      BY <1>3, <1>5, <2>2, <2>3 DEF ShadowCovered, DraftCovered, InRound, Clear
<1>11. CASE ExecTx
  <2>1. PICK tr : ExecTxDoes(tr)
      BY <1>11, ExecTxIs
  <2>2. /\ pc = "apply" /\ pc' \in {"apply", "commit"} /\ UNCHANGED <<wal, slot, shadow, upto>>
        /\ NextStop \in Nat /\ cur <= NextStop /\ Clear(cur, NextStop)
      BY <1>11, ExecTxIs, NextCurrent
  <2>3. (IF pc = "apply" THEN cur - 1 ELSE upto)' = NextStop
      BY <2>2 DEF NextStop
  <2>4. ASSUME NEW t \in Tables, Kept(lshadow'[t])
        PROVE  Clear(lshadow'[t].frontier, NextStop)
    <3>1. CASE ShadowActive(t)
      <4>1. lshadow'[t].frontier = cur
          BY <2>1, <1>1, <3>1 DEF ExecTxDoes, ShadowTable
      <4>. QED
          BY <2>2, <4>1
    <3>2. CASE ~ ShadowActive(t)
      <4>0. lshadow'[t] = lshadow[t]
          BY <2>1, <3>2 DEF ExecTxDoes
      <4>1. lshadow'[t] = lshadow[t] /\ cur <= lshadow[t].frontier
          BY <2>4, <1>1, <1>2, <3>2, <4>0 DEF ShadowActive, Kept
      <4>. QED
          BY <1>1, <1>2, <2>2, <4>1, ClearWithin
    <3>. QED
        BY <3>1, <3>2
  <2>5. \A t \in Tables : ShadowCovered(t)'
      BY <1>3, <1>5, <2>2 DEF ShadowCovered, Clear
  <2>6. \A t \in Tables : DraftCovered(t)'
      BY <1>5, <2>2, <2>3, <2>4 DEF DraftCovered, Clear
  <2>. QED
      BY <2>2, <2>5, <2>6
<1>12. CASE CommitRound
  <2>1. /\ pc = "commit" /\ pc' = "advance" /\ shadow' = lshadow /\ UNCHANGED <<wal, slot, upto>>
      BY <1>12, CommitRoundIs
  <2>2. advTo' <= upto
      BY <1>12, <2>1, AdvanceToIs DEF CommitRound
  <2>3. cur \in Window(upto) /\ slot <= upto
      BY <1>1, <2>1, WindowIs DEF Bounds
  <2>4. ASSUME NEW t \in Tables, Kept(lshadow[t])
        PROVE  Clear(lshadow[t].frontier, upto) /\ Clear(lshadow[t].frontier, slot)
    <3>1. Clear(lshadow[t].frontier, upto)
        BY <1>3, <2>1, <2>4 DEF DraftCovered, InRound
    <3>. QED
        BY <1>1, <1>2, <2>3, <3>1, ClearWithin
  <2>. QED
      BY <1>5, <2>1, <2>2, <2>4 DEF ShadowCovered, DraftCovered, InRound, Clear
<1>13. CASE AdvanceSlot
  <2>1. /\ pc = "advance" /\ UNCHANGED <<wal, shadow>> /\ (slot' = slot \/ slot' = advTo)
        /\ \/ pc' = "idle" /\ upto' = upto
           \/ pc' = "poll"
      BY <1>13 DEF AdvanceSlot, Later, peekVars
  <2>2. ASSUME NEW t \in Tables, Kept(shadow[t])
        PROVE  Clear(shadow[t].frontier, slot') /\ Clear(shadow[t].frontier, upto)
    <3>1. Clear(shadow[t].frontier, slot) /\ Clear(shadow[t].frontier, upto)
        BY <1>3, <2>1, <2>2 DEF ShadowCovered
    <3>2. Clear(shadow[t].frontier, advTo)
        BY <1>1, <1>2, <1>3, <2>1, <3>1, ClearWithin
    <3>. QED
        BY <2>1, <3>1, <3>2
  <2>. QED
      BY <1>5, <2>1, <2>2 DEF ShadowCovered, DraftCovered, InRound, Clear
<1>14. CASE IdleSlot
  <2>1. /\ pc = "idle" /\ pc' = "idleCommit" /\ UNCHANGED <<wal, shadow, upto>>
        /\ (slot' = slot \/ slot' = upto)
      BY <1>14 DEF IdleSlot, Later, peekVars
  <2>. QED
      BY <1>3, <1>5, <2>1 DEF ShadowCovered, DraftCovered, InRound, Clear
<1>15. CASE IdleCommit
  <2>1. /\ pc = "idleCommit" /\ pc' = "poll" /\ UNCHANGED <<wal, slot>>
        /\ \A t \in Tables : shadow'[t] = IF /\ shadow[t].exists /\ ~shadow[t].failed
                                             /\ shadow[t].frontier < upto
                                          THEN [shadow[t] EXCEPT !.frontier = upto] ELSE shadow[t]
      BY <1>15 DEF IdleCommit
  <2>2. ASSUME NEW t \in Tables
        PROVE  /\ Kept(shadow'[t]) => Kept(shadow[t])
               /\ shadow'[t].frontier \in Nat
               /\ shadow[t].frontier <= shadow'[t].frontier
    <3>1. CASE shadow'[t] = shadow[t]
        BY <1>2, <3>1
    <3>2. CASE shadow'[t] = [shadow[t] EXCEPT !.frontier = upto] /\ shadow[t].frontier < upto
      <4>1. /\ shadow'[t].frontier = upto /\ shadow'[t].exists = shadow[t].exists
            /\ shadow'[t].failed = shadow[t].failed
          BY <1>1, <3>2 DEF ShadowTable
      <4>. QED
          BY <1>1, <1>2, <3>2, <4>1 DEF Kept
    <3>. QED
        BY <2>1, <3>1, <3>2
  <2>3. \A t \in Tables : Kept(shadow'[t]) => Clear(shadow'[t].frontier, slot)
      BY <1>1, <1>2, <1>3, <2>2, ClearWithin DEF ShadowCovered
  <2>. QED
      BY <1>5, <2>1, <2>3 DEF ShadowCovered, DraftCovered, InRound, Clear
<1>16. CASE Abort
  <2>1. slot' \in Nat /\ slot' <= slot /\ pc' = "poll" /\ UNCHANGED <<wal, shadow>>
      BY <1>1, <1>16 DEF Abort
  <2>2. \A t \in Tables : Kept(shadow[t]) => Clear(shadow[t].frontier, slot')
      BY <1>1, <1>2, <1>3, <2>1, ClearWithin DEF ShadowCovered
  <2>. QED
      BY <1>5, <2>1, <2>2 DEF ShadowCovered, DraftCovered, InRound, Clear
<1>17. CASE UNCHANGED vars
    BY <1>3, <1>5, <1>17 DEF ShadowCovered, DraftCovered, InRound, Clear, vars, peekVars, roundVars
<1>18. CASE LoadPending \/ BeginBuild \/ BuildFails \/ BuildsDone \/ PeekNothing
    BY <1>6, <1>18 DEF LoadPending, BeginBuild, BuildFails, BuildsDone, PeekNothing
<1>. QED
    BY <1>7, <1>8, <1>9, <1>10, <1>11, <1>12, <1>13, <1>14, <1>15, <1>16, <1>17, <1>18
       DEF Next, WorkerStep

-----------------------------------------------------------------------------
(* The state a frontier reflects, from step to step.                       *)

\* As long as the round stands still, whatever is appended to the log.
LEMMA ReflectedStays ==
    ASSUME TypeOK, Bounds, UNCHANGED wal \/ WalGrows, UNCHANGED <<pc, cur, pos>>
    PROVE  \A f \in Nat : f <= Flushed => DbAt(f)' = DbAt(f) /\ Reflected(f)' = Reflected(f)
<1>1. /\ \A i \in Nat : i <= Flushed => DbAt(i)' = DbAt(i)
      /\ \A i \in Lsns, j \in Nat : StateBefore(i, j)' = StateBefore(i, j)
    BY PastIsFixed
<1>2. pc = "apply" => cur \in Lsns /\ pos \in Nat
    BY WindowIs DEF Bounds, TypeOK
<1>. QED
    BY <1>1, <1>2 DEF Reflected

\* The log alone says what the states are.
LEMMA SameLog ==
    ASSUME UNCHANGED wal
    PROVE  /\ \A i : DbAt(i)' = DbAt(i)
           /\ \A i, j : StateBefore(i, j)' = StateBefore(i, j)
BY DEF DbAt, StateBefore

\* Planning a change moves on by this change.
LEMMA ReflectedPlanned ==
    ASSUME TypeOK, Bounds, PlanChange
    PROVE  \A f : /\ Reflected(f) = IF cur > f THEN StateBefore(cur, pos) ELSE DbAt(f)
                 /\ Reflected(f)' = IF cur > f THEN StateBefore(cur, pos + 1) ELSE DbAt(f)
<1>1. pc = "apply" /\ UNCHANGED <<wal, pc, cur>> /\ pos' = pos + 1
    BY PlanChangeIs
<1>. QED
    BY <1>1, SameLog DEF Reflected

\* After its last change the transaction stands at the state it commits; a
\* frontier the next transaction is right behind reflects its own state.
LEMMA ReflectedExecuted ==
    ASSUME TypeOK, Bounds, HistoryFits, ExecTx, Bounds'
    PROVE  /\ \A f : Reflected(f) = IF cur > f THEN DbAt(cur) ELSE DbAt(f)
           /\ \A f \in Nat : Clear(f, NextStop) => Reflected(f)' = DbAt(f)
<1>1. /\ pc = "apply" /\ pos > Len(wal[cur].ch) /\ UNCHANGED wal
      /\ cur' \in Nat /\ (pc' = "apply" => pos' = 1 /\ NextStop = cur' - 1)
      /\ pc' \in {"apply", "commit"}
    BY ExecTxIs, NextCurrent DEF NextStop
<1>2. cur \in Lsns /\ pos \in Nat
    BY <1>1, WindowIs DEF Bounds, TypeOK
<1>3. \A f : Reflected(f) = IF cur > f THEN DbAt(cur) ELSE DbAt(f)
    BY <1>1, <1>2, StateBeforeEnds DEF Reflected
<1>4. ASSUME NEW f \in Nat, Clear(f, NextStop)
      PROVE  Reflected(f)' = DbAt(f)
  <2>1. CASE pc' = "apply" /\ cur' > f
    <3>1. cur' \in Lsns' /\ Lsns' = Lsns /\ Flushed' = Flushed
        BY <1>1, <2>1 DEF Bounds, Window, Lsns, Flushed
    <3>0. cur' \in Lsns /\ cur' >= 1 /\ cur' <= Flushed /\ Flushed \in Nat
        BY <3>1, TransactionAt
    <3>5. \A a, b, n \in Nat : a >= 1 /\ a <= b /\ a > n => a - 1 \in Nat /\ n <= a - 1 /\ a - 1 <= b
        OBVIOUS
    <3>2. cur' - 1 \in Nat /\ f <= cur' - 1 /\ cur' - 1 <= Flushed
        BY <1>1, <2>1, <3>0, <3>5
    <3>3. StateBefore(cur', 1) = DbAt(cur' - 1)
        BY <3>1, StateBeforeEnds
    <3>4. DbAt(cur' - 1) = DbAt(f)
        BY <1>1, <1>4, <2>1, <3>2, ClearKeepsDb
    <3>. QED
        BY <1>1, <2>1, <3>3, <3>4, SameLog DEF Reflected
  <2>2. CASE ~ (pc' = "apply" /\ cur' > f)
      BY <1>1, <2>2, SameLog DEF Reflected
  <2>. QED
      BY <2>1, <2>2
<1>. QED
    BY <1>3, <1>4

\* The same of the peek.
LEMMA ReflectedPeeked ==
    ASSUME TypeOK, Bounds, HistoryFits, Peek, Bounds', pc' = "apply"
    PROVE  \A f \in Nat : Clear(f, cur' - 1) => Reflected(f)' = DbAt(f)
<1>1. UNCHANGED wal /\ pos' = 1 /\ cur' \in Lsns
    BY PeekIs DEF Window
<1>2. cur' \in Nat /\ cur' - 1 \in Nat /\ cur' - 1 <= Flushed
    BY <1>1, TransactionAt
<1>3. ASSUME NEW f \in Nat, Clear(f, cur' - 1)
      PROVE  Reflected(f)' = DbAt(f)
  <2>1. CASE cur' > f
    <3>1. StateBefore(cur', 1) = DbAt(cur' - 1)
        BY <1>1, StateBeforeEnds
    <3>2. DbAt(cur' - 1) = DbAt(f)
        BY <1>2, <1>3, <2>1, ClearKeepsDb
    <3>. QED
        BY <1>1, <2>1, <3>1, <3>2, SameLog DEF Reflected
  <2>2. CASE ~ (cur' > f)
      BY <1>1, <2>2, SameLog DEF Reflected
  <2>. QED
      BY <2>1, <2>2
<1>. QED
    BY <1>3

-----------------------------------------------------------------------------
(* The rows of a maintained shadow.                                        *)

RowsReflect(t) == lshadow[t].rows = Reflected(lshadow[t].frontier)[t]

\* A shadow that is not behind its table takes a change of it, unless the
\* change is a TRUNCATE (shadow.rs shadow_apply).
LEMMA RowsPlanned ==
    ASSUME TypeOK, Bounds, HistoryFits, PlanChange, NEW lost, PlanChangeDoes(lost),
           NEW t \in Tables, Now.tab = t => Now.op # "truncate",
           Kept(lshadow[t]), RowsReflect(t), Kept(lshadow'[t])
    PROVE  lshadow'[t].frontier = lshadow[t].frontier /\ RowsReflect(t)'
<1>. DEFINE f == lshadow[t].frontier
            S == StateBefore(cur, pos)
<1>1. /\ cur \in Nat /\ S \in Db /\ Now \in Change /\ Now \in Changes(S, Truncates)
      /\ StateBefore(cur, pos + 1) = After(S, Now)
    BY NowFits
<1>2. lshadow[t] \in ShadowTable /\ f \in Nat
    BY DEF TypeOK, ShadowTable
<1>3. lshadow[t].rows = (IF cur > f THEN S ELSE DbAt(f))[t]
    BY ReflectedPlanned DEF RowsReflect
<1>. HIDE DEF S
<1>4. lshadow'[t].frontier = f
    BY <1>2 DEF PlanChangeDoes, ShadowTable
<1>5. lshadow'[t].rows = (IF cur > f THEN After(S, Now) ELSE DbAt(f))[t]
  <2>1. CASE ShadowActive(t) /\ t = Now.tab
    <3>0. lost => lshadow'[t].failed = TRUE
        BY <1>2, <2>1 DEF PlanChangeDoes, ShadowTable
    <3>1. lost = FALSE
        BY <3>0 DEF PlanChangeDoes, Kept
    <3>2. lshadow'[t].rows = ShadowApplied(Now)
        BY <1>2, <2>1, <3>1 DEF PlanChangeDoes, ShadowTable
    <3>3. cur > f /\ lshadow[t].rows = S[t]
        BY <1>3, <2>1 DEF ShadowActive
    <3>4. After(S, Now)[t] = RowsAfter(S[t], Now)
        BY <1>1, <2>1 DEF After, Db
    <3>. QED
        BY <2>1, <3>2, <3>3, <3>4 DEF ShadowApplied, RowsAfter
  <2>2. CASE ~ (ShadowActive(t) /\ t = Now.tab)
    <3>1. lshadow'[t] = lshadow[t]
        BY <2>2 DEF PlanChangeDoes
    <3>2. CASE cur > f
      <4>1. t # Now.tab
          BY <2>2, <3>2 DEF ShadowActive, Kept
      <4>2. After(S, Now)[t] = S[t]
          BY <1>1, <4>1 DEF After, Db
      <4>. QED
          BY <1>3, <3>1, <3>2, <4>2
    <3>3. CASE ~ (cur > f)
        BY <1>3, <3>1, <3>3
    <3>. QED
        BY <3>2, <3>3
  <2>. QED
      BY <2>1, <2>2
<1>. QED
    BY <1>1, <1>4, <1>5, ReflectedPlanned DEF RowsReflect

\* Once the transaction is executed, such a shadow holds what it stands for.
LEMMA RowsExecuted ==
    ASSUME TypeOK, Bounds, HistoryFits, ExecTx, Bounds', NEW tr, ExecTxDoes(tr),
           NEW t \in Tables, Kept(lshadow[t]), RowsReflect(t),
           Clear(lshadow[t].frontier, cur - 1)
    PROVE  /\ Kept(lshadow'[t])
           /\ lshadow'[t].frontier = IF cur > lshadow[t].frontier THEN cur
                                     ELSE lshadow[t].frontier
           /\ lshadow'[t].rows = DbAt(lshadow'[t].frontier)[t]
           /\ RowsReflect(t)'
<1>. DEFINE f == lshadow[t].frontier
<1>1. lshadow[t] \in ShadowTable /\ f \in Nat /\ cur \in Nat
    BY DEF TypeOK, ShadowTable
<1>2. ShadowActive(t) <=> cur > f
    BY DEF ShadowActive, Kept
<1>3. /\ Kept(lshadow'[t]) /\ lshadow'[t].rows = lshadow[t].rows
      /\ lshadow'[t].frontier = IF cur > f THEN cur ELSE f
    BY <1>1, <1>2 DEF ExecTxDoes, Kept, ShadowTable
<1>4. lshadow[t].rows = (IF cur > f THEN DbAt(cur) ELSE DbAt(f))[t]
    BY ReflectedExecuted DEF RowsReflect
<1>5. /\ Clear(cur, NextStop) /\ cur <= NextStop /\ NextStop \in Nat
      /\ wal \in Seq(Transaction)
    BY NextCurrent DEF TypeOK
<1>6. Clear(lshadow'[t].frontier, NextStop) /\ lshadow'[t].frontier \in Nat
  <2>1. CASE cur > f
      BY <1>1, <1>3, <1>5, <2>1
  <2>2. CASE ~ (cur > f)
      BY <1>1, <1>3, <1>5, <2>2, ClearWithin
  <2>. QED
      BY <2>1, <2>2
<1>7. Reflected(lshadow[t].frontier)' = DbAt(lshadow'[t].frontier)
    BY <1>6, ReflectedExecuted
<1>. QED
    BY <1>1, <1>3, <1>4, <1>7 DEF RowsReflect

\* The state of a maintained shadow, committed and in the round.
RowsFit(t) == Kept(shadow[t]) => shadow[t].rows = DbAt(shadow[t].frontier)[t]
DraftRowsFit(t) == InRound /\ Kept(lshadow[t]) => RowsReflect(t)

\* Where nothing was truncated, no step takes a shadow off its table's rows
\* (shadow.rs rebuild and ensure, worker.rs shadow_apply and idle_advance).
LEMMA ShadowRowsStep ==
    ASSUME SlotInv, SlotInv', HistoryFits, FrontiersBehind, ShadowsCovered, ShadowsCovered',
           ShadowRowsFit, [Next]_vars
    PROVE  ShadowRowsFit'
<1>. USE DEF SlotInv
<1>. SUFFICES ASSUME ~ Truncates, NEW t \in Tables
              PROVE  RowsFit(t)' /\ DraftRowsFit(t)'
    BY DEF ShadowRowsFit, ShadowIsSnapshot, RowsFit, DraftRowsFit, RowsReflect, Kept, InRound
<1>1. RowsFit(t) /\ DraftRowsFit(t)
    BY DEF ShadowRowsFit, ShadowIsSnapshot, RowsFit, DraftRowsFit, RowsReflect, Kept
<1>2. /\ shadow[t] \in ShadowTable /\ lshadow[t] \in ShadowTable
      /\ shadow[t].frontier \in Nat /\ lshadow[t].frontier \in Nat
      /\ shadow[t].frontier <= Flushed /\ lshadow[t].frontier <= Flushed
    BY DEF TypeOK, ShadowTable, FrontiersBehind
<1>3. CASE Clients
  <2>1. UNCHANGED <<shadow, pc, cur, pos, lshadow>>
      BY <1>3 DEF Clients, CommitTx, CommitNoise, CreateView, Refresh, roundVars
  <2>2. \A f \in Nat : f <= Flushed => DbAt(f)' = DbAt(f) /\ Reflected(f)' = Reflected(f)
      BY <2>1, LogOnlyGrows, ReflectedStays
  <2>. QED
      BY <1>1, <1>2, <2>1, <2>2 DEF RowsFit, DraftRowsFit, RowsReflect, InRound
<1>4. CASE EndBuild
  <2>1. pc' = "build" /\ UNCHANGED wal /\ shadow'[t] = ShadowAfterBuild(t)
      BY <1>4, EndBuildIs
  <2>2. CASE SnapshotsShadow(t)
    <3>1. shadow'[t].frontier = point /\ shadow'[t].rows = DbAt(point)[t]
        BY <2>1, <2>2 DEF ShadowAfterBuild
    <3>. QED
        BY <2>1, <3>1, SameLog DEF RowsFit, DraftRowsFit, InRound
  <2>3. CASE ~ SnapshotsShadow(t)
    <3>1. shadow'[t] = shadow[t]
        BY <2>1, <2>3 DEF ShadowAfterBuild
    <3>. QED
        BY <1>1, <2>1, <3>1, SameLog DEF RowsFit, DraftRowsFit, InRound
  <2>. QED
      BY <2>2, <2>3
<1>5. CASE Peek
  <2>1. UNCHANGED <<wal, shadow>> /\ (pc' = "idle" \/ (pc' = "apply" /\ lshadow' = shadow))
      BY <1>5, PeekIs
  <2>2. RowsFit(t)'
      BY <1>1, <2>1, SameLog DEF RowsFit
  <2>3. ASSUME pc' = "apply", Kept(lshadow'[t])
        PROVE  RowsReflect(t)'
    <3>1. lshadow'[t] = shadow[t] /\ Kept(shadow[t])
        BY <2>1, <2>3
    <3>2. Clear(shadow[t].frontier, cur' - 1)
        BY <2>1, <2>3, <3>1 DEF ShadowsCovered, InRound, Clear, Lsns, Decoded
    <3>3. PICK f \in Nat : f = shadow[t].frontier
        BY <1>2
    <3>4. Reflected(f)' = DbAt(f)
        BY <1>5, <2>3, <3>2, <3>3, ReflectedPeeked
    <3>. QED
        BY <1>1, <3>1, <3>3, <3>4 DEF RowsFit, RowsReflect
  <2>. QED
      BY <2>1, <2>2, <2>3 DEF DraftRowsFit, InRound
<1>6. CASE PlanChange
  <2>1. PICK lost : PlanChangeDoes(lost)
      BY <1>6, PlanChangeIs
  <2>2. pc = "apply" /\ UNCHANGED <<wal, shadow>>
      BY <1>6, PlanChangeIs
  <2>3. Now.op # "truncate"
      BY <1>6, NowFits DEF Changes, RowChanges, RowChange
  <2>4. Kept(lshadow'[t]) => Kept(lshadow[t])
      BY <1>2, <2>1 DEF PlanChangeDoes, ShadowTable, Kept
  <2>5. Kept(lshadow'[t]) => RowsReflect(t)'
      BY <1>1, <1>6, <2>1, <2>2, <2>3, <2>4, RowsPlanned DEF DraftRowsFit, InRound
  <2>. QED
      BY <1>1, <2>2, <2>5, SameLog DEF RowsFit, DraftRowsFit
<1>7. CASE ExecTx
  <2>1. PICK tr : ExecTxDoes(tr)
      BY <1>7, ExecTxIs
  <2>2. pc = "apply" /\ UNCHANGED <<wal, shadow>>
      BY <1>7, ExecTxIs
  <2>3. Kept(lshadow'[t]) => Kept(lshadow[t])
      BY <1>2, <2>1 DEF ExecTxDoes, ShadowTable, Kept
  <2>4. Kept(lshadow[t]) => RowsReflect(t) /\ Clear(lshadow[t].frontier, cur - 1)
      BY <1>1, <2>2 DEF DraftRowsFit, ShadowsCovered, InRound
  <2>5. Kept(lshadow'[t]) => RowsReflect(t)'
      BY <1>7, <2>1, <2>3, <2>4, RowsExecuted
  <2>. QED
      BY <1>1, <2>2, <2>5, SameLog DEF RowsFit, DraftRowsFit
<1>8. CASE CommitRound
  <2>1. pc = "commit" /\ pc' = "advance" /\ UNCHANGED wal /\ shadow' = lshadow
      BY <1>8, CommitRoundIs
  <2>. QED
      BY <1>1, <2>1, SameLog DEF RowsFit, DraftRowsFit, RowsReflect, Reflected, InRound
<1>9. CASE IdleCommit
  <2>1. pc = "idleCommit" /\ pc' = "poll" /\ UNCHANGED wal /\ upto \in Nat /\ upto <= Flushed
      BY <1>9 DEF IdleCommit, TypeOK, Bounds
  <2>2. shadow'[t] = IF Kept(shadow[t]) /\ shadow[t].frontier < upto
                     THEN [shadow[t] EXCEPT !.frontier = upto] ELSE shadow[t]
      BY <1>9 DEF IdleCommit, Kept
  <2>3. CASE Kept(shadow[t]) /\ shadow[t].frontier < upto
    <3>1. shadow'[t].frontier = upto /\ shadow'[t].rows = shadow[t].rows
        BY <1>2, <2>2, <2>3 DEF ShadowTable
    <3>2. Clear(shadow[t].frontier, upto)
        BY <2>1, <2>3 DEF ShadowsCovered
    <3>3. DbAt(upto) = DbAt(shadow[t].frontier)
        BY <1>2, <2>1, <2>3, <3>2, ClearKeepsDb
    <3>. QED
        BY <1>1, <2>1, <2>3, <3>1, <3>3, SameLog DEF RowsFit, DraftRowsFit, InRound
  <2>4. CASE ~ (Kept(shadow[t]) /\ shadow[t].frontier < upto)
      BY <1>1, <2>1, <2>2, <2>4, SameLog DEF RowsFit, DraftRowsFit, InRound
  <2>. QED
      BY <2>3, <2>4
<1>10. CASE \/ LoadPending \/ BeginBuild \/ BuildFails \/ BuildsDone \/ PeekNothing
            \/ AdvanceSlot \/ IdleSlot \/ Abort
  <2>1. UNCHANGED <<wal, shadow>> /\ pc' \notin {"apply", "commit"}
      BY <1>10 DEF LoadPending, BeginBuild, BuildFails, BuildsDone, PeekNothing, AdvanceSlot,
                   IdleSlot, Abort
  <2>. QED
      BY <1>1, <2>1, SameLog DEF RowsFit, DraftRowsFit, InRound
<1>11. CASE UNCHANGED vars
    BY <1>1, <1>11, SameLog DEF RowsFit, DraftRowsFit, RowsReflect, Reflected, InRound, vars,
                                roundVars
<1>. QED
    BY <1>3, <1>4, <1>5, <1>6, <1>7, <1>8, <1>9, <1>10, <1>11 DEF Next, WorkerStep

-----------------------------------------------------------------------------
(* The incremental rule on a view: planning a change gives what the query  *)
(* gives after it.                                                         *)

\* A cell written twice holds what was written last.
LEMMA PutTwice ==
    ASSUME NEW d \in Db, NEW t \in Tables, NEW k \in Keys, NEW x \in Cell
    PROVE  Put(Put(d, t, k, NoRow), t, k, x) = Put(d, t, k, x)
<1>1. d \in [Tables -> [Keys -> Cell]] /\ NoRow \in Cell
    BY DEF Db, TableRows, Cell
<1>2. [[d[t] EXCEPT ![k] = NoRow] EXCEPT ![k] = x] = [d[t] EXCEPT ![k] = x]
    BY <1>1
<1>. DEFINE e == Put(d, t, k, NoRow)
<1>3. e \in [Tables -> [Keys -> Cell]] /\ e[t] = [d[t] EXCEPT ![k] = NoRow]
      /\ \A s \in Tables : s # t => e[s] = d[s]
    BY <1>1 DEF Put
<1>. HIDE DEF e
<1>4. /\ Put(e, t, k, x) = [s \in Tables |-> IF s = t THEN [e[t] EXCEPT ![k] = x] ELSE e[s]]
      /\ Put(d, t, k, x) = [s \in Tables |-> IF s = t THEN [d[t] EXCEPT ![k] = x] ELSE d[s]]
    BY <1>1, <1>3 DEF Put
<1>5. Put(e, t, k, x) = Put(d, t, k, x)
    BY <1>2, <1>3, <1>4
<1>. QED
    BY <1>5 DEF e

\* A change of a table the view reads, in state S, where the view holds its
\* query and its shadows hold the tables.
Fitting(v, S, c) ==
    /\ c.op # "truncate" /\ c.tab \in Rels[v] /\ plan[v] = Query(v, S)
    /\ IsJoin(v) => \A s \in Rels[v] : lshadow[s].rows = S[s]

\* Such a change finds the row it replaces; without it the view is the query
\* over the state without the row.
LEMMA RemovedIsQuery ==
    ASSUME NEW v \in Views, NEW S \in Db, NEW tr \in BOOLEAN, NEW c \in Changes(S, tr),
           Fitting(v, S, c)
    PROVE  LET gone == IF NeedsOldRow(c) THEN Put(S, c.tab, c.key, NoRow) ELSE S IN
           /\ c.tab \in Tables /\ c.key \in Keys /\ c.new \in Cell
           /\ c.op # "delete" => c.new \in Vals
           /\ NeedsOldRow(c) <=> S[c.tab][c.key] # NoRow
           /\ OldRow(v, c) = S[c.tab][c.key] /\ OldRow(v, c) # c.new
           /\ After(S, c) = Put(S, c.tab, c.key, c.new)
           /\ gone \in Db /\ gone[c.tab][c.key] = NoRow
           /\ \A s \in Rels[v] \ {c.tab} : ShadowRows[s] = gone[s]
           /\ Removed(v, c) = Query(v, gone)
<1>. DEFINE t == c.tab
            k == c.key
            without == Put(S, t, k, NoRow)
<1>. USE DEF Fitting
<1>1. /\ t \in Tables /\ k \in Keys /\ c.new \in Cell /\ NoRow \in Cell
      /\ c.old = S[t][k] /\ c.old # c.new
      /\ NeedsOldRow(c) <=> S[t][k] # NoRow
      /\ c.op # "delete" <=> c.new # NoRow
      /\ After(S, c) = Put(S, t, k, c.new)
    BY RowChangeIs DEF NeedsOldRow, Cell
<1>2. c.op # "delete" => c.new \in Vals
    BY <1>1 DEF Cell
<1>3. /\ GroupTab[v] \in Rels[v] /\ Rels[v] \subseteq Tables
      /\ ~ IsJoin(v) => Rels[v] = {t}
    BY DataAssumption DEF IsJoin
<1>4. \A s \in Rels[v] \ {t} : ShadowRows[s] = S[s]
    BY <1>3 DEF ShadowRows
<1>5. OldRow(v, c) = S[t][k]
    BY <1>1, <1>3 DEF OldRow, ShadowRows
<1>6. without \in Db /\ \A s \in Rels[v] \ {t} : without[s] = S[s]
    BY <1>1, <1>3, PutIs DEF Put, Db
<1>7. without[t][k] = NoRow
    BY <1>1, PutIs
<1>8. Removed(v, c) = IF NeedsOldRow(c) THEN Query(v, without) ELSE Query(v, S)
    BY <1>1, <1>4, <1>5, RemoveGives DEF Removed
<1>. QED
    BY <1>1, <1>2, <1>4, <1>5, <1>6, <1>7, <1>8

\* plan_change and the statements it plans (worker.rs, apply.rs): afterwards the
\* view holds its query over the state the change leaves.
LEMMA PlannedIsQuery ==
    ASSUME NEW v \in Views, NEW S \in Db, NEW tr \in BOOLEAN, NEW c \in Changes(S, tr),
           Fitting(v, S, c)
    PROVE  Planned(v, c) = Query(v, After(S, c))
<1>. DEFINE t == c.tab
            k == c.key
            gone == IF NeedsOldRow(c) THEN Put(S, c.tab, c.key, NoRow) ELSE S
<1>1. /\ t \in Tables /\ k \in Keys /\ c.new \in Cell /\ t \in Rels[v]
      /\ c.op # "delete" => c.new \in Vals
      /\ NeedsOldRow(c) <=> S[t][k] # NoRow
      /\ OldRow(v, c) = S[t][k] /\ OldRow(v, c) # c.new
      /\ After(S, c) = Put(S, t, k, c.new)
      /\ gone \in Db /\ gone[t][k] = NoRow
      /\ \A s \in Rels[v] \ {t} : ShadowRows[s] = gone[s]
      /\ Removed(v, c) = Query(v, gone)
      /\ plan[v] = Query(v, S)
    BY RemovedIsQuery DEF Fitting
<1>2. Put(gone, t, k, c.new) = Put(S, t, k, c.new)
    BY <1>1, PutTwice
<1>3. c.op = "delete" => gone = After(S, c)
    BY <1>1, RowChangeIs DEF NeedsOldRow, Fitting
<1>. HIDE DEF gone
<1>4. CASE ~ Touched(v, c)
  <2>1. c.op = "update" /\ GroupTab[v] # t
      BY <1>1, <1>4 DEF Touched
  <2>2. Query(v, Put(S, t, k, c.new)) = Query(v, S)
      BY <1>1, <2>1, QueryUntouched DEF NeedsOldRow
  <2>. QED
      BY <1>1, <1>4, <2>2 DEF Planned
<1>5. CASE Touched(v, c) /\ c.op = "delete"
    BY <1>1, <1>3, <1>5 DEF Planned
<1>6. CASE Touched(v, c) /\ c.op # "delete"
  <2>1. AddRow(v, t, c.new, ShadowRows, k, Query(v, gone)) = Query(v, Put(gone, t, k, c.new))
      BY <1>1, <1>6, AddGives
  <2>. QED
      BY <1>1, <1>2, <1>6, <2>1 DEF Planned
<1>. QED
    BY <1>4, <1>5, <1>6

\* Nothing goes wrong in such a change for a join view whose select list raises
\* no error, while the shadow of the change's table is maintained.
LEMMA FittingGoesOn ==
    ASSUME NEW v \in Views, NEW S \in Db, NEW tr \in BOOLEAN, NEW c \in Changes(S, tr),
           Fitting(v, S, c), IsJoin(v), Poison[v] = {}, ShadowActive(c.tab)
    PROVE  ~ GoesStale(v, c) /\ ~ PlanFails(v, c) /\ ~ InsertDoomed(v, c)
<1>. DEFINE gone == IF NeedsOldRow(c) THEN Put(S, c.tab, c.key, NoRow) ELSE S
<1>1. /\ c.tab \in Rels[v] /\ c.key \in Keys
      /\ NeedsOldRow(c) <=> S[c.tab][c.key] # NoRow
      /\ gone[c.tab][c.key] = NoRow
      /\ Removed(v, c) = Query(v, gone)
    BY RemovedIsQuery DEF Fitting
<1>2. ~ GoesStale(v, c)
    BY <1>1 DEF GoesStale, OldRowMissing, Fitting
<1>3. ~ PlanFails(v, c)
    BY DEF PlanFails, DeltaFails
<1>. HIDE DEF gone
<1>4. ASSUME NEW y \in Vals
      PROVE  Query(v, gone)[<<c.key, y>>] = 0
  <2>1. ~ Shows(v, gone, c.key, y)
      BY <1>1 DEF Shows
  <2>. QED
      BY <1>1, <2>1, QueryAt
<1>5. ~ InsertDoomed(v, c)
  <2>1. \A y \in Vals : ~ (Removed(v, c)[<<c.key, y>>] > 0)
      BY <1>1, <1>4
  <2>. QED
      BY <2>1, Zenon DEF InsertDoomed, InsertConflicts
<1>. QED
    BY <1>2, <1>3, <1>5

-----------------------------------------------------------------------------
(* Join views that share shadows are refreshed together.                   *)

\* refresh() queues whoever shares a shadow with a view it queues.
LEMMA RefreshSetClosed ==
    ASSUME NEW x \in Views, NEW a \in RefreshSet(x), NEW b \in Views, SharesShadow(a, b)
    PROVE  b \in RefreshSet(x)
<1>1. CASE IsJoin(x)
  <2>1. \A S \in SUBSET Views :
          x \in S /\ (\A c \in S, d \in Views : SharesShadow(c, d) => d \in S) => b \in S
    <3>. SUFFICES ASSUME NEW S \in SUBSET Views, x \in S,
                         \A c \in S, d \in Views : SharesShadow(c, d) => d \in S
                  PROVE  b \in S
        OBVIOUS
    <3>1. a \in S
        BY <1>1, Zenon DEF RefreshSet, Reach
    <3>. QED
        BY <3>1
  <2>. QED
      BY <1>1, <2>1, Zenon DEF RefreshSet, Reach
<1>2. CASE ~ IsJoin(x)
    BY <1>2 DEF RefreshSet, SharesShadow
<1>. QED
    BY <1>1, <1>2

\* A group is the first pending view and the refreshing join views that share a
\* table with it (populate.rs group), when no view links two others.
LEMMA GroupIs ==
    ASSUME TypeOK, todo # {},
           \A a, b, c \in Views : SharesTable(a, b) /\ SharesTable(b, c) => SharesTable(a, c)
    PROVE  LET m == Least(todo) IN
           /\ m \in todo /\ m \in NextGroup /\ NextGroup \subseteq todo /\ \A u \in todo : m <= u
           /\ \A v \in NextGroup : v = m \/ (Shared(m) /\ SharesTable(m, v))
           /\ \A u \in todo : m < u /\ Shared(m) /\ Shared(u) /\ SharesTable(m, u) => u \in NextGroup
<1>. DEFINE m == Least(todo)
            G == {v \in Views : v = m \/ (Shared(m) /\ SharesTable(m, v))}
<1>1. todo \in SUBSET Views /\ Views \in SUBSET Nat
    BY DEF TypeOK, Views
<1>2. m \in todo /\ \A u \in todo : m <= u
    BY <1>1, LeastIs
<1>. HIDE DEF m
<1>3. m \in G /\ \A a \in G, b \in Views : JoinsGroupOf(a, b) => b \in G
  <2>1. \A b \in Views : JoinsGroupOf(m, b) => b \in G
      BY DEF JoinsGroupOf, SharesTable, Shared
  <2>2. ASSUME NEW a \in Views, NEW b \in Views, Shared(m), SharesTable(m, a), JoinsGroupOf(a, b)
        PROVE  b \in G
    <3>1. SharesTable(a, b)
        BY <2>2 DEF JoinsGroupOf, SharesTable, Shared
    <3>. QED
        BY <1>1, <1>2, <2>2, <3>1
  <2>. QED
      BY <1>1, <1>2, <2>1, <2>2
<1>4. NextGroup \subseteq G
  <2>1. G \in SUBSET Views
      OBVIOUS
  <2>. HIDE DEF G
  <2>. QED
      BY <1>3, <2>1, Zenon DEF NextGroup, Reach, m
<1>5. m \in NextGroup
    BY <1>1, <1>2, Zenon DEF NextGroup, Reach, m
<1>6. ASSUME NEW u \in todo, m < u, Shared(m), Shared(u), SharesTable(m, u)
      PROVE  u \in NextGroup
  <2>1. JoinsGroupOf(m, u) /\ u \in Views
      BY <1>1, <1>6 DEF JoinsGroupOf, SharesTable
  <2>. QED
      BY <2>1, Zenon DEF NextGroup, Reach, m
<1>. QED
    BY <1>2, <1>4, <1>5, <1>6, GroupPending DEF m

\* A view that shares a shadow with another does not give up in a round.
LEMMA SharersGoOn ==
    ASSUME ViewsFit, CalmlyShared, InRound, NEW u \in Views, NEW v \in Views, u # v,
           SharesTable(u, v)
    PROVE  ~ GaveUp(v)
<1>1. ~ Unshared(v) /\ IsJoin(v) /\ DraftFits(v)
    BY DEF Unshared, SharesTable, ViewsFit, Dependable
<1>. QED
    BY <1>1 DEF DraftFits, GaveUp

\* No step leaves one of them behind (api.rs refresh, populate.rs group).
LEMMA TogetherStep ==
    ASSUME SlotInv, Lifecycle, RefreshedTogether, ViewsFit, [Next]_vars
    PROVE  RefreshedTogether'
<1>. USE DEF SlotInv
<1>. DEFINE Older == \A u, v \in Views :
                        status[u] = "refreshing" /\ status[v] = "initializing" => u < v
            Together == \A u, v \in Views :
                SharesTable(u, v) /\ status[u] = "refreshing"
                => status[v] \in {"absent", "initializing", "refreshing"}
            Queued == pc \in {"build", "building"} =>
                \A u \in Views, v \in todo \cup grp :
                    SharesTable(u, v) /\ status[u] = "refreshing" => u \in todo \cup grp
            Closed == pc = "building" =>
                \A u \in Views \ grp, v \in grp : SharesTable(u, v) => status[u] # "refreshing"
<1>. SUFFICES ASSUME CalmlyShared
              PROVE  Older' /\ Together' /\ Queued' /\ Closed'
    BY DEF RefreshedTogether
<1>1. Older /\ Together /\ Queued /\ Closed
    BY DEF RefreshedTogether
<1>2. /\ status \in [Views -> Statuses] /\ todo \in SUBSET Views /\ grp \in SUBSET Views
      /\ Views \in SUBSET Nat
    BY DEF TypeOK, Views
<1>3. \A u, v \in Views : SharesTable(u, v) <=> SharesTable(v, u)
    BY DEF SharesTable
<1>4. CASE /\ UNCHANGED <<status, todo, grp>>
           /\ pc' \notin {"build", "building"} \/ UNCHANGED pc
    BY <1>1, <1>4
<1>5. ASSUME NEW x \in Views, CreateView(x)
      PROVE  Older' /\ Together' /\ Queued' /\ Closed'
  <2>1. /\ UNCHANGED <<pc, todo, grp>> /\ status[x] = "absent"
        /\ \A u \in Views : status'[u] = IF u = x THEN "initializing" ELSE status[u]
      BY <1>2, <1>5 DEF CreateView, buildVars
  <2>2. \A u \in Views : status[u] = "refreshing" => u < x
      BY <1>2, <2>1 DEF Lifecycle
  <2>3. Older' /\ Together'
      BY <1>1, <2>1, <2>2
  <2>. QED
      BY <1>1, <1>2, <2>1, <2>3
<1>6. ASSUME NEW x \in Views, Refresh(x)
      PROVE  Older' /\ Together' /\ Queued' /\ Closed'
  <2>1. /\ UNCHANGED <<pc, todo, grp>> /\ status[x] # "absent"
        /\ \A u \in Views : status[u] # "initializing"
        /\ \A u \in Views : status'[u] = IF u \in RefreshSet(x) /\ ~Pending(u)
                                         THEN "refreshing" ELSE status[u]
      BY <1>6 DEF Refresh, buildVars, CalmlyShared
  <2>2. \A u \in RefreshSet(x) : status[u] # "absent"
      BY <2>1, RefreshedExist
  <2>3. Older'
      BY <2>1
  <2>4. Together'
    <3>. SUFFICES ASSUME NEW u \in Views, NEW v \in Views, SharesTable(u, v),
                         status'[u] = "refreshing"
                  PROVE  status'[v] \in {"absent", "initializing", "refreshing"}
        OBVIOUS
    <3>1. CASE status[u] = "refreshing"
        BY <1>1, <2>1, <3>1
    <3>2. CASE status[u] # "refreshing"
      <4>1. u \in RefreshSet(x) /\ status[u] # "absent"
          BY <2>1, <2>2, <3>2
      <4>2. CASE status[v] = "absent"
          BY <2>1, <2>2, <4>2
      <4>3. CASE status[v] # "absent"
        <5>1. v \in RefreshSet(x)
            BY <4>1, <4>3, RefreshSetClosed DEF SharesShadow, SharesTable
        <5>. QED
            BY <2>1, <5>1 DEF Pending
      <4>. QED
          BY <4>2, <4>3
    <3>. QED
        BY <3>1, <3>2
  <2>5. ASSUME pc \in {"build", "building"}, NEW v \in todo \cup grp, NEW u \in Views,
               SharesTable(u, v), status'[u] = "refreshing"
        PROVE  status[u] = "refreshing"
    <3>1. status[v] = "refreshing" /\ v \in Views
        BY <1>2, <2>1, <2>5 DEF Lifecycle, Pending
    <3>2. status[u] \in {"absent", "initializing", "refreshing"}
        BY <1>1, <1>3, <2>5, <3>1
    <3>. QED
        BY <2>1, <2>2, <2>5, <3>2 DEF Pending
  <2>6. Queued'
      BY <1>1, <2>1, <2>5
  <2>7. Closed'
      BY <1>1, <2>1, <2>5
  <2>. QED
      BY <2>3, <2>4, <2>6, <2>7
<1>7. CASE LoadPending
  <2>1. /\ UNCHANGED <<status, grp>> /\ todo' = {v \in Views : Pending(v)} /\ pc' = "build"
      BY <1>7 DEF LoadPending, catalogVars
  <2>. QED
      BY <1>1, <2>1 DEF Pending
<1>8. CASE BeginBuild
  <2>1. /\ UNCHANGED status /\ grp' = NextGroup /\ todo' = todo \ NextGroup
        /\ pc = "build" /\ pc' = "building" /\ todo # {} /\ grp = {}
      BY <1>8 DEF BeginBuild, catalogVars, Lifecycle
  <2>. DEFINE m == Least(todo)
  <2>2. /\ m \in todo /\ m \in NextGroup /\ NextGroup \subseteq todo /\ \A u \in todo : m <= u
        /\ \A v \in NextGroup : v = m \/ (Shared(m) /\ SharesTable(m, v))
        /\ \A u \in todo : m < u /\ Shared(m) /\ Shared(u) /\ SharesTable(m, u) => u \in NextGroup
      BY <2>1, GroupIs DEF CalmlyShared
  <2>. HIDE DEF m
  <2>3. ASSUME NEW u \in Views \ NextGroup, NEW v \in NextGroup, SharesTable(u, v),
               status[u] = "refreshing"
        PROVE  FALSE
    <3>1. u \in todo /\ u # m /\ m < u /\ IsJoin(u) /\ Shared(u) /\ m \in Views /\ v \in Views
        BY <1>1, <1>2, <2>1, <2>2, <2>3 DEF SharesTable, Shared
    <3>2. SharesTable(m, u)
      <4>1. CASE v = m
          BY <1>3, <2>3, <3>1, <4>1
      <4>2. CASE v # m
          BY <1>3, <2>2, <2>3, <3>1, <4>2 DEF CalmlyShared
      <4>. QED
          BY <4>1, <4>2
    <3>3. Pending(m)
        BY <2>1, <2>2 DEF Lifecycle
    <3>4. status[m] = "refreshing"
        BY <1>1, <1>2, <2>3, <3>1, <3>3 DEF Pending
    <3>5. Shared(m)
        BY <3>2, <3>4 DEF Shared, SharesTable
    <3>. QED
        BY <2>2, <2>3, <3>1, <3>2, <3>5
  <2>4. todo' \cup grp' = todo \cup grp
      BY <2>1, <2>2
  <2>. QED
      BY <1>1, <2>1, <2>3, <2>4
<1>9. CASE EndBuild \/ BuildFails
  <2>1. /\ UNCHANGED todo /\ grp' = {} /\ pc = "building" /\ pc' = "build"
        /\ \A v \in Views : IF v \in grp THEN status'[v] \in {"live", "failed"}
                            ELSE status'[v] = status[v]
    <3>1. CASE EndBuild
        BY <3>1, EndBuildIs
    <3>2. CASE BuildFails
        BY <3>2 DEF BuildFails, StatusAfterFailure
    <3>. QED
        BY <1>9, <3>1, <3>2
  <2>. QED
      BY <1>1, <1>2, <2>1
<1>10. CASE CommitRound
  <2>1. /\ pc = "commit" /\ pc' = "advance"
        /\ \A v \in Views : status'[v] = IF GaveUp(v) THEN "stale" ELSE status[v]
      BY <1>10, CommitRoundIs
  <2>2. Older' /\ Queued' /\ Closed'
      BY <1>1, <2>1
  <2>3. Together'
    <3>. SUFFICES ASSUME NEW u \in Views, NEW v \in Views, SharesTable(u, v),
                         status'[u] = "refreshing"
                  PROVE  status'[v] \in {"absent", "initializing", "refreshing"}
        OBVIOUS
    <3>1. u # v => ~ GaveUp(v)
        BY <2>1, SharersGoOn DEF InRound
    <3>2. status[u] = "refreshing"
        BY <2>1
    <3>. QED
        BY <1>1, <2>1, <3>1, <3>2
  <2>. QED
      BY <2>2, <2>3
<1>11. CASE Abort
    BY <1>1, <1>11 DEF Abort, catalogVars
<1>12. CASE \/ CommitTx \/ CommitNoise \/ BuildsDone \/ Peek \/ PeekNothing \/ PlanChange \/ ExecTx
            \/ AdvanceSlot \/ IdleSlot \/ IdleCommit \/ UNCHANGED vars
  <2>1. CASE PlanChange \/ ExecTx \/ Peek
      BY <1>4, <2>1, PlanChangeIs, ExecTxIs, NextCurrent, PeekIs
  <2>2. CASE \/ CommitTx \/ CommitNoise \/ BuildsDone \/ PeekNothing
             \/ AdvanceSlot \/ IdleSlot \/ IdleCommit \/ UNCHANGED vars
      BY <1>4, <2>2 DEF CommitTx, CommitNoise, BuildsDone, PeekNothing, AdvanceSlot, IdleSlot,
                        IdleCommit, vars, catalogVars, buildVars
  <2>. QED
      BY <1>12, <2>1, <2>2
<1>. QED
    BY <1>5, <1>6, <1>7, <1>8, <1>9, <1>10, <1>11, <1>12 DEF Next, Clients, WorkerStep

-----------------------------------------------------------------------------
(* A view that can be relied on, step by step.                             *)

ViewFits(v) ==
    /\ ContentFits(v) /\ ShadowsServe(v)
    /\ InRound => DraftFits(v) /\ DraftShadowsServe(v)

\* What the other parts of the invariant say of one view.
LEMMA ViewTypes ==
    ASSUME TypeOK, FrontiersBehind, NEW v \in Views
    PROVE  /\ frontier[v] \in Nat /\ frontier[v] <= Flushed
           /\ lfrontier[v] \in Nat /\ lfrontier[v] <= Flushed
           /\ cur \in Nat /\ phase[v] \in Phases /\ Rels[v] \subseteq Tables
           /\ \A t \in Rels[v] :
                /\ shadow[t] \in ShadowTable /\ lshadow[t] \in ShadowTable
                /\ shadow[t].frontier \in Nat /\ shadow[t].frontier <= Flushed
                /\ lshadow[t].frontier \in Nat /\ lshadow[t].frontier <= Flushed
BY DataAssumption DEF TypeOK, FrontiersBehind, ShadowTable

\* Where join views share shadows calmly, no shadow fails.
LEMMA NothingLostCalmly ==
    ASSUME TypeOK, Bounds, HistoryFits, ShadowRowsFit, CalmlyShared, PlanChange,
           NEW lost, PlanChangeDoes(lost)
    PROVE  ~ lost /\ Now.op # "truncate"
<1>. DEFINE S == StateBefore(cur, pos)
            t == Now.tab
<1>1. /\ pc = "apply" /\ S \in Db /\ Now \in Changes(S, Truncates) /\ Truncates \in BOOLEAN
      /\ ~ Truncates
    BY NowFits, WorkerAssumption DEF CalmlyShared
<1>2. Now.op # "truncate"
    BY <1>1 DEF Changes, RowChanges, RowChange
<1>3. ASSUME lost
      PROVE  FALSE
  <2>1. ShadowActive(t) /\ ShadowApplyFails(Now)
      BY <1>3, WorkerAssumption DEF PlanChangeDoes, CalmlyShared
  <2>2. /\ t \in Tables /\ Now.old = S[t][Now.key]
        /\ NeedsOldRow(Now) <=> S[t][Now.key] # NoRow
        /\ Now.op = "insert" <=> S[t][Now.key] = NoRow
      BY <1>1, <1>2, RowChangeIs DEF NeedsOldRow
  <2>3. lshadow[t].rows = S[t]
      BY <1>1, <2>1, <2>2, ReflectedPlanned DEF ShadowRowsFit, InRound, ShadowActive, Kept
  <2>. QED
      BY <2>1, <2>2, <2>3 DEF ShadowApplyFails, OldRowMissing
<1>. QED
    BY <1>2, <1>3

\* Phase 1 for such a view: it goes on with the change planned, or drops out.
LEMMA ViewPlanned ==
    ASSUME SlotInv, HistoryFits, FrontiersBehind, ShadowRowsFit, PlanChange, NEW v \in Views,
           Dependable(v), ViewFits(v)
    PROVE  ViewFits(v)'
<1>. USE DEF SlotInv
<1>. DEFINE f == lfrontier[v]
            S == StateBefore(cur, pos)
<1>1. PICK lost : PlanChangeDoes(lost)
    BY PlanChangeIs
<1>2. /\ pc = "apply" /\ pc' = "apply"
      /\ UNCHANGED <<wal, status, populated, frontier, storage, shadow, cur, lfrontier, draft>>
    BY PlanChangeIs
<1>3. /\ cur \in Nat /\ f \in Nat /\ phase[v] \in Phases /\ Rels[v] \subseteq Tables
      /\ \A t \in Rels[v] : lshadow[t] \in ShadowTable /\ lshadow[t].frontier \in Nat
    BY ViewTypes
<1>4. /\ S \in Db /\ Now \in Change /\ Now \in Changes(S, Truncates)
      /\ StateBefore(cur, pos + 1) = After(S, Now)
    BY NowFits
<1>5. \A g : /\ Reflected(g) = IF cur > g THEN S ELSE DbAt(g)
             /\ Reflected(g)' = IF cur > g THEN After(S, Now) ELSE DbAt(g)
    BY <1>4, ReflectedPlanned
<1>6. DraftFits(v) /\ DraftShadowsServe(v) /\ ContentFits(v) /\ ShadowsServe(v)
    BY <1>2 DEF ViewFits, InRound
<1>. HIDE DEF S
<1>7. phase'[v] = PlannedPhase(v, Now, lost)
    BY <1>1 DEF PlanChangeDoes
<1>16. ~ Unshared(v) => CalmlyShared /\ IsJoin(v) /\ ~ lost /\ Now.op # "truncate"
    BY <1>1, NothingLostCalmly DEF Dependable, Unshared
<1>17. ASSUME IsJoin(v), phase[v] = "on", NEW t \in Rels[v]
       PROVE  /\ t \in Tables /\ Kept(lshadow[t]) /\ RowsReflect(t)
              /\ lshadow[t].frontier \in Nat /\ lshadow[t].frontier <= f
              /\ Unshared(v) => lshadow[t].frontier = f
              /\ cur > f => ShadowActive(t) /\ lshadow[t].rows = S[t]
  <2>1. /\ t \in Tables /\ Kept(lshadow[t]) /\ RowsReflect(t)
        /\ lshadow[t].frontier \in Nat /\ lshadow[t].frontier <= f
        /\ Unshared(v) => lshadow[t].frontier = f
      BY <1>3, <1>6, <1>17 DEF DraftShadowsServe, RowsReflect
  <2>2. cur > f => cur > lshadow[t].frontier
      BY <1>3, <2>1
  <2>. QED
      BY <1>5, <2>1, <2>2 DEF ShadowActive, Kept, RowsReflect
<1>18. ASSUME phase[v] = "on", ActiveFor(v, Now.tab), Now.op # "truncate"
       PROVE  Fitting(v, S, Now)
  <2>1. cur > f /\ Now.tab \in Rels[v]
      BY <1>18 DEF ActiveFor
  <2>2. plan[v] = Query(v, S)
      BY <1>5, <1>6, <1>18, <2>1 DEF DraftFits
  <2>. QED
      BY <1>17, <1>18, <2>1, <2>2 DEF Fitting
<1>8. ASSUME phase'[v] = "on"
      PROVE  /\ phase[v] = "on" /\ ~ (lost /\ DependsOn(v, Now.tab))
             /\ ActiveFor(v, Now.tab) => ~ GoesStale(v, Now) /\ ~ PlanFails(v, Now)
    BY <1>7, <1>8 DEF PlannedPhase
<1>9. ASSUME phase'[v] = "on", IsJoin(v), NEW t \in Rels[v]
      PROVE  Kept(lshadow'[t]) /\ lshadow'[t].frontier = lshadow[t].frontier /\ RowsReflect(t)'
  <2>1. /\ phase[v] = "on" /\ t \in Tables /\ Kept(lshadow[t]) /\ RowsReflect(t)
        /\ lshadow[t].frontier \in Nat /\ lshadow[t].frontier <= f
        /\ Unshared(v) => lshadow[t].frontier = f
      BY <1>8, <1>9, <1>17
  <2>2. CASE cur > f \/ ~ Unshared(v)
    <3>1. t = Now.tab => Now.op # "truncate"
        BY <1>8, <1>9, <1>16, <2>1, <2>2 DEF ActiveFor, GoesStale
    <3>2. t = Now.tab => ~ lost
        BY <1>8, <1>9, <2>1 DEF DependsOn
    <3>3. Kept(lshadow'[t])
        BY <1>1, <1>3, <2>1, <3>2 DEF PlanChangeDoes, Kept, ShadowTable
    <3>. QED
        BY <1>1, <2>1, <3>1, <3>3, RowsPlanned
  <2>3. CASE ~ (cur > f) /\ Unshared(v)
    <3>1. lshadow'[t] = lshadow[t]
        BY <1>1, <2>1, <2>3 DEF PlanChangeDoes, ShadowActive
    <3>2. PICK g \in Nat : g = f
        BY <1>3
    <3>3. Reflected(g)' = Reflected(g) /\ lshadow[t].frontier = g
        BY <1>5, <2>1, <2>3, <3>2
    <3>. QED
        BY <2>1, <3>1, <3>3 DEF RowsReflect
  <2>. QED
      BY <2>2, <2>3
<1>10. ASSUME phase'[v] = "on"
       PROVE  plan'[v] = Query(v, Reflected(lfrontier[v])')
  <2>1. phase[v] = "on" /\ plan[v] = Query(v, Reflected(f))
      BY <1>6, <1>8, <1>10 DEF DraftFits
  <2>2. plan'[v] = IF ActiveFor(v, Now.tab) THEN Planned(v, Now) ELSE plan[v]
      BY <1>1, <1>8, <1>10 DEF PlanChangeDoes
  <2>3. CASE ActiveFor(v, Now.tab)
    <3>1. cur > f /\ Now.op # "truncate"
        BY <1>8, <1>10, <2>3 DEF ActiveFor, GoesStale
    <3>2. Fitting(v, S, Now)
        BY <1>18, <2>1, <2>3, <3>1
    <3>4. Planned(v, Now) = Query(v, After(S, Now))
        BY <1>4, <3>2, WorkerAssumption, PlannedIsQuery
    <3>. QED
        BY <1>2, <1>5, <2>2, <2>3, <3>1, <3>4
  <2>4. CASE ~ ActiveFor(v, Now.tab)
    <3>1. ~ (cur > f) \/ Now.tab \notin Rels[v]
        BY <2>1, <2>4 DEF ActiveFor
    <3>2. Query(v, Reflected(lfrontier[v])') = Query(v, Reflected(f))
      <4>1. CASE ~ (cur > f)
          BY <1>2, <1>5, <4>1
      <4>2. CASE cur > f /\ Now.tab \notin Rels[v]
          BY <1>2, <1>4, <1>5, <4>2, QueryElsewhere
      <4>. QED
          BY <3>1, <4>1, <4>2
    <3>. QED
        BY <2>1, <2>2, <2>4, <3>2
  <2>. QED
      BY <2>3, <2>4
<1>11. ASSUME phase'[v] \in Trying \ {"on"}
       PROVE  cur > f
  <2>1. CASE phase[v] \in Trying \ {"on"}
      BY <1>6, <2>1 DEF DraftFits, Trying
  <2>2. CASE phase[v] = "on" /\ ActiveFor(v, Now.tab)
      BY <2>2 DEF ActiveFor
  <2>3. CASE phase[v] = "on" /\ ~ ActiveFor(v, Now.tab)
    <3>1. lost /\ IsJoin(v) /\ Now.tab \in Rels[v]
        BY <1>7, <1>11, <2>3 DEF PlannedPhase, DependsOn
    <3>2. ShadowActive(Now.tab) /\ lshadow[Now.tab].frontier = f
        BY <1>1, <1>16, <1>17, <2>3, <3>1 DEF PlanChangeDoes
    <3>. QED
        BY <3>2 DEF ShadowActive
  <2>4. CASE phase[v] \notin Trying
      BY <1>7, <1>11, <2>4 DEF PlannedPhase, DependsOn, ActiveFor, Trying
  <2>. QED
      BY <2>1, <2>2, <2>3, <2>4 DEF Trying
<1>12. /\ phase'[v] # "out" => phase[v] # "out"
       /\ phase'[v] = "blocked" => phase[v] = "blocked"
    BY <1>7 DEF PlannedPhase, DependsOn, ActiveFor
<1>19. ASSUME phase[v] = "on", ~ Unshared(v)
       PROVE  phase'[v] = "on"
  <2>1. CASE ~ ActiveFor(v, Now.tab)
      BY <1>7, <1>16, <1>19, <2>1 DEF PlannedPhase
  <2>2. CASE ActiveFor(v, Now.tab)
    <3>1. Fitting(v, S, Now) /\ IsJoin(v) /\ Poison[v] = {} /\ ~ lost
        BY <1>16, <1>18, <1>19, <2>2 DEF CalmlyShared, Steady
    <3>2. ShadowActive(Now.tab)
        BY <1>17, <1>19, <2>2, <3>1 DEF ActiveFor
    <3>3. ~ GoesStale(v, Now) /\ ~ PlanFails(v, Now) /\ ~ InsertDoomed(v, Now)
        BY <1>4, <3>1, <3>2, WorkerAssumption, FittingGoesOn
    <3>. QED
        BY <1>7, <1>19, <3>1, <3>3, Zenon DEF PlannedPhase
  <2>. QED
      BY <2>1, <2>2
<1>20. ASSUME IsJoin(v), Steady(v), phase[v] # "out"
       PROVE  phase'[v] \notin {"error", "doomed"}
  <2>1. phase[v] \notin {"error", "doomed"}
      BY <1>6, <1>20 DEF DraftFits
  <2>2. CASE ~ ActiveFor(v, Now.tab) \/ GoesStale(v, Now)
      BY <1>7, <2>1, <2>2 DEF PlannedPhase
  <2>3. CASE ActiveFor(v, Now.tab) /\ ~ GoesStale(v, Now)
    <3>1. phase[v] = "on" /\ cur > f /\ Now.tab \in Rels[v] /\ Now.op # "truncate"
        BY <2>1, <2>3 DEF ActiveFor, GoesStale
    <3>2. Fitting(v, S, Now) /\ ShadowActive(Now.tab)
        BY <1>17, <1>18, <1>20, <2>3, <3>1
    <3>3. ~ PlanFails(v, Now) /\ ~ InsertDoomed(v, Now)
        BY <1>4, <1>20, <3>2, WorkerAssumption, FittingGoesOn DEF Steady
    <3>. QED
        BY <1>7, <3>1, <3>3, Zenon DEF PlannedPhase
  <2>. QED
      BY <2>2, <2>3
<1>13. DraftFits(v)'
  <2>1. DbAt(f)' = DbAt(f)
      BY <1>2, SameLog
  <2>. QED
      BY <1>2, <1>6, <1>10, <1>11, <1>12, <1>19, <1>20, <2>1 DEF DraftFits
<1>14. DraftShadowsServe(v)'
  <2>1. \A t \in Rels[v] : lshadow'[t].exists = lshadow[t].exists
      BY <1>1, <1>3 DEF PlanChangeDoes, ShadowTable
  <2>. QED
      BY <1>2, <1>6, <1>8, <1>9, <2>1 DEF DraftShadowsServe, RowsReflect
<1>15. ContentFits(v)' /\ ShadowsServe(v)'
  <2>1. \A i : DbAt(i)' = DbAt(i)
      BY <1>2, SameLog
  <2>. QED
      BY <1>2, <1>6, <2>1 DEF ContentFits, ShadowsServe
<1>. QED
    BY <1>13, <1>14, <1>15 DEF ViewFits

\* Phase 2 for such a view: it moves on with its shadows, or drops out; a join
\* view that shares none drops out for good, one that does never.
LEMMA ViewExecuted ==
    ASSUME SlotInv, HistoryFits, FrontiersBehind, ShadowsCovered, ExecTx, Bounds',
           NEW v \in Views, Dependable(v), ViewFits(v)
    PROVE  ViewFits(v)'
<1>. USE DEF SlotInv
<1>. DEFINE f == lfrontier[v]
<1>1. PICK tr : ExecTxDoes(tr)
    BY ExecTxIs
<1>2. /\ pc = "apply" /\ UNCHANGED <<wal, status, populated, frontier, storage, shadow>>
    BY ExecTxIs
<1>3. /\ cur \in Nat /\ f \in Nat /\ phase[v] \in Phases /\ Rels[v] \subseteq Tables
      /\ lfailures[v] \in Nat /\ wal \in Seq(Transaction)
      /\ \A t \in Rels[v] : lshadow[t] \in ShadowTable /\ lshadow[t].frontier \in Nat
    BY ViewTypes DEF TypeOK
<1>4. DraftFits(v) /\ DraftShadowsServe(v) /\ ContentFits(v) /\ ShadowsServe(v)
    BY <1>2 DEF ViewFits, InRound
<1>5. /\ lfrontier'[v] = IF Absorbs(v, tr) THEN cur ELSE f
      /\ draft'[v] = IF Absorbs(v, tr) THEN plan[v] ELSE draft[v]
      /\ plan'[v] = IF Absorbing(v) THEN draft'[v] ELSE plan[v]
      /\ phase'[v] = IF ExecFails(v, tr) THEN FailedPhase(v)
                     ELSE IF Absorbing(v) /\ phase[v] = "stale" THEN "marked"
                     ELSE phase[v]
    BY <1>1 DEF ExecTxDoes
<1>6. /\ Reflected(f) = IF cur > f THEN DbAt(cur) ELSE DbAt(f)
      /\ \A g \in Nat : Clear(g, NextStop) => Reflected(g)' = DbAt(g)
    BY ReflectedExecuted
<1>7. Clear(cur, NextStop) /\ cur <= NextStop /\ NextStop \in Nat
    BY NextCurrent
<1>8. /\ FailedPhase(v) \in {"gaveup", "blocked"}
      /\ IsJoin(v) /\ Unshared(v) => FailedPhase(v) = "gaveup" \/ Steady(v)
    BY <1>3 DEF FailedPhase, Unshared
<1>19. IsJoin(v) /\ Steady(v) => ~ ExecFails(v, tr)
  <2>1. Steady(v) => v \notin tr
      BY <1>1 DEF Steady, ExecTxDoes
  <2>. QED
      BY <1>4, <2>1 DEF DraftFits, ExecFails, Absorbing, Trying
<1>20. ~ Unshared(v) => IsJoin(v) /\ Steady(v) /\ phase[v] \in {"on", "out"}
  <2>1. ~ Unshared(v) => CalmlyShared /\ IsJoin(v)
      BY DEF Dependable, Unshared
  <2>. QED
      BY <1>4, <2>1 DEF CalmlyShared, DraftFits
<1>9. ASSUME phase'[v] = "on"
      PROVE  /\ phase[v] = "on"
             /\ Absorbs(v, tr) <=> cur > f
             /\ Absorbing(v) <=> cur > f
             /\ Clear(f, cur - 1)
  <2>1. phase[v] = "on" /\ ~ ExecFails(v, tr)
      BY <1>5, <1>8, <1>9
  <2>2. Clear(f, cur - 1)
      BY <1>2, <2>1 DEF RoundSafe, Trying
  <2>. QED
      BY <2>1, <2>2 DEF Absorbs, Absorbing, ExecFails, Trying
<1>10. draft'[v] = Query(v, DbAt(lfrontier'[v])) \/ phase[v] = "out"
  <2>1. CASE Absorbs(v, tr)
      BY <1>4, <1>5, <1>6, <2>1 DEF DraftFits, Absorbs, Absorbing
  <2>2. CASE ~ Absorbs(v, tr)
      BY <1>4, <1>5, <2>2 DEF DraftFits
  <2>. QED
      BY <2>1, <2>2
<1>11. PICK g \in Nat : g = lfrontier'[v]
    BY <1>3, <1>5
<1>12. ASSUME phase'[v] = "on"
       PROVE  g = (IF cur > f THEN cur ELSE f) /\ Reflected(g)' = DbAt(g)
  <2>1. g = IF cur > f THEN cur ELSE f
      BY <1>5, <1>9, <1>11, <1>12
  <2>2. Clear(g, NextStop)
    <3>1. CASE cur > f
        BY <1>7, <2>1, <3>1
    <3>2. CASE ~ (cur > f)
        BY <1>3, <1>7, <2>1, <3>2, ClearWithin
    <3>. QED
        BY <3>1, <3>2
  <2>. QED
      BY <1>6, <2>1, <2>2
<1>13. ASSUME phase'[v] = "on"
       PROVE  plan'[v] = Query(v, DbAt(g))
  <2>1. CASE cur > f
      BY <1>5, <1>9, <1>10, <1>11, <1>13, <2>1
  <2>2. CASE ~ (cur > f)
      BY <1>4, <1>5, <1>6, <1>9, <1>11, <1>13, <2>2 DEF DraftFits
  <2>. QED
      BY <2>1, <2>2
<1>14. phase'[v] \notin Trying \ {"on"}
  <2>1. CASE phase[v] \in Trying \ {"on"}
    <3>1. Absorbing(v)
        BY <1>4, <2>1 DEF DraftFits, Absorbing, Trying
    <3>. QED
        BY <1>5, <1>8, <2>1, <3>1 DEF ExecFails, Trying
  <2>2. CASE phase[v] \notin Trying \ {"on"}
      BY <1>5, <1>8, <2>2 DEF Trying
  <2>. QED
      BY <2>1, <2>2
<1>15. DraftFits(v)'
  <2>1. phase'[v] # "out" => phase[v] # "out"
      BY <1>5, <1>8 DEF ExecFails, Absorbing, Trying
  <2>2. IsJoin(v) /\ Unshared(v) => phase'[v] # "blocked" \/ phase[v] = "out"
      BY <1>4, <1>5, <1>8, <1>19 DEF DraftFits
  <2>3. ~ Unshared(v) => phase'[v] = phase[v]
      BY <1>5, <1>19, <1>20
  <2>4. DbAt(g)' = DbAt(g)
      BY <1>2, SameLog
  <2>5. phase'[v] \notin {"doomed", "error"}
      BY <1>14 DEF Trying
  <2>. QED
      BY <1>10, <1>11, <1>12, <1>13, <1>14, <1>20, <2>1, <2>2, <2>3, <2>4, <2>5 DEF DraftFits
<1>16. ASSUME phase'[v] = "on", IsJoin(v), NEW t \in Rels[v]
       PROVE  /\ Kept(lshadow'[t]) /\ lshadow'[t].frontier <= g /\ RowsReflect(t)'
              /\ Unshared(v) => lshadow'[t].frontier = g
  <2>1. /\ t \in Tables /\ Kept(lshadow[t]) /\ RowsReflect(t)
        /\ lshadow[t].frontier \in Nat /\ lshadow[t].frontier <= f
        /\ Unshared(v) => lshadow[t].frontier = f
      BY <1>3, <1>4, <1>9, <1>16 DEF DraftShadowsServe, RowsReflect
  <2>2. Clear(lshadow[t].frontier, cur - 1)
      BY <1>2, <2>1 DEF ShadowsCovered, InRound
  <2>3. /\ Kept(lshadow'[t]) /\ RowsReflect(t)'
        /\ lshadow'[t].frontier = IF cur > lshadow[t].frontier THEN cur ELSE lshadow[t].frontier
      BY <1>1, <2>1, <2>2, RowsExecuted
  <2>4. lshadow'[t].frontier <= g /\ (Unshared(v) => lshadow'[t].frontier = g)
      BY <1>3, <1>12, <1>16, <2>1, <2>3
  <2>. QED
      BY <2>3, <2>4
<1>17. DraftShadowsServe(v)'
  <2>1. \A t \in Rels[v] : lshadow'[t].exists = lshadow[t].exists
      BY <1>1, <1>3 DEF ExecTxDoes, ShadowTable
  <2>. QED
      BY <1>2, <1>4, <1>11, <1>16, <2>1 DEF DraftShadowsServe, RowsReflect
<1>18. ContentFits(v)' /\ ShadowsServe(v)'
  <2>1. \A i : DbAt(i)' = DbAt(i)
      BY <1>2, SameLog
  <2>. QED
      BY <1>2, <1>4, <2>1 DEF ContentFits, ShadowsServe
<1>. QED
    BY <1>15, <1>17, <1>18 DEF ViewFits

\* The peek: a round starts from what is committed.
LEMMA ViewPeeked ==
    ASSUME SlotInv, SlotInv', HistoryFits, FrontiersBehind, Lifecycle, ShadowsCovered',
           Peek, NEW v \in Views, ViewFits(v)
    PROVE  ViewFits(v)'
<1>. USE DEF SlotInv
<1>1. /\ pc = "peek" /\ UNCHANGED <<wal, status, populated, frontier, storage, shadow>>
      /\ \/ pc' = "idle"
         \/ /\ pc' = "apply" /\ lfrontier' = frontier
            /\ draft' = storage /\ plan' = storage /\ lshadow' = shadow
            /\ phase'[v] = IF status[v] = "live" THEN "on" ELSE "out"
    BY PeekIs
<1>2. ContentFits(v) /\ ShadowsServe(v)
    BY DEF ViewFits
<1>3. PICK f \in Nat : f = frontier[v]
    BY ViewTypes
<1>4. \A i : DbAt(i)' = DbAt(i)
    BY <1>1, SameLog
<1>5. ContentFits(v)' /\ ShadowsServe(v)'
    BY <1>1, <1>2, <1>4 DEF ContentFits, ShadowsServe
<1>6. CASE pc' = "idle"
    BY <1>5, <1>6 DEF ViewFits, InRound
<1>7. CASE pc' = "apply"
  <2>1. lfrontier'[v] = f
      BY <1>1, <1>3, <1>7
  <2>2. status[v] = "live" => Reflected(f)' = DbAt(f)
    <3>1. status[v] = "live" => Clear(f, cur' - 1)
        BY <1>1, <1>7, <2>1 DEF RoundSafe, Trying, Clear, Lsns, Decoded
    <3>. QED
        BY <1>7, <3>1, ReflectedPeeked
  <2>3. status[v] = "live" => populated[v]
      BY DEF Lifecycle
  <2>4. DraftFits(v)'
      BY <1>1, <1>2, <1>3, <1>4, <1>7, <2>1, <2>2, <2>3 DEF DraftFits, ContentFits, Trying
  <2>5. ASSUME status[v] = "live", IsJoin(v), NEW t \in Rels[v]
        PROVE  RowsReflect(t)'
    <3>1. /\ t \in Tables /\ Kept(shadow[t]) /\ shadow[t].rows = DbAt(shadow[t].frontier)[t]
        BY <1>2, <2>5, DataAssumption, ViewTypes DEF ShadowsServe
    <3>2. PICK s \in Nat : s = shadow[t].frontier
        BY <2>5, ViewTypes
    <3>3. Clear(s, cur' - 1)
        BY <1>1, <1>7, <3>1, <3>2 DEF ShadowsCovered, InRound, Kept, Clear, Lsns, Decoded
    <3>4. Reflected(s)' = DbAt(s)
        BY <1>7, <3>3, ReflectedPeeked
    <3>. QED
        BY <1>1, <1>7, <3>1, <3>2, <3>4 DEF RowsReflect
  <2>6. DraftShadowsServe(v)'
      BY <1>1, <1>2, <1>3, <1>7, <2>1, <2>5 DEF DraftShadowsServe, ShadowsServe, RowsReflect
  <2>. QED
      BY <1>5, <2>4, <2>6 DEF ViewFits
<1>. QED
    BY <1>1, <1>6, <1>7

\* The round's commit for such a view.
LEMMA ViewCommitted ==
    ASSUME SlotInv, CommitRound, NEW v \in Views, ViewFits(v)
    PROVE  ViewFits(v)'
<1>. USE DEF SlotInv
<1>1. /\ pc = "commit" /\ pc' = "advance" /\ shadow' = lshadow /\ UNCHANGED <<wal, populated>>
      /\ status'[v] = IF GaveUp(v) THEN "stale" ELSE status[v]
      /\ frontier'[v] = IF Loaded(v) THEN lfrontier[v] ELSE frontier[v]
      /\ storage'[v] = IF Loaded(v) THEN draft[v] ELSE storage[v]
    BY CommitRoundIs
<1>2. ContentFits(v) /\ ShadowsServe(v) /\ DraftFits(v) /\ DraftShadowsServe(v)
    BY <1>1 DEF ViewFits, InRound
<1>3. \A i : DbAt(i)' = DbAt(i)
    BY <1>1, SameLog
<1>4. ContentFits(v)'
  <2>1. CASE Loaded(v)
      BY <1>1, <1>2, <1>3, <2>1 DEF ContentFits, DraftFits, Loaded
  <2>2. CASE ~ Loaded(v)
      BY <1>1, <1>2, <1>3, <2>2 DEF ContentFits
  <2>. QED
      BY <2>1, <2>2
<1>5. ASSUME IsJoin(v), status'[v] = "live"
      PROVE  phase[v] = "on" /\ frontier'[v] = lfrontier[v]
  <2>1. status[v] = "live" /\ ~ GaveUp(v)
      BY <1>1, <1>5
  <2>2. phase[v] # "out" /\ phase[v] \in Phases
      BY <1>1, <2>1 DEF RoundSafe, TypeOK
  <2>3. phase[v] = "on"
      BY <1>1, <1>2, <1>5, <2>1, <2>2 DEF DraftFits, GaveUp, Phases
  <2>. QED
      BY <1>1, <2>3 DEF Loaded
<1>6. \A x : Reflected(x) = DbAt(x)
    BY <1>1 DEF Reflected
<1>7. ShadowsServe(v)'
  <2>. SUFFICES ASSUME IsJoin(v), NEW t \in Rels[v]
                PROVE  /\ status'[v] = "live" =>
                            /\ Kept(shadow'[t]) /\ shadow'[t].frontier <= frontier'[v]
                            /\ shadow'[t].rows = DbAt(shadow'[t].frontier)[t]
                       /\ Unshared(v) =>
                            /\ ~populated'[v] => ~shadow'[t].exists
                            /\ status'[v] = "live" => shadow'[t].frontier = frontier'[v]
      BY <1>3 DEF ShadowsServe
  <2>1. Unshared(v) => (lshadow[t].exists => shadow[t].exists) /\ (~populated[v] => ~shadow[t].exists)
      BY <1>2 DEF ShadowsServe, DraftShadowsServe
  <2>2. status'[v] = "live" => /\ Kept(lshadow[t]) /\ lshadow[t].frontier <= lfrontier[v]
                               /\ lshadow[t].rows = DbAt(lshadow[t].frontier)[t]
                               /\ Unshared(v) => lshadow[t].frontier = lfrontier[v]
      BY <1>2, <1>5, <1>6 DEF DraftShadowsServe
  <2>3. CASE lshadow[t].exists
      BY <1>1, <1>5, <2>1, <2>2, <2>3
  <2>4. CASE ~ lshadow[t].exists
      BY <1>1, <1>5, <2>1, <2>2, <2>4
  <2>. QED
      BY <2>3, <2>4
<1>. QED
    BY <1>1, <1>4, <1>7 DEF ViewFits, InRound

\* The idle advance moves such a view and its shadows on.
LEMMA ViewIdles ==
    ASSUME SlotInv, HistoryFits, FrontiersBehind, ShadowsCovered, IdleCommit,
           NEW v \in Views, ViewFits(v)
    PROVE  ViewFits(v)'
<1>. USE DEF SlotInv
<1>1. /\ pc = "idleCommit" /\ pc' = "poll" /\ UNCHANGED <<wal, status, populated, storage>>
      /\ upto \in Nat /\ upto <= Flushed
      /\ frontier'[v] = IF IdleAdvances(v) THEN upto ELSE frontier[v]
    BY DEF IdleCommit, TypeOK, Bounds
<1>2. ContentFits(v) /\ ShadowsServe(v)
    BY DEF ViewFits
<1>3. frontier[v] \in Nat /\ Rels[v] \subseteq Tables
      /\ \A t \in Rels[v] : shadow[t] \in ShadowTable /\ shadow[t].frontier \in Nat
    BY ViewTypes
<1>4. \A i : DbAt(i)' = DbAt(i)
    BY <1>1, SameLog
<1>5. \A t \in Rels[v] :
        shadow'[t] = IF Kept(shadow[t]) /\ shadow[t].frontier < upto
                     THEN [shadow[t] EXCEPT !.frontier = upto] ELSE shadow[t]
    BY <1>3 DEF IdleCommit, Kept
<1>6. DbAt(frontier'[v]) = DbAt(frontier[v])
  <2>1. CASE IdleAdvances(v)
    <3>1. Clear(frontier[v], upto) /\ frontier[v] < upto
        BY <1>1, <2>1 DEF IdleAdvances, AdvanceSafe
    <3>. QED
        BY <1>1, <1>3, <2>1, <3>1, ClearKeepsDb
  <2>2. CASE ~ IdleAdvances(v)
      BY <1>1, <2>2
  <2>. QED
      BY <2>1, <2>2
<1>7. ContentFits(v)'
    BY <1>1, <1>2, <1>4, <1>6 DEF ContentFits
<1>8. ShadowsServe(v)'
  <2>. SUFFICES ASSUME IsJoin(v), NEW t \in Rels[v]
                PROVE  /\ status'[v] = "live" =>
                            /\ Kept(shadow'[t]) /\ shadow'[t].frontier <= frontier'[v]
                            /\ shadow'[t].rows = DbAt(shadow'[t].frontier)[t]
                       /\ Unshared(v) =>
                            /\ ~populated'[v] => ~shadow'[t].exists
                            /\ status'[v] = "live" => shadow'[t].frontier = frontier'[v]
      BY <1>4 DEF ShadowsServe
  <2>1. /\ status[v] = "live" => /\ Kept(shadow[t]) /\ shadow[t].frontier <= frontier[v]
                                 /\ shadow[t].rows = DbAt(shadow[t].frontier)[t]
        /\ Unshared(v) => /\ ~populated[v] => ~shadow[t].exists
                          /\ status[v] = "live" => shadow[t].frontier = frontier[v]
      BY <1>2 DEF ShadowsServe
  <2>2. /\ shadow'[t].exists = shadow[t].exists /\ shadow'[t].failed = shadow[t].failed
        /\ shadow'[t].rows = shadow[t].rows
        /\ shadow'[t].frontier = IF Kept(shadow[t]) /\ shadow[t].frontier < upto
                                 THEN upto ELSE shadow[t].frontier
      BY <1>3, <1>5 DEF ShadowTable
  <2>3. Kept(shadow[t]) => DbAt(shadow'[t].frontier) = DbAt(shadow[t].frontier)
    <3>1. CASE Kept(shadow[t]) /\ shadow[t].frontier < upto
      <4>1. Clear(shadow[t].frontier, upto)
          BY <1>1, <1>3, <3>1 DEF ShadowsCovered
      <4>. QED
          BY <1>1, <1>3, <2>2, <3>1, <4>1, ClearKeepsDb
    <3>2. CASE ~ (Kept(shadow[t]) /\ shadow[t].frontier < upto)
        BY <2>2, <3>2
    <3>. QED
        BY <3>1, <3>2
  <2>4. status'[v] = "live" => /\ Kept(shadow'[t]) /\ shadow'[t].frontier <= frontier'[v]
                               /\ Unshared(v) => shadow'[t].frontier = frontier'[v]
      BY <1>1, <1>3, <2>1, <2>2 DEF IdleAdvances, Kept
  <2>5. status'[v] = "live" => shadow'[t].rows = DbAt(shadow'[t].frontier)[t]
      BY <1>1, <2>1, <2>2, <2>3
  <2>. QED
      BY <1>1, <2>1, <2>2, <2>4, <2>5
<1>. QED
    BY <1>1, <1>7, <1>8 DEF ViewFits, InRound

\* The first build of such a view, or its refresh: nobody else decides about its
\* shadows, or all who share them are in its group (populate.rs populate_group,
\* shadow.rs rebuild and ensure).
LEMMA ViewBuilt ==
    ASSUME TypeOK, FrontiersBehind, Lifecycle, ShadowRowsFit, RefreshedTogether, EndBuild,
           NEW v \in Views, Dependable(v), ViewFits(v)
    PROVE  ViewFits(v)'
<1>1. /\ pc = "building" /\ pc' = "build" /\ UNCHANGED wal /\ grp \subseteq Views
      /\ \A t \in Tables : shadow'[t] = ShadowAfterBuild(t)
      /\ storage'[v] = IF v \in grp THEN Query(v, DbAt(point)) ELSE storage[v]
      /\ frontier'[v] = IF v \in grp THEN point ELSE frontier[v]
      /\ status'[v] = IF v \in grp THEN "live" ELSE status[v]
      /\ populated'[v] = (populated[v] \/ v \in grp)
      /\ point \in Nat
    BY EndBuildIs DEF TypeOK
<1>2. ContentFits(v) /\ ShadowsServe(v)
    BY DEF ViewFits
<1>3. \A i : DbAt(i)' = DbAt(i)
    BY <1>1, SameLog
<1>4. ContentFits(v)'
    BY <1>1, <1>2, <1>3 DEF ContentFits
<1>5. ASSUME IsJoin(v), Unshared(v), NEW t \in Rels[v]
      PROVE  ShadowUsers(t) = IF v \in grp THEN {v} ELSE {}
    BY <1>1, <1>5 DEF ShadowUsers, Unshared, SharesTable
<1>6. Least({v}) = v
  <2>1. {v} \in SUBSET Nat /\ {v} # {}
      BY DEF Views
  <2>. QED
      BY <2>1, LeastIs
<1>7. ASSUME NEW t \in Rels[v], SnapshotsShadow(t)
      PROVE  /\ Kept(shadow'[t]) /\ shadow'[t].frontier = point
             /\ shadow'[t].rows = DbAt(shadow'[t].frontier)[t]
  <2>1. shadow'[t] = [exists |-> TRUE, failed |-> FALSE, frontier |-> point,
                      rows |-> DbAt(point)[t]]
      BY <1>1, <1>7, DataAssumption DEF ShadowAfterBuild
  <2>. QED
      BY <2>1 DEF Kept
<1>8. ASSUME NEW t \in Rels[v], ~ SnapshotsShadow(t)
      PROVE  shadow'[t] = shadow[t]
    BY <1>1, <1>8, DataAssumption DEF ShadowAfterBuild
<1>9. ShadowsServe(v)'
  <2>. SUFFICES ASSUME IsJoin(v), NEW t \in Rels[v]
                PROVE  /\ status'[v] = "live" =>
                            /\ Kept(shadow'[t]) /\ shadow'[t].frontier <= frontier'[v]
                            /\ shadow'[t].rows = DbAt(shadow'[t].frontier)[t]
                       /\ Unshared(v) =>
                            /\ ~populated'[v] => ~shadow'[t].exists
                            /\ status'[v] = "live" => shadow'[t].frontier = frontier'[v]
      BY <1>3 DEF ShadowsServe
  <2>1. /\ status[v] = "live" => /\ Kept(shadow[t]) /\ shadow[t].frontier <= frontier[v]
                                 /\ shadow[t].rows = DbAt(shadow[t].frontier)[t]
        /\ Unshared(v) => /\ ~populated[v] => ~shadow[t].exists
                          /\ status[v] = "live" => shadow[t].frontier = frontier[v]
      BY <1>2 DEF ShadowsServe
  <2>2. t \in Tables
      BY DataAssumption
  <2>3. CASE v \in grp
    <3>1. populated'[v] /\ frontier'[v] = point
        BY <1>1, <2>3, Zenon
    <3>2. CASE SnapshotsShadow(t)
        BY <1>1, <1>7, <3>1, <3>2
    <3>3. CASE ~ SnapshotsShadow(t)
      <4>1. shadow'[t] = shadow[t]
          BY <1>8, <3>3
      <4>2. ShadowUsers(t) # {}
          BY <1>1, <2>3 DEF ShadowUsers
      <4>3. Kept(shadow[t])
          BY <3>3, <4>2 DEF SnapshotsShadow, Kept
      <4>4. ~ Unshared(v)
        <5>1. Pending(v) /\ (status[v] = "initializing" => ~populated[v])
            BY <1>1, <2>3 DEF Lifecycle
        <5>2. Unshared(v) => Rebuild(v) \/ ~ shadow[t].exists
            BY <2>1, <5>1 DEF Rebuild, Pending
        <5>. QED
            BY <1>5, <1>6, <2>3, <3>3, <4>2, <5>2 DEF SnapshotsShadow
      <4>5. shadow[t].rows = DbAt(shadow[t].frontier)[t] /\ shadow[t].frontier <= point
          BY <1>1, <2>2, <4>3, <4>4
             DEF Dependable, CalmlyShared, ShadowRowsFit, ShadowIsSnapshot, Kept, FrontiersBehind
      <4>. QED
          BY <1>1, <3>1, <4>1, <4>3, <4>4, <4>5
    <3>. QED
        BY <3>2, <3>3
  <2>4. CASE v \notin grp
    <3>1. SnapshotsShadow(t) => ~ Unshared(v) /\ status[v] # "live"
      <4>. SUFFICES ASSUME SnapshotsShadow(t)
                    PROVE  ~ Unshared(v) /\ status[v] # "live"
          OBVIOUS
      <4>1. ~ Unshared(v)
          BY <1>5, <2>4 DEF SnapshotsShadow
      <4>2. PICK u : u = Least(ShadowUsers(t))
          OBVIOUS
      <4>3. u \in grp /\ u \in Views /\ IsJoin(u) /\ t \in Rels[u]
        <5>1. ShadowUsers(t) # {} /\ Views \subseteq Nat
            BY DEF SnapshotsShadow, Views
        <5>2. \A w \in ShadowUsers(t) : w \in grp /\ w \in Views /\ IsJoin(w) /\ t \in Rels[w]
            BY <1>1 DEF ShadowUsers
        <5>3. u \in ShadowUsers(t)
            BY <4>2, <5>1, <5>2, LeastIs
        <5>. QED
            BY <5>2, <5>3
      <4>4. status[v] = "live" => status[u] = "refreshing"
          BY <2>1, <4>2 DEF SnapshotsShadow, Kept, Rebuild
      <4>5. SharesTable(u, v)
          BY <4>3 DEF SharesTable
      <4>6. status[v] # "live"
          BY <4>1, <4>3, <4>4, <4>5 DEF RefreshedTogether, Dependable
      <4>. QED
          BY <4>1, <4>6
    <3>2. CASE SnapshotsShadow(t)
        BY <1>1, <2>4, <3>1, <3>2
    <3>3. CASE ~ SnapshotsShadow(t)
        BY <1>1, <1>8, <2>1, <2>4, <3>3
    <3>. QED
        BY <3>2, <3>3
  <2>. QED
      BY <2>3, <2>4
<1>. QED
    BY <1>1, <1>4, <1>9 DEF ViewFits, InRound

\* No step takes a view that can be relied on off its query.
LEMMA ViewFitsStep ==
    ASSUME SlotInv, SlotInv', HistoryFits, FrontiersBehind, Lifecycle, ShadowsCovered,
           ShadowsCovered', ShadowRowsFit, RefreshedTogether, NEW v \in Views, Dependable(v),
           ViewFits(v), [Next]_vars
    PROVE  ViewFits(v)'
<1>. USE DEF SlotInv
<1>1. ContentFits(v) /\ ShadowsServe(v)
    BY DEF ViewFits
<1>2. ASSUME /\ UNCHANGED wal \/ WalGrows
             /\ UNCHANGED <<frontier, populated, storage, shadow>>
             /\ status'[v] = "live" => status[v] = "live"
      PROVE  ContentFits(v)' /\ ShadowsServe(v)'
  <2>1. DbAt(frontier[v])' = DbAt(frontier[v])
      BY <1>2, ViewTypes, PastIsFixed
  <2>2. ASSUME NEW t \in Rels[v]
        PROVE  DbAt(shadow[t].frontier)' = DbAt(shadow[t].frontier)
      BY <1>2, <2>2, ViewTypes, PastIsFixed
  <2>. QED
      BY <1>1, <1>2, <2>1, <2>2 DEF ContentFits, ShadowsServe
<1>3. CASE Clients \/ UNCHANGED vars
  <2>1. UNCHANGED <<frontier, populated, storage, shadow, pc, cur, pos, phase, lfrontier, draft,
                    plan, lshadow>>
      BY <1>3 DEF Clients, CommitTx, CommitNoise, CreateView, Refresh, vars, catalogVars, roundVars
  <2>2. status'[v] = "live" => status[v] = "live"
    <3>1. ASSUME NEW u \in Views, CreateView(u)
          PROVE  status'[v] \in {"initializing", status[v]}
        BY <3>1 DEF CreateView, TypeOK
    <3>2. ASSUME NEW u \in Views, Refresh(u)
          PROVE  status'[v] \in {"refreshing", status[v]}
        BY <3>2 DEF Refresh
    <3>3. CASE CommitTx \/ CommitNoise \/ UNCHANGED vars
        BY <3>3 DEF CommitTx, CommitNoise, vars, catalogVars
    <3>. QED
        BY <1>3, <3>1, <3>2, <3>3 DEF Clients
  <2>3. UNCHANGED wal \/ WalGrows
      BY LogOnlyGrows
  <2>4. ContentFits(v)' /\ ShadowsServe(v)'
      BY <1>2, <2>1, <2>2, <2>3
  <2>5. \A f \in Nat : f <= Flushed => DbAt(f)' = DbAt(f) /\ Reflected(f)' = Reflected(f)
      BY <2>1, <2>3, ReflectedStays
  <2>6. PICK f \in Nat : f = lfrontier[v] /\ DbAt(f)' = DbAt(f) /\ Reflected(f)' = Reflected(f)
      BY <2>5, ViewTypes
  <2>7. DraftFits(v) => DraftFits(v)'
      BY <2>1, <2>6 DEF DraftFits
  <2>8. ASSUME NEW t \in Rels[v], RowsReflect(t)
        PROVE  RowsReflect(t)'
    <3>1. PICK s \in Nat : s = lshadow[t].frontier /\ Reflected(s)' = Reflected(s)
        BY <2>5, <2>8, ViewTypes
    <3>. QED
        BY <2>1, <2>8, <3>1 DEF RowsReflect
  <2>9. DraftShadowsServe(v) => DraftShadowsServe(v)'
      BY <2>1, <2>8 DEF DraftShadowsServe, RowsReflect
  <2>. QED
      BY <2>1, <2>4, <2>7, <2>9 DEF ViewFits, InRound
<1>4. CASE EndBuild
    BY <1>4, ViewBuilt
<1>5. CASE Peek
    BY <1>5, ViewPeeked
<1>6. CASE PlanChange
    BY <1>6, ViewPlanned
<1>7. CASE ExecTx
    BY <1>7, ViewExecuted
<1>8. CASE CommitRound
    BY <1>8, ViewCommitted
<1>9. CASE IdleCommit
    BY <1>9, ViewIdles
<1>10. CASE \/ LoadPending \/ BeginBuild \/ BuildFails \/ BuildsDone \/ PeekNothing
            \/ AdvanceSlot \/ IdleSlot \/ Abort
  <2>1. UNCHANGED <<wal, frontier, populated, storage, shadow>> /\ pc' \notin {"apply", "commit"}
      BY <1>10 DEF LoadPending, BeginBuild, BuildFails, BuildsDone, PeekNothing, AdvanceSlot,
                   IdleSlot, Abort, catalogVars
  <2>2. status'[v] \in {"failed", status[v]}
      BY <1>10 DEF LoadPending, BeginBuild, BuildFails, StatusAfterFailure, BuildsDone,
                   PeekNothing, AdvanceSlot, IdleSlot, Abort, catalogVars
  <2>. QED
      BY <1>2, <2>1, <2>2 DEF ViewFits, InRound
<1>. QED
    BY <1>3, <1>4, <1>5, <1>6, <1>7, <1>8, <1>9, <1>10 DEF Next, WorkerStep

-----------------------------------------------------------------------------
(* The inductive invariant, and what follows from it.                      *)

\* In every execution the log is consistent, every frontier lies within it, a
\* maintained shadow loses nothing and, if nobody truncates, holds its table, and
\* a view that can be relied on holds its query, at every step of every round.
THEOREM ContentInvariant == Spec => [](SlotInv /\ ContentInv)
<1>1. ASSUME Init PROVE ContentInv
  <2>1. /\ wal = <<>> /\ Flushed = 0 /\ Lsns = {} /\ slot = 0 /\ pc = "poll" /\ todo = {} /\ grp = {}
        /\ \A v \in Views : /\ status[v] = "absent" /\ populated[v] = FALSE
                            /\ frontier[v] = 0 /\ lfrontier[v] = 0
        /\ \A t \in Tables : shadow[t] = NoShadow /\ lshadow[t] = NoShadow
      BY <1>1 DEF Init, Flushed, Lsns
  <2>2. HistoryFits /\ FrontiersBehind /\ Lifecycle /\ FailuresCounted
      BY <2>1 DEF HistoryFits, FrontiersBehind, Lifecycle, FailuresCounted, InRound, NoShadow
  <2>3. ShadowsCovered /\ ShadowRowsFit
      BY <2>1 DEF ShadowsCovered, ShadowRowsFit, ShadowIsSnapshot, InRound, Kept, NoShadow, Clear
  <2>4. RefreshedTogether
      BY <2>1 DEF RefreshedTogether
  <2>5. ViewsFit
      BY <2>1, DataAssumption DEF ViewsFit, ContentFits, ShadowsServe, InRound, NoShadow
  <2>. QED
      BY <2>2, <2>3, <2>4, <2>5 DEF ContentInv
<1>2. ASSUME SlotInv, SlotInv', ContentInv, [Next]_vars PROVE ContentInv'
  <2>. USE <1>2 DEF ContentInv
  <2>1. HistoryFits'
      BY HistoryStep DEF SlotInv
  <2>2. FrontiersBehind' /\ Lifecycle' /\ FailuresCounted' /\ ShadowsCovered'
      BY FrontiersStep, LifecycleStep, FailuresStep, ShadowsCoveredStep
  <2>3. ShadowRowsFit' /\ RefreshedTogether'
      BY <2>2, ShadowRowsStep, TogetherStep
  <2>4. ViewsFit'
    <3>1. ASSUME NEW v \in Views, Dependable(v)
          PROVE  ViewFits(v)'
        BY <2>2, <3>1, ViewFitsStep DEF ViewsFit, ViewFits
    <3>. QED
        BY <3>1 DEF ViewsFit, ViewFits
  <2>. QED
      BY <2>1, <2>2, <2>3, <2>4
<1>. QED
    BY <1>1, <1>2, SlotInvariant, PTL DEF Spec

\* No step takes a frontier back (apply_round, populate.rs, idle_advance).
LEMMA FrontiersOnlyGrow ==
    ASSUME SlotInv, FrontiersBehind, [Next]_vars, NEW v \in Views
    PROVE  frontier[v] \in Nat /\ frontier'[v] \in Nat /\ frontier'[v] >= frontier[v]
<1>1. /\ frontier[v] \in Nat /\ lfrontier[v] \in Nat /\ point \in Nat /\ upto \in Nat
    BY DEF SlotInv, TypeOK
<1>2. CASE EndBuild
  <2>1. frontier'[v] = (IF v \in grp THEN point ELSE frontier[v]) /\ frontier[v] <= point
      BY <1>2, EndBuildIs DEF SlotInv, FrontiersBehind
  <2>. QED
      BY <1>1, <2>1
<1>3. CASE CommitRound
  <2>1. /\ frontier'[v] = IF Loaded(v) THEN lfrontier[v] ELSE frontier[v]
        /\ Loaded(v) => lfrontier[v] >= frontier[v]
      BY <1>3, CommitRoundIs DEF SlotInv, RoundSafe, Loaded
  <2>. QED
      BY <1>1, <2>1
<1>4. CASE IdleCommit
    BY <1>1, <1>4 DEF IdleCommit, IdleAdvances
<1>5. CASE Clients \/ UNCHANGED vars
    BY <1>1, <1>5 DEF Clients, CommitTx, CommitNoise, CreateView, Refresh, vars, catalogVars
<1>6. CASE \/ LoadPending \/ BeginBuild \/ BuildFails \/ BuildsDone \/ Peek \/ PeekNothing
           \/ PlanChange \/ ExecTx \/ AdvanceSlot \/ IdleSlot \/ Abort
  <2>1. ASSUME LoadPending \/ BeginBuild \/ BuildsDone \/ BuildFails PROVE frontier' = frontier
      BY <2>1 DEF LoadPending, BeginBuild, BuildsDone, BuildFails, catalogVars
  <2>2. ASSUME Peek \/ PeekNothing PROVE frontier' = frontier
      BY <2>2 DEF Peek, PeekNothing, catalogVars
  <2>3. ASSUME PlanChange PROVE frontier' = frontier
      BY <2>3 DEF PlanChange, catalogVars
  <2>4. ASSUME ExecTx PROVE frontier' = frontier
      BY <2>4 DEF ExecTx, catalogVars
  <2>5. ASSUME AdvanceSlot \/ IdleSlot \/ Abort PROVE frontier' = frontier
      BY <2>5 DEF AdvanceSlot, IdleSlot, Abort, catalogVars
  <2>6. frontier' = frontier
      BY <1>6, <2>1, <2>2, <2>3, <2>4, <2>5
  <2>. QED
      BY <1>1, <2>6
<1>. QED
    BY <1>2, <1>3, <1>4, <1>5, <1>6 DEF Next, WorkerStep

\* A view stays readable, and one that is not keeps its empty storage.
LEMMA ReadableFromThen ==
    ASSUME SlotInv, Lifecycle, [Next]_vars, NEW v \in Views
    PROVE  /\ populated[v] => populated'[v]
           /\ ~ populated'[v] => storage'[v] = storage[v]
<1>. USE DEF SlotInv
<1>1. CASE EndBuild
  <2>1. /\ storage'[v] = IF v \in grp THEN Query(v, DbAt(point)) ELSE storage[v]
        /\ populated'[v] = (populated[v] \/ v \in grp)
      BY <1>1, EndBuildIs
  <2>2. ~ populated'[v] => v \notin grp
      BY <2>1, Zenon
  <2>3. populated[v] => populated'[v]
      BY <2>1, Zenon
  <2>. QED
      BY <2>1, <2>2, <2>3
<1>2. CASE CommitRound
    BY <1>2, CommitRoundIs DEF Lifecycle, InRound, Loaded
<1>3. CASE Clients \/ UNCHANGED vars
    BY <1>3 DEF Clients, CommitTx, CommitNoise, CreateView, Refresh, vars, catalogVars
<1>4. CASE \/ LoadPending \/ BeginBuild \/ BuildFails \/ BuildsDone \/ Peek \/ PeekNothing
           \/ PlanChange \/ ExecTx \/ AdvanceSlot \/ IdleSlot \/ IdleCommit \/ Abort
    BY <1>4 DEF LoadPending, BeginBuild, BuildFails, BuildsDone, Peek, PeekNothing,
                PlanChange, ExecTx, AdvanceSlot, IdleSlot, IdleCommit, Abort, catalogVars
<1>. QED
    BY <1>1, <1>2, <1>3, <1>4 DEF Next, WorkerStep

\* Between a maintained shadow's frontier and the slot nothing touches its table
\* (shadow.rs, worker.rs apply_round): whatever errors, crashes and refreshes
\* there are, no shadow misses a change it has to absorb.
THEOREM ShadowsLoseNothing == Spec => []NoShadowLoss
<1>1. SlotInv /\ ContentInv => NoShadowLoss
  <2>. SUFFICES ASSUME ShadowsCovered, NEW t \in Tables, NEW i \in Lsns, Kept(shadow[t]),
                       shadow[t].frontier < i, i <= slot
                PROVE  ~ TouchesTable(i, t)
      BY DEF ContentInv, NoShadowLoss, Kept
  <2>1. ~ Decoded(i)
      BY DEF ShadowsCovered, Clear
  <2>. QED
      BY <2>1 DEF Decoded, TouchesTable
<1>. QED
    BY <1>1, ContentInvariant, PTL

\* A maintained shadow holds its base table as of its own frontier (shadow.rs), as
\* long as nobody truncates: apply_round leaves the shadow of a truncated table as
\* it is and marks the dependent views stale instead.
THEOREM ShadowsAreSnapshots ==
    ASSUME ~ Truncates
    PROVE  Spec => []ShadowIsSnapshot
<1>1. SlotInv /\ ContentInv => ShadowIsSnapshot
    BY DEF ContentInv, ShadowRowsFit
<1>. QED
    BY <1>1, ContentInvariant, PTL

\* A view that did not itself fail in a round absorbs the whole peek, however the
\* other views of the round fared (worker.rs apply_round, record_failure).
THEOREM HealthyViewsGoOn == Spec => HealthyViewsAbsorbPeek
<1>1. ASSUME SlotInv, ContentInv, [Next]_vars, pc = "commit", pc' = "advance",
             NEW v \in Views, phase[v] # "out", status'[v] = "live", failures'[v] <= failures[v],
             NEW i \in Lsns, Decoded(i), i <= upto
      PROVE  i <= frontier'[v]
  <2>. USE DEF SlotInv
  <2>1. CommitRound
      BY <1>1 DEF Next, Clients, CommitTx, CommitNoise, CreateView, Refresh, WorkerStep,
                  LoadPending, BeginBuild, EndBuild, BuildFails, BuildsDone, Peek, PeekNothing,
                  PlanChange, ExecTx, AdvanceSlot, IdleSlot, IdleCommit, Abort, vars
  <2>2. /\ status'[v] = IF GaveUp(v) THEN "stale" ELSE status[v]
        /\ frontier'[v] = IF Loaded(v) THEN lfrontier[v] ELSE frontier[v]
        /\ failures'[v] = FailuresAfter(v)
      BY <1>1, <2>1, CommitRoundIs
  <2>3. /\ lfailures[v] \in Nat /\ failures[v] \in Nat /\ lfrontier[v] \in Nat
        /\ phase[v] \in Phases
      BY <1>1 DEF TypeOK
  <2>4. phase[v] # "blocked"
      BY <1>1, <2>2, <2>3 DEF ContentInv, FailuresCounted, InRound, FailuresAfter, FailedThisRound
  <2>5. phase[v] \in Trying
      BY <1>1, <2>2, <2>3, <2>4 DEF GaveUp, Phases
  <2>6. Clear(lfrontier[v], upto)
      BY <1>1, <2>5 DEF RoundSafe
  <2>7. ~ (lfrontier[v] < i) /\ i \in Nat
      BY <1>1, <2>6, TransactionAt DEF Clear
  <2>. QED
      BY <1>1, <2>2, <2>3, <2>7 DEF Loaded
<1>2. SlotInv /\ ContentInv /\ [Next]_vars =>
        [pc = "commit" /\ pc' = "advance" =>
            \A v \in Views :
                /\ phase[v] # "out"
                /\ status'[v] = "live" /\ failures'[v] <= failures[v]
                => \A i \in Lsns : Decoded(i) /\ i <= upto => i <= frontier'[v]]_vars
    BY <1>1
<1>. QED
    BY <1>2, ContentInvariant, PTL DEF Spec, HealthyViewsAbsorbPeek

\* Deferred transactional consistency (worker.rs apply_round): if every view can
\* be relied on, a reader finds in each the view's query over the base tables as
\* of exactly the view's frontier.
THEOREM ViewsAreSnapshots ==
    ASSUME \A v \in Views : Dependable(v)
    PROVE  Spec => []ViewIsSnapshot
<1>1. SlotInv /\ ContentInv => ViewIsSnapshot
    BY DEF ContentInv, ViewsFit, ContentFits, ViewIsSnapshot
<1>. QED
    BY <1>1, ContentInvariant, PTL

\* "A shadow whose maintenance failed has no live dependents" (shadow.rs ensure),
\* nor has a missing one.
THEOREM LiveViewsHaveShadows ==
    ASSUME \A v \in Views : Dependable(v)
    PROVE  Spec => []FailedShadowHasNoLiveView
<1>1. SlotInv /\ ContentInv => FailedShadowHasNoLiveView
    BY DEF ContentInv, ViewsFit, ShadowsServe, FailedShadowHasNoLiveView, Kept
<1>. QED
    BY <1>1, ContentInvariant, PTL

\* A view that can be relied on stays on the log: at its frontier before and
\* after a step it holds the same query, over what was the same state.
LEMMA SameFrontierSameContent ==
    ASSUME SlotInv, ContentInv, ContentInv', [Next]_vars, NEW v \in Views, Dependable(v),
           populated[v], frontier'[v] = frontier[v]
    PROVE  storage'[v] = storage[v]
<1>. USE DEF SlotInv, ContentInv
<1>1. populated'[v]
    BY ReadableFromThen
<1>2. PICK f \in Nat : f = frontier[v] /\ f <= Flushed
    BY ViewTypes
<1>3. DbAt(f)' = DbAt(f)
    BY <1>2, LogOnlyGrows, PastIsFixed
<1>4. storage[v] = Query(v, DbAt(f))
    BY <1>2 DEF ViewsFit, ContentFits
<1>5. storage'[v] = Query(v, DbAt(f)')
    BY <1>1, <1>2 DEF ViewsFit, ContentFits
<1>. QED
    BY <1>3, <1>4, <1>5

\* What a reader finds changes only together with the frontier it reflects, which
\* never goes back (worker.rs apply_round, populate.rs populate_group).
THEOREM ContentMovesForward ==
    ASSUME \A v \in Views : Dependable(v)
    PROVE  Spec => ContentMovesWithFrontier
<1>1. ASSUME SlotInv, ContentInv, ContentInv', [Next]_vars, NEW v \in Views
      PROVE  /\ frontier'[v] >= frontier[v]
             /\ populated[v] /\ storage'[v] # storage[v] => frontier'[v] > frontier[v]
  <2>1. frontier[v] \in Nat /\ frontier'[v] \in Nat /\ frontier'[v] >= frontier[v]
      BY <1>1, FrontiersOnlyGrow DEF ContentInv
  <2>2. populated[v] /\ storage'[v] # storage[v] => frontier'[v] # frontier[v]
      BY <1>1, SameFrontierSameContent
  <2>. QED
      BY <2>1, <2>2
<1>2. SlotInv /\ ContentInv /\ ContentInv' /\ [Next]_vars =>
        [\A v \in Views :
            /\ frontier'[v] >= frontier[v]
            /\ populated[v] /\ storage'[v] # storage[v] => frontier'[v] > frontier[v]]_vars
    BY <1>1
<1>. QED
    BY <1>2, ContentInvariant, PTL DEF Spec, ContentMovesWithFrontier

\* Only writers and other WAL extend the log, and then no view moves.
LEMMA LogGrowsAlone ==
    ASSUME TypeOK, [Next]_vars
    PROVE  \/ UNCHANGED wal
           \/ /\ Len(wal') = Len(wal) + 1 /\ \A i \in DOMAIN wal : wal'[i] = wal[i]
              /\ UNCHANGED <<populated, frontier, storage>>
<1>1. CASE CommitTx \/ CommitNoise
  <2>1. WalGrows
      BY <1>1, CommitTxGrows, CommitNoiseGrows
  <2>2. DOMAIN wal = Lsns
      BY DEF TypeOK, Lsns
  <2>. QED
      BY <1>1, <2>1, <2>2 DEF WalGrows, Flushed, CommitTx, CommitNoise, catalogVars
<1>2. CASE ~ (CommitTx \/ CommitNoise)
    BY <1>2 DEF Next, Clients, CreateView, Refresh, WorkerStep, LoadPending, BeginBuild,
                EndBuild, BuildFails, BuildsDone, Peek, PeekNothing, PlanChange, ExecTx,
                CommitRound, AdvanceSlot, IdleSlot, IdleCommit, Abort, vars
<1>. QED
    BY <1>1, <1>2

\* The reader's specification speaks of the same views, states and queries.
LEMMA AbstractData ==
    /\ Abstract!Views = Views /\ Abstract!EmptyStorage = EmptyStorage
    /\ \A h, i : Abstract!StateAt(h, i) = IF i = 0 THEN EmptyDb ELSE h[i].db
    /\ \A v, d : Abstract!Query(v, d) = Query(v, d)
BY DEF Abstract!Views, Views, Abstract!EmptyStorage, EmptyStorage, Abstract!Groups, Groups,
       Abstract!StateAt, Abstract!EmptyDb, EmptyDb, Abstract!EmptyRows, EmptyRows,
       Abstract!Query, Query

\* Deferred transactional consistency as a refinement: seen by its readers, the
\* worker is DeferredView.  A source commit maps to a source commit, and every
\* step of the worker to a move of some views through the committed states, or to
\* no step at all.
THEOREM WorkerRefines ==
    ASSUME \A v \in Views : Dependable(v)
    PROVE  Spec => ImplementsDeferredView
<1>1. Init => Abstract!DVInit
    BY AbstractData DEF Init, Abstract!DVInit
<1>2. ASSUME SlotInv, ContentInv, ContentInv', [Next]_vars
      PROVE  [Abstract!DVNext]_<<wal, populated, frontier, storage>>
  <2>1. CASE /\ Len(wal') = Len(wal) + 1 /\ \A i \in DOMAIN wal : wal'[i] = wal[i]
             /\ UNCHANGED <<populated, frontier, storage>>
      BY <2>1 DEF Abstract!DVNext, Abstract!SourceCommit
  <2>2. CASE UNCHANGED wal
    <3>1. ASSUME NEW v \in Views
          PROVE  /\ populated[v] => populated'[v]
                 /\ frontier'[v] >= frontier[v] /\ frontier'[v] <= Len(wal)
                 /\ ~ populated'[v] => storage'[v] = storage[v]
        BY <1>2, <2>2, FrontiersOnlyGrow, ReadableFromThen
           DEF ContentInv, FrontiersBehind, Flushed
    <3>2. ASSUME NEW v \in Views, populated'[v]
          PROVE  storage'[v] = Query(v, Abstract!StateAt(wal, frontier'[v]))
      <4>1. storage'[v] = Query(v, DbAt(frontier[v])')
          BY <1>2, <3>2 DEF ContentInv, ViewsFit, ContentFits
      <4>. QED
          BY <2>2, <4>1, AbstractData DEF DbAt
    <3>. QED
        BY <2>2, <3>1, <3>2, AbstractData DEF Abstract!DVNext, Abstract!Move
  <2>. QED
      BY <1>2, <2>1, <2>2, LogGrowsAlone DEF SlotInv
<1>3. Spec => Abstract!DVInit /\ [][Abstract!DVNext]_<<wal, populated, frontier, storage>>
    BY <1>1, <1>2, ContentInvariant, PTL DEF Spec
<1>. QED
    BY <1>3 DEF ImplementsDeferredView, Abstract!DVSpec, Abstract!dvVars
=============================================================================
