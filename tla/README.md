# nabla: a verification project

nabla is a PostgreSQL extension that maintains views incrementally. A background worker
peeks a logical replication slot, applies each committed source transaction to the
views, and only then advances the slot. This directory holds TLA+ modules translated
from the Rust and SQL source, TLC configurations that check them on small instances, and
TLAPS proofs for all instances.

## Inventory: the system's parts

| part | state | operations | interacts through | correct when |
|---|---|---|---|---|
| background worker (`src/worker.rs`) | nothing durable of its own; during a round `LiveView`, `Shadow`, the peeked transactions | `run_round`: populate, lag check, peek, `apply_round`, `advance_slot`, idle advance; retry by `worker_main`'s poll loop | slot, catalog, storage tables, shadows | every readable view is its query at its frontier; the slot passes nothing a live view still needs; one view's failure stays its own |
| population (`src/populate.rs`) | temporary slot and snapshot of one transaction | `load_pending`, `group`, `populate_group`/`build`, `record_failure` | catalog status, main slot position, shadows | a view becomes live exactly at the snapshot the stream continues from |
| shadow tables (`src/shadow.rs`, `nabla.shadows`) | rows, frontier, failed flag, active columns, reference count | `create`, `extend`, `ensure`, `rebuild`; maintained by the worker | one shadow per base table, shared by all join views | shadow(X) is X at the shadow's frontier |
| incremental apply (`src/apply.rs`) | storage tables | plan (`delta_rows`), `execute`, `net` | called per change and view | the storage after a transaction is the query after it |
| SQL API (`src/api.rs`) | `nabla.views` rows; the slot and the publication it makes sure of | `create_view`, `drop_view`, `refresh`, `await_ready`, `wait_for`, `changes` | queues work through `status`; reads what the worker committed | a queued request is served; a wait that returns true is right |
| delta log and `changes` (`nabla.deltas`) | rows per view, sequence numbers, epoch | append, garbage collection, read from a cursor | worker writes, subscribers read | gap-free per epoch, or the subscriber is told |
| decoder (`src/pgoutput.rs`) | relation cache, the transaction being assembled | `feed`, `take_complete`, `discard_incomplete` | output of the peek | whole transactions in commit order |
| definition validation (`src/definition.rs`) | none | `validate` | at creation and rebuild | the specification means the query |
| catalog triggers (`sql/bootstrap.sql`) | catalog, publication, reference counts | `forget_view`, `prune_publication`, `on_sql_drop` | any DROP | a dropped view releases exactly what it took |
| idle window (`src/idle.rs`) | a pair of LSNs in shared memory | `publish`, `effective_frontier` | worker writes, `wait_for` reads | a view at the window's start reflects its end |
| Rust client (`clients/rust/nabla-client`) | cursor, buffered transaction | subscribe, poll, resync | `changes`, notifications | whole transactions, in order, or a resync |
| settings, errors, LSN text | none | — | — | formatting and declarations |

What makes it hard:

* **Several positions in one stream.** The slot, every view and every shadow have their
  own LSN. A view just built is ahead of the shadows it joins with; a view that failed
  is behind them. Only the rule "skip at or below your own frontier" holds this
  together.
* **Partial failure inside a round.** Each view absorbs each transaction in a
  subtransaction of its own. One may fail in the middle while the others go on.
* **Two kinds of durability.** Catalog and storage commit atomically once per round; the
  slot moves outside any transaction, before or after it, and may be found further back
  after a crash.
* **Requests in the middle of a round.** `create_view` and `refresh` commit while the
  worker holds a status it read earlier.
* **Sharing.** Join views share shadows: a rebuild moves them for everybody, and
  reference counts decide when a shadow goes.
* **What is read and when it is used.** `create_view` looks at the publication,
  `drop_view` at the row, the worker at its queue, and each acts later on what it saw.
* **A schema that changes under the stream.** Rows written before a DDL are decoded
  after it, by name, through whatever column list the decoder was given last.

## Modules

| module | models | role |
|---|---|---|
| `SourceData` | base tables, committed transactions, the views' queries, `apply.rs`'s effect on a storage table | data used everywhere |
| `Worker` | `run_round`, `run_pending`, `shadow.rs`, `create_view`, `refresh` | the core state machine, its properties and the inductive invariant of the slot |
| `DeferredView` | what a reader is promised | abstract specification |
| `WorkerContent` | what ties views, shadows and a round's uncommitted work to the base tables: the refinement of `DeferredView` and the inductive invariant `ContentInv` | properties of `Worker` |
| `MCWorker` | instances of `Worker` for TLC | model checking |
| `Netting` | the deltas one transaction leaves for one view and their net effect (`apply.rs` `execute`, `net`) | data of the delta log |
| `DeltaLog` | one view's row of `nabla.views` and rows of `nabla.deltas`: rounds, retention, rebuilds, `refresh`, what `changes` answers | the server, as a subscriber meets it |
| `Subscription` | the Rust client (`connect`, `bootstrap`, `fetch`, `next`, `resync`), composed with `DeltaLog` | the client |
| `FollowedView` | what an application that follows a view is promised | abstract specification |
| `MCSubscription` | an instance of `Subscription`, which implements `FollowedView` | model checking, refinement |
| `Order` | least and greatest position of a set, the numbers of a set in order, reachability over views | operators |
| `Stream` | the WAL with the worker's own commits in it, the slot's presence and lag, frontiers, the idle window, `wait_for` | the slot and what hangs on it |
| `Catalog` | `create_view`, `refresh`, `drop_view`, DROP of a base table, references, publication, the population's queue | the bookkeeping around views |
| `Schema` | column changes, the relation cache, drift, active columns of a shadow, rebuilds against the schema of the day | how rows are read |
| `Decoder` | `Decoder` of `pgoutput.rs` (`feed`, `discard_incomplete`, `take_complete`), kept across rounds and thrown away by a failed one; `resolve_types` | how messages become transactions |
| `CommitOrder` | what the other modules take from the peek | abstract specification |
| `MCStream`, `MCCatalog`, `MCSchema`, `MCDecoder` | instances of the four for TLC | model checking |
| `OrderProofs` | lemmas about `Order` | lemmas |
| `WorkerProofs` | theorems about `Worker` and `WorkerContent`; it begins with the lemmas about `SourceData` (the delta rule: what a planned change makes of a storage table is the query after it) | theorems |
| `LogProofs`, `SubscriptionProofs` | theorems about `DeltaLog` (with `Netting`) and about `Subscription` on top of it | theorems |
| `StreamProofs`, `CatalogProofs`, `SchemaProofs`, `DecoderProofs` | theorems about the other four | theorems |

`Worker` says what a round does to the content of views. `Stream`, `Catalog` and
`Schema` each look at the same worker from one more side and abstract the content away:
position, existence, columns. They meet in the population, which all four have, and keep
the code's names for it. All of them start from whole transactions in commit order:
`Decoder` shows that this is what the code makes of a peek.

An operator named after another with a suffix (`Described_ByName` before `Described`) is
what a plausible mistake in the code would make of it. No specification uses it; put in
the place of the other it breaks the property `PROJECT.json` names with it.

### The worker (`Worker`)

An LSN is a position in `wal`, the sequence of committed transactions; position `i` is
the end LSN of the i-th one and `DbAt(i)` the committed state there. `slot` is the
confirmed flush position. `status`, `populated` (`populated_at IS NOT NULL`),
`frontier`, `failures` (`apply_failures`), `epoch` and `storage` are `nabla.views` and
the storage tables, `shadow` is `nabla.shadows` and the shadow tables.

The worker's program counter `pc` follows `run_round`:

| `pc` | code | actions |
|---|---|---|
| `poll` | start of a round | `LoadPending` (`load_pending`) |
| `build`, `building` | `run_pending`, one group per transaction | `BeginBuild` (snapshot, consistent point), `EndBuild`, `BuildFails`, `BuildsDone` |
| `peek` | flush position, peek, load of views and shadows | `Peek`, `PeekNothing` |
| `apply` | `apply_round` | `PlanChange` (phase 1, one change for all views and its shadow), `ExecTx` (phase 2, one transaction, each view in its subtransaction) |
| `commit` | end of `apply_round` and its commit | `CommitRound` |
| `advance` | `advance_slot` | `AdvanceSlot` |
| `idle`, `idleCommit` | idle advance of a drained round | `IdleSlot`, `IdleCommit` |

`phase`, `lfrontier`, `lfailures`, `draft`, `plan` and `lshadow` are the round's
in-memory `LiveView`s and the uncommitted contents of storage and shadow tables: nobody
sees them before `CommitRound`, and `Abort` throws them away. Clients act at any moment:
`CommitTx`, `CommitNoise`, `CreateView`, `Refresh`.

`phase[v]` says what the flags of a `LiveView` say: `on` (absorbing), `doomed` (a
planned row will violate the unique index when executed), `stale` and `error` (the
`stale` or `failed` field set in phase 1), then the ways of being `dead`: `marked`
(marked stale), `blocked` (failed, to be retried), `gaveup` (failed for the last time);
`out` is not loaded at all.

### The delta log and its subscriber (`DeltaLog`, `Subscription`)

`DeltaLog` looks at one view from the other side. What the view contains and why it
fails is `Worker`'s subject; here a transaction writes any rows, a build finds any
content, and a view may go stale in any round. What is exact is what subscribers depend
on:

| action or operator | code |
|---|---|
| `BeginRound`, `RoundTx`, `EndRound`, `AbortRound` | `load_live_views`; one view's phase 2 (execute, `net`, number); the end of `apply_round` (catalog row, `insert_deltas`, collection by number); the rollback |
| `RequestRefresh`, `BuildView`, `BuildGivesUp` | `refresh`; `build` (new content, log emptied, epoch + 1 on a rebuild); `record_failure` |
| `Verdict`, `Page` | `nabla.changes`: stale, failed, epoch, lagged, in that order, then a page and the rest of its last transaction |
| `BootstrapReads`, `BootstrapEnds` | `bootstrap`: the snapshot of its REPEATABLE READ transaction, and the answer adopted later |
| `Fetch`, `HandOut` | `fetch` with the branches of `next`; an event leaving `next`, applied by the application to `copy` |
| `LoseConnection`, `Reconnect` | the connection found dead at its next use; `reconnect` with `connect` |

`tail` and `queue` are the fields `tail` and `pending`; `cstate` is `conn` and `state`
together. `log` is a set, as a table is; what orders it is the number of a row (`BySeq`,
the code's ORDER BY seq). `past` is a history variable, read only by properties: per
epoch, the contents and the `seq` each is known by. An error of `next` (view failed,
protocol) changes nothing in the client, and the application calls again.

### The stream (`Stream`)

Here `wal` holds everything that moves the flush position, hence also what changes no
published table (`NoTable`): other sessions' commits and the worker's own bookkeeping.
This is what makes a quiet system hard: the worker must not wake itself with its own
commits, and a frontier falls behind the WAL although the view misses nothing. `slot` is
the slot with its presence, position and the position it was made at.

| `pc` or action | code |
|---|---|
| `CreateView`, `Refresh` | with `ensure_slot`, which is not undone with the caller's transaction |
| `poll`, `build`, `building` | `run_pending`: `LoadPending`, `BeginBuild`, `EndBuild`, `BuildFails` (the main slot is past the consistent point, or something transient) |
| `lag` | `NoSlotYet`, `DropSlot`, or the peek: `PeekNothing`, `Peek` |
| `dropping` | `MarkStale`: the drop is not transactional and comes before the commit that marks the views |
| `apply`, `advance` | `Apply` (`apply_round` and its commit), `AdvanceSlot` |
| `idle`, `idleCommit`, `note` | the idle advance: the slot, the frontiers, then `selfFlush`, `lastAdvance` and the window in shared memory |
| `WaitReads`, `WaitChecks` | `wait_for`: it reads the frontier and later the window |
| `RoundError`, `WorkerRestart`, `ServerCrash` | what each loses: the round, `WorkerState` too, shared memory and sessions too (the slot is found further back) |

### The catalog (`Catalog`)

What reads first and acts later has two steps: `CreateReads`/`CreateCommits` (the tables
missing from the publication), `DropReads`/`DropCommits` (`populated_at`), `LoadPending`
and each `BeginBuild` (the queue `asLoaded` is read once, each group's snapshot is its
own). `conflict` is the serialization failure a REPEATABLE READ population meets when a
row it writes has changed since its snapshot. `Forget`, `ShadowAfterForget` and `Needed`
are `forget_view` and `prune_publication`; `DropBase` is DROP TABLE ... CASCADE with the
`sql_drop` trigger.

### The schema (`Schema`)

A row in `wal` is the column list it was written under; that is enough to say what a
value really is when it is read. A column's `gen` tells contents apart: a column dropped
and added again under the same name and type is a different column, which no catalog
lookup tells. `spec` is `used_columns` and `used_column_types`, `stored` the storage
table's columns, `shadow.columns` the active columns of the shadow. `Relation(e)` is the
relation message the decoder has at the end of a peek: the *last* one of the peek, for
all its rows. `misread` is a history variable: the views that hold a value of another
column. A round (`Round`) is one step, and so is the population of a group
(`PopulateGroup`).

The code does not survive every sequence of DDL (see below). `Calm` names what the
sessions avoid, and the theorems say which of it they need:

* `"peek"` — they change the schema only when the worker is past every row written so
  far;
* `"reuse"` — they do not bring back a column by a name and type something still knows;
* `"group"` — they refresh no view together with one that was never populated;
* `"shadow"` — they make no first build on a shadow whose columns the table no longer
  has.

### The decoder (`Decoder`)

`WorkerState` keeps one decoder for as long as rounds succeed. `feed` can refuse a
message (`BEGIN while a transaction is already open`, `COMMIT without BEGIN`, `row
change outside a transaction`), so what one round leaves in the decoder decides whether
the next one works. An LSN is again a position in the sequence `committed`.

| action | code |
|---|---|
| `Peek` | the flush position and the peek of `run_round`; what it returns is read message by message through `sending` and `sent` |
| `FeedBegin`, `FeedRelation`, `FeedChange`, `FeedCommit` | the branches of `feed`, with `push`; a message refused ends the round (`RoundFails`) |
| `PeekEnds` | `has_incomplete`, `discard_incomplete`, `take_complete`, after the last message wherever it is |
| `ApplyRound` | the relations `apply_round` looks up, with `resolve_types`; an unknown one fails the round |
| `AdvanceSlot` | `advance_slot`, after all transactions or up to the one a view blocks |
| `RoundError`, `Crash` | `worker_main` after an error: a new `Decoder`; a restart, which finds the slot further back |

`current` and `relations[t]` are an `Option`: a set of at most one member. A `Change` is
the tables it concerns, each with the column list it was written under; `told` is the
column list the peek last described a table by, which pgoutput keeps per peek and
repeats when it changes. `Described` is the loop that keeps the names of types across
relation messages, `Resolved` what `resolve_types` adds.

### Abstractions

* `NOTIFY` is not modelled: the fallback timer makes a fetch possible at any time, and a
  notification only makes it earlier.
* `xid` is not modelled: the end LSN already identifies a transaction. All statements of
  one `changes` call read one snapshot, since they run in read-only SPI.
* `keep_hidden` is false; hidden values in deltas are documented as best-effort. One
  client follows one view; subscribers do not affect one another.

* A view groups or projects the rows of its relations joined on the key, by key and
  value. This is the finest grouping, of which counts and sums over coarser groups are
  functions. WHERE clauses are not modelled. A value in `Poison[v]` makes the select
  list raise an error, as `100 / k` does for `k = 0`.
* `nabla.batch_changes` is any cut of the peek after a whole transaction.
* `PeekNothing` stands for the comparison with the worker's own flush position: when
  nothing decodable is there the round may end at once.
* The slot exists from position 0, where `create_view` made it. A crash may set it back
  to any earlier position, further than the last checkpoint really would.
* A transient error hits a flaky view when it executes or is populated; `MaxFaults`
  counts those, `MaxShadowFaults` errors of shadow maintenance, `MaxCrashes` aborts and
  crashes, `MaxRefreshes` calls of `refresh`, `MaxLsn` committed transactions and
  `MaxTxChanges` the changes of one.
* Tables have full old rows in the WAL; join views take theirs from the shadow, as the
  code does. In `Worker` a rebuild does not fail on `definition::validate`, since the
  schema does not change there; `Schema` has that.
* `Stream`: `ensure_slot` is one step with its caller, and the lag check with the peek
  after it. A commit changes one published table or none. A `bad` change makes flaky
  views fail and is taken back for later populations. Shadow failures, content and the
  timeout of `wait_for` are left out, so a wait ends by its answer or by the view's
  error. `await_ready` is left out: that a queued view is served is `PendingIsServed`.
* `Catalog`: view ids are serial and never used again, names are left out. `DropBase` is
  atomic. A session's direct DROP of a shadow or a storage table is left out.
* `Decoder`: the bytes of a message and the kinds `feed` ignores are left out, and of a
  row its columns' values. Keys, namespace and replica identity of a relation do not
  matter to the decoder. A peek may end after any message, although PostgreSQL ends it
  only between transactions and the code merely guards against the rest; one that ends
  early has met `nabla.batch_changes`, so no idle advance follows it.
* `Schema`: every transaction is one INSERT or changes another table; a view gives up at
  its first failure; the slot is not set back (a round may be repeated, though); the key
  is neither dropped nor renamed; the text of a value of another type does not read as
  one of this type.

## What is checked

| run | instance | checks |
|---|---|---|
| `single` | one table; a count and a projection that fails on one value; 2 attempts, TRUNCATE, one transient error, one crash, one refresh, 3 transactions | `ViewIsSnapshot`, `NoLoss`, `SlotInv` (the inductive invariant), `ContentMovesWithFrontier`, `HealthyViewsAbsorbPeek` |
| `join` | a single-table and a join view over two tables, failing view goes stale at once, one shadow fault, crash, refresh, 3 transactions | `TypeOK`, `NoShadowLoss`, `FailedShadowHasNoLiveView`, `ContentInv` (the inductive invariant), refinement `ImplementsDeferredView` |
| `shared` | two join views on the same two shadows, transactions of two changes, crash, cascading refresh, 2 transactions | `ShadowIsSnapshot`, `ViewIsSnapshot` |
| `liveness` | as `join` with 2 attempts and a transient error, 2 transactions, weak fairness of the worker | `CatchesUp`, `PendingIsServed` |
| `subscription` | one identity, three rows of which two show alike; 2 transactions of up to 2 writes, 2 rows retained, pages of 1; one refresh, one lost connection; weak fairness of the client | `SubTypeOK`, `ServesWholeTransactions`, `DeltasAreNetEffect`, `SubInv` (the inductive invariant: `LogInv` and `ClientInv`), refinement `ImplementsFollowedView`, `CopyCatchesUp` |
| `stream` | a single-table view that fails on bad rows and a join view on the same table; 2 attempts, a lag cap of 4 entries; one write, one failed population, one crash or error, one refresh | `StreamTypeOK`, `SlotPlaced` (the inductive invariant), `NothingSkipped`, `ShadowsKeepUp` |
| `wait` | one view, one call of `wait_for`, one write, crash and refresh, the same cap; weak fairness of worker and waiting session | `WindowPlaced` (the inductive invariant), `WaitIsRight`, `WaitReturns` |
| `catalog` | three join views and a single-table view on two tables; one failed population, two refreshes; `CalmDdl`, `CalmRefresh` | `CatalogTypeOK`, `RefsAreUsers`, `NeededIsPublished`, `NoOrphans`, `DdlSafe` (the inductive invariant) |
| `schema` | join views on columns `{K, A}` and `{K, B}`, a single-table view on `{A}`, two types; 2 transactions, 2 schema changes, one refresh; all four cautions | `SchemaTypeOK`, `ReadsItsColumns`, `HeldByShadow`, `DriftSafe` (the inductive invariant), `OnlyUsersGoStale`, `ResolvingRebuilds` |
| `decoder` | two tables, two types of a column; 3 transactions: an empty one, one on both tables, one that retypes a column between two changes, a TRUNCATE of both | `DecoderInv` (the inductive invariant), refinement `ImplementsCommitOrder` |
| `blocked_join` | one join view that retries | finds `ViewIsSnapshot` violated |
| `straddled_peek` | one view, without the caution `"peek"` | finds `ReadsItsColumns` violated |

`single`, `join`, `shared`, `liveness` and `blocked_join` are runs of `MCWorker`;
the others of the module of their name (`wait` of `MCStream`, `straddled_peek` of
`MCSchema`).

**Bounds.** Three transactions let an insert, an update or delete and a further change
happen around a failure, a retry and a crash; two let two objects be built at different
positions and both replay. One key suffices since rows of different keys never meet
(joins are on the key); two values make updates visible. Two views make one ahead of,
behind and beside the other. The depth of a round (several transactions in one peek) is
reached because clients may commit all of them before the worker polls. In
`subscription` an update is two rows: with pages of one row every update straddles a
page, with two rows retained the second transaction makes the collection cut the first
one, and a client that has not fetched has lagged; two writes of the identity give up to
four deltas. Identities that show alike, which may swap what they show, are left to the
proofs (`LogHoldsNetEffects`, `ClientFollowsView`): two of them in this run are too many
states.

In `stream` one write is enough because every population, every idle advance and every
making of the slot writes WAL too: the cap of 4 is exceeded by the worker's own work,
and commits that change nothing are among the writes. The slot is dropped, made again by
a refresh and set back by a crash in the same behaviour. In `wait` the window is
published or moved between the two reads of the call, and lost in a crash before it. In
`catalog` three views on one shadow make a count of more than one that is given back by
a drop, by a base table's drop and not by a view never built; four allow a view to be
created after another was dropped. In `schema` two changes make drop-and-add,
rename-over and retype-and-back; two transactions give a row written before a change and
one after it (in `straddled_peek` in one peek), and the three views are on a changed
column, off it, and on the same shadow. The same run with three transactions (7.1
million states) finds no error either. In `decoder` a peek of several transactions is
cut in each of them, fails after any of its messages or after they were taken, and is
repeated with more committed; the tables are described, described again in the same
peek, and described in the next one by a list the cache has in another type.

**Fairness.** `WF_vars(WorkerStep)`: `worker_main` runs a round every poll interval and
after an error, for ever. Clients owe nothing, and no fairness makes an error go away:
errors are bounded instead (`MaxFaults`), poison rows fail for ever and are cut off by
`MaxFailures`. Aborts are bounded: a worker that is restarted for ever makes no
progress. `FairSubSpec`: the application keeps calling `next`, whose timers fire and
whose reconnect at last succeeds; nothing is asked of the server. `CopyCatchesUp` speaks
of the time after the last change, because a server that never rests may let a slow
client lag again and again. `FairStream`: the worker as above, and a session in
`wait_for` polls every 10 ms until it returns. Aborts and crashes are bounded in each.

### Where the code departs from what it promises

Two runs let TLC find such a behaviour:

* `blocked_join` — a join view that retries a transaction meets shadows that have
  already absorbed it, and its content is no longer its query at any commit.
* `straddled_peek` — a column the view does not use is dropped between two inserts that
  are peeked together; the first row is read through the column list of the second, and
  the view shows a value of another column and stays live.

The others are reproduced by changing the constants of a run as said:

| what happens | source | reproduce |
|---|---|---|
| TRUNCATE leaves the rows in a healthy shadow; a view built past it joins with them | `worker.rs:471` | `shared.cfg` with `Truncates = TRUE`: `ViewIsSnapshot` |
| `refresh` leaves out a view still initializing that shares a shadow; the two are built at different points | `api.rs:467` | `shared.cfg` with `CalmRefresh = FALSE`: `ViewIsSnapshot` |
| a shadow fails on a transaction one of its views already absorbed; the view stays live on it | `worker.rs:870` | `join.cfg` with `shared.cfg`'s `Rels`, `GroupTab`, `Shape` and `Poison`: `FailedShadowHasNoLiveView` |
| a `refresh` during a round in which the view fails is overwritten by `stale` and never served | `worker.rs:524` | read off the code; `ExecTx`, `CommitRound` and `Refresh` have it |
| a stale view whose refresh fails becomes `failed`, not `stale` | `populate.rs:433` | read off the code; `BuildFails` has it |
| the slot is dropped for lag, the live views go stale and the shadows keep `failed = false`: a first build reuses one that missed changes | `worker.rs:1033` | `stream.cfg` with `Rels <- TwoJoins`, `Flaky = {}` and 3 writes: `ShadowsKeepUp` |
| the slot is dropped for lag while a view is queued or being built, or a crash comes between drop and commit: a live view without a slot, which the next `ensure_slot` makes past its frontier | `populate.rs:379`, `worker.rs:1036` | `stream.cfg` with `CalmLag = FALSE`: `SlotPlaced`, `NothingSkipped` |
| a view dropped while the group it was queued in is built: its VIEW and storage are made and belong to nobody | `populate.rs:445` | `catalog.cfg` with `CalmDdl = FALSE`, `Rels <- Single`, `NViews = 1`: `NoOrphans` |
| `drop_view` prunes a table that a `create_view` not yet committed found published | `bootstrap.sql:134`, `api.rs:191` | `catalog.cfg` with `CalmDdl = FALSE`: `NeededIsPublished` |
| `drop_view` reads `populated_at` while the first build commits, or drops a view that is then built from the queue: the reference is never given back | `bootstrap.sql:93` | the same: `RefsAreUsers` |
| a view never populated is rebuilt in a group whose first user is a rebuild: it takes no reference, and its drop gives one back | `populate.rs:268-277` | `catalog.cfg` with `CalmRefresh = FALSE`: `RefsAreUsers` |
| a column dropped and added again under its name and type is taken for the old one | drift compares names and types | `schema.cfg` without `"reuse"`: `ReadsItsColumns` |
| a member that was never populated and no longer resolves fails the rebuild of the whole group, against the comment at `populate.rs:238-241` | `populate.rs` `build` | without `"group"`: `ResolvingRebuilds` |
| `extend` compares names only: a column the shadow holds in another type is not fetched again | `shadow.rs:212` | without `"shadow"`: `HeldByShadow` |
| a storage table is not retyped by a rebuild: a column whose new type does not assign to the old one fails it for good | `populate.rs:284-289` | with `Assignable = {}`: `ResolvingRebuilds` |

Read off and not modelled: the name of a type is kept with a column until the type or
name of the column changes (`pgoutput.rs:235-240`), so after ALTER TYPE ... RENAME
values are cast to the old name until the worker has a new decoder; a table rewrite or
TRUNCATE between a population's snapshot and its reads shows it an empty table (neither
is MVCC-safe); a comment at `worker.rs:751-754` states a lock order that `refresh`
(`api.rs:466`) does not keep. `apply_failures` adds up over different transactions
(`worker.rs:944`); the runs have that, as the code does, and no property speaks of it.

The passing runs leave out what leads there, and no more: `join` uses `MaxFailures = 1`
(no retry, hence no `blocked_join`) and has one join view; `shared` has no errors, no
TRUNCATE and `CalmRefresh = TRUE` (`refresh` is called only when no view is
initializing); `stream` and `wait` have `CalmLag`, and `stream` one join view; `catalog`
has `CalmDdl` and `CalmRefresh`; `schema` has the four cautions. `single` has all of it,
with views that use no shadow.

## What is proved

Every theorem holds for every number of tables, views, keys, values, columns and types,
every shape of definition and every value of the bounds, from the assumption named in
its module (`DataAssumption`, `WorkerAssumption`, `NettingAssumption`,
`DeltaLogAssumption`, `SubscriptionAssumption`, `StreamAssumption`, `CatalogAssumption`,
`SchemaAssumption`, `DecoderAssumption`: types and ranges of the constants) and, where
said, from one of the `Calm` constants.

**Worker.** From no further assumption:

* `TypeCorrect`: `Spec => []TypeOK`. Not only typing: it includes that the row count of
  a group never becomes negative, whatever is retried or replayed.
* `SlotInvariant`: `Spec => []SlotInv`.
* `NothingLost`: `Spec => []NoLoss`.

`NoLoss` says of a live view that no transaction touching it lies between its frontier
and the slot. It is not inductive: the slot is advanced steps after the decision where
to, from values computed in a round, and crashes come in between. `SlotInv` adds, part
by part, what each step needs:

* `Covered` — nothing decodable lies between a live view's frontier and the slot. It is
  stronger than `NoLoss` because the slot does not know which views a transaction
  touches.
* `RoundSafe` — while a round runs, a view that is still absorbing has absorbed all
  before the current transaction, and a blocked one all before `blockedAt`, the
  transaction the slot will be held at. This is why the *first* blocked transaction
  counts and not the last.
* `AdvanceSafe` — after the commit, the position to advance to (`advTo`), and for a
  drained peek the flush position at peek time (`upto`), are covered for every live
  view: the views of the round, and those that were built before it.
* `Bounds` — positions lie within the log, the current transaction within the window.

The proof takes each action in turn (`ClientsSafe`, `PopulationSafe`, `PeekSafe`,
`PlanChangeSafe`, `ExecTxSafe`, `CommitRoundSafe`, `AdvanceSlotSafe`, `AbortSafe`). A
new transaction lies beyond the slot (`OldTransactions`); a population goes live at the
end of the log, where nothing is left to absorb; an abort only moves the slot back. The
least and greatest positions of a window exist by well-founded induction over the
naturals (`LeastIs`, `GreatestIs`).

**Content of views and shadows** (second half of `WorkerProofs`). Without further
assumption:

* `ContentInvariant`: `Spec => [](SlotInv /\ ContentInv)`.
* `ShadowsLoseNothing`: `Spec => []NoShadowLoss`.
* `HealthyViewsGoOn`: `Spec => HealthyViewsAbsorbPeek`.

If nobody truncates, `ShadowsAreSnapshots` (`ShadowIsSnapshot`). If every view is
`Dependable`:

* `ViewsAreSnapshots`: `Spec => []ViewIsSnapshot`.
* `LiveViewsHaveShadows`: `Spec => []FailedShadowHasNoLiveView`.
* `ContentMovesForward`: `Spec => ContentMovesWithFrontier`.
* `WorkerRefines`: `Spec => ImplementsDeferredView`, step by step.

`Dependable` is a condition on the constants, and no stronger than what the code needs.
A single-table view always is: TRUNCATE, retries, poison rows, crashes and refreshes
included. A join view is if it shares no base table with another one (`Unshared`) and
either is marked stale at its first failure or is `Steady`, its own work meeting no
error: a join view that retries is what `blocked_join` shows to break. The default of
`nabla.max_apply_failures` is 3, so with the defaults the theorem speaks of join views
whose select list raises no error. Join views that do share shadows are dependable
together (`CalmlyShared`) if nobody truncates, `refresh` waits for first builds, they
are steady, maintaining a shadow meets no error, and sharing is transitive. Each of
these conditions but the last is violated by a behaviour listed above; the last keeps
`group`, which is greedy, from splitting views on one shadow over two transactions
(`populate.rs:155`).

That a view is its query is not inductive: the content of a storage table depends on the
shadows it was computed from, on rows planned and not yet executed, and on what is
uncommitted. `ContentInv` says of each of them which state of the base tables it
reflects:

* `HistoryFits` — every change in the log was made in the state it found. Without it an
  update's old row need not be in the view.
* `FrontiersBehind`, `Lifecycle`, `FailuresCounted` — no frontier is beyond the log or a
  build's point; only pending views are built; a view is blocked with a failure more
  than the catalog has.
* `ShadowsCovered` — a maintained shadow has absorbed what the slot has passed, every
  transaction before the current one during a round, the whole peek after it. It holds
  of shadows whatever becomes of views, which is why `NoShadowLoss` needs no assumption.
* `ShadowRowsFit` — without TRUNCATE a maintained shadow holds its table's rows at its
  frontier, within a transaction at the current change (`Reflected`).
* `RefreshedTogether` — join views on one shadow are in the queue together, ahead of any
  created later, and in one group.
* `ViewsFit` — for every dependable view: the storage table is the query at its frontier
  (`ContentFits`); a live join view's shadows are healthy and not ahead of it, and
  exactly at its frontier if it shares none (`ShadowsServe`); and the same of the
  round's draft, of the plan for the current change, and of the uncommitted shadows
  (`DraftFits`, `DraftShadowsServe`).

The central lemmas are the delta rule of `WorkerProofs` (the query after a change is the
query before it, with what the plan adds and removes), for both shapes and for joins on
the shadows of the other relations; and `ViewFitsStep`, one step of which is proved per
action (`ViewPlanned`, `ViewExecuted`, `ViewCommitted`, `ViewBuilt`, ...). The skip rule
is where the positions matter: what is at or below a frontier changes nothing because it
is already in, and nothing between two frontiers of one round is decodable. The
refinement then has little left to show: a step changes what a reader sees only in
`EndBuild`, `CommitRound` and `IdleCommit`, or appends to the history.

**Stream.** `StreamTypeCorrect` needs nothing further; `SlotIsPlaced` (`SlotPlaced`) and
`NothingIsSkipped` (`NothingSkipped`) assume `CalmLag`. `NothingSkipped` is again not
inductive. `SlotBacks` says of live views that nothing decodable is between frontier and
slot, and of queued views that there is a slot at all: this is what `EndBuild` needs,
which checks the slot only if it exists. `AdvanceCovered` says it of the positions the
round holds in memory while other sessions act. `QueueOK` and `RoundOK` are what the
steps rely on from the steps before. The key lemma, `AbsorbedUpTo`, is the arithmetic of
a round: a live view of the round has, after it, absorbed everything up to the first
blocking commit.

`ShadowsKeepTheirPlace` (`ShadowsKeepUp`) assumes `CalmLag` and that no two join views
share a table (`UnsharedTables`), because the drop of the slot leaves the shadows of
stale views healthy and the first build of another view on them reuses them (see above).
With it a first build finds no shadow (`FirstBuildsMake`) and a rebuild makes its own
anew, and `ShadowsBack` follows the shadows through the same positions as `SlotBacks`
and `AdvanceCovered` the views.

`WaitsAreRight` (`WaitIsRight`) assumes `CalmLag` and rests on `WindowIsPlaced`
(`WindowPlaced`). That the published window is right (`WindowSound`) depends on what the
worker remembers from its last idle advance, and on nothing having happened since that
it has not seen. `LiveIsPast` says that every live view is at or past that advance;
`AheadIsReadable` that a view at or past it has not given up, for giving up happens at a
commit before the advance and is logged; `QueueSeen` that a request made after the
worker looked at its queue is WAL it has not accounted for, so that no window is
published while it waits; and `FrontiersLogged` that whoever moves a frontier commits
after it, so that the flush position is beyond every frontier.

**Catalog.** `CatalogTypeCorrect` (with: a shadow has a row exactly as long as its count
is positive) assumes nothing of the order of DDL; `DdlIsSafe`, `NeededStaysPublished`
and `NoOrphansLeft` assume `CalmDdl`. The invariant `DdlSafe` adds to the first that a
`create_view` under way will add what its view misses and no drop is under way
(`PublicationKept`), and to the second that what is on the queue has its row and that a
drop from a group being built makes it fail (`DropsNoticed`). `RefsAreSafe` and
`RefsMatchUsers` (`RefsAreUsers`) assume `CalmRefresh` as well. That a count is the
number of users is not inductive either: it has to be known that a first build is alone
in its group, because only a group's first view takes references (`FirstBuildsAlone`,
`QueueIsCurrent`), and that `drop_view` gives back what it read the view to have
(`DropIsCurrent`). `FirstBuildAlone` shows the former for the closure that `group`
computes, `BuildCounts` and `ForgetCounts` do the arithmetic on the cardinality of the
users.

**Schema.** `SchemaTypeCorrect` holds whatever the sessions do. `SchemaIsSafe`,
`RowsReadAsWritten` (`ReadsItsColumns`), `ShadowsHoldWhatIsUsed` (`HeldByShadow`) and
`OnlyUsersAreMarked` (`OnlyUsersGoStale`) assume all four cautions;
`RebuildsThatResolve` (`ResolvingRebuilds`) assumes `"group"` and that types assign. The
invariant `DriftSafe` adds that rows still to be peeked were written under the schema of
the day (`WrittenAsIs`) and that whatever a live view or the shadow knows by a name and
type is the table's column of that name and type (`KnownAsIs`). Under them `RelationIs`
gives the relation of a peek, `ProvidedIs` that what it provides is the column meant,
`NoShadowStops` and `NoStops` that nothing fails on the way. DDL moves every part of the
invariant at once (`DdlKeeps`). The theorem on rebuilds has an invariant of its own:
join views that are refreshing together have all been populated.

**Delta log** (`LogProofs`). For every number of writes of a transaction, every
retention and every page size, without further assumption:

* `LogFitsAlways`: `SubSpec => []LogInv`.
* `LogServesWholeTransactions`: `SubSpec => []ServesWholeTransactions`.
* `LogHoldsNetEffects`: `SubSpec => []DeltasAreNetEffect`.

`LogFits` relates the rows of the log, the states the epoch has shown, the last number
and the frontier: the rows are those that follow some number, each number once, in
commit order (`InCommitOrder`); the numbers of the states ascend and end where the log
does (`InOrder`); a transaction that ends in the log ends at a state's number
(`EndsAtStates`), and no transaction reaches over one (`CutAtStates`); and between two
states that retention has not reached the rows are the visible difference (`Explains`).
`LogInv` says it twice, of what is committed and of what the round under way would make
of it, because that is what `EndRound` commits after any number of `RoundTx`. The number
from which rows are kept is existential: collection only raises it (`FitsRetained`), a
build sets it to the last number and empties the log (`FitsBuilt`).

What a transaction leaves is the work of `FitsAbsorbed`. The raw deltas of any number of
writes are a fold; `Tracks` is its invariant (per identity, the deltas so far lead from
the state at the beginning to the state now), from which `NetIs` and `NetExplains` get
that the net deltas are the difference of the two. Sums over a fold are taken apart by
building the function the fold is defined by, one number after the other
(`CountingUp`). `ServedIs` says that the page and the rest of its last transaction are
the rows from `after` on up to some number, and `EndsAtStates` that this number is a
state's: so a page ends where a transaction did, wherever the limit fell.

**Following a view** (`SubscriptionProofs`). Again from nothing but the types of the
constants:

* `ClientStaysInStep`: `SubSpec => []SubInv` (`LogInv` and `ClientInv`).
* `ClientTypes`: `SubSpec => []SubTypeOK`, with: the copy never holds a negative number
  of a row, whatever it is handed.
* `ClientFollowsView`: `SubSpec => ImplementsFollowedView`, step by step.

`ClientInv` says what the client's buffers are worth. While it follows, its copy is the
`k`-th state of its epoch for some `k`; each event in the queue is the transaction that
leads on from the state before it (`LeadsOn`); and the rows held back are one more whole
transaction (`TailFits`), not a part of one. A snapshot that is read but not yet adopted
was shown and is not older than the copy (`NotBack`), although the view may have been
rebuilt since. None of this mentions the log, which the server collects and empties
under the client: only the next fetch needs it.

The server's steps keep all of it because they only add to what was shown (`ServerGrew`,
`ServerKeepsClient`). A fetch is where the two meet. The number it asks from is the end
of a transaction (`FetchAfterIs`), so what it gets ends at a later state
(`FetchBrings`); the rows held back and the page together are cut at every state between
(`FetchedIs`), what lies between two states is one transaction that no other shares its
LSN with (`LogLeads`, `OneTransaction`), hence the groups by LSN are exactly the
transactions (`GroupsAre`, `SplitsUp`, `FetchedTransactions`), and applying one turns
what was shown into what is shown next. The last needs counting (`DeltasLead`): deltas
of different identities that show alike cancel or add up in the copy, so the argument is
on the number of `I` and `D` per visible row and on the cardinality of the identities
that show it.

The proof also says what the client need not do: `TailFits` says the rows it holds back
are always complete already, which `fetch` does not rely on ("Defensive: the server
promises whole transactions"). Holding them back delays the last transaction of a full
page to the next fetch and changes no event.

**Decoder.** From the types of the constants alone:

* `DecoderHoldsWhatWasSent`: `Spec => []DecoderInv`.
* `DecoderRefines`: `Spec => ImplementsCommitOrder`.

`CommitOrder` is the assumption of the other modules made explicit: each time the worker
has transactions in its hands they are whole, in commit order, without a gap, and the
first is the one after the slot. Through which messages, failures and leftovers it came
to this is the matter of `DecoderInv`. `Assembled` gives the decoder's content message
by message: during a peek `complete` is the transactions from the slot to the one being
sent, `current` the part of that one that was sent, and outside of a peek both are
empty. So no message is ever refused, and a peek read again after an error is not
appended to what the failed one left. `TablesAreDescribed` says that every table of a
transaction in the worker's hands was described in this very peek, so that "change for
unknown relation" does not happen; it needs that a transaction never outlives its peek.
`CacheFits` says that the cache has the list described last, under the name of no other
type. The three branches that end a round inside `feed` are thereby never taken, nor is
the one of `ApplyRound`.

The sequences are compared by length and members (`SeqEqual`): one more message makes
the part that was sent one longer (`PrefixGrows`), one more COMMIT the list of whole
transactions (`WholeGrows`). The refinement uses `DecoderInv` in one place each:
`PeekEnds` hands out a nonempty list from the slot on (`Reading`), and what ends a round
leaves the slot within what was handed out (`Settling`).

Only model-checked is liveness (`CatchesUp`, `PendingIsServed`, `CopyCatchesUp`,
`WaitReturns`), which is out of the provers' reach (fairness and ENABLED). The two runs
that find a violation are counterexamples and have nothing to prove.

## Not modelled

`definition.rs` is a stateless translation of PostgreSQL parse trees; `guc.rs`,
`errors.rs`, `lsn.rs` are declarations and formatting; benchmarks, scripts and container
files hold no logic of the system. Of the decoder the byte protocol is left out
(`decode`, `Reader`). The plan cache, unchanged TOAST values, notifications and join-key
indexes are left out where they are only data or timing. PostgreSQL itself (the slot,
the snapshot of a temporary slot, REPEATABLE READ, pgoutput) is modelled as the code
uses it.

## Plan

1. Done: `SourceData`, `Worker`, `DeferredView`, `MCWorker` and their theorems.
2. Done: `Netting`, `DeltaLog`, `Subscription`, `FollowedView`, `MCSubscription` and
   their theorems.
3. Done: `Stream` with the lag cap, the slot's life and the idle window, and its
   theorems.
4. Done: `Catalog` and its theorems.
5. Done: `Schema` and its theorems.
6. Done: `Decoder`, `CommitOrder` and their theorems.
7. Done, proofs: the delta rule, `ViewIsSnapshot` for single-table and join views, the
   refinement of `DeferredView`, the shadows of `Stream`, `wait_for`, the delta log, the
   client and the refinement of `FollowedView`.
