------------------------------ MODULE Catalog -------------------------------
(***************************************************************************)
(* The bookkeeping around views: create_view, refresh and drop_view        *)
(* (api.rs), forget_view, prune_publication and the sql_drop trigger       *)
(* (bootstrap.sql), and the population as it takes references on shadows   *)
(* and creates the VIEW and its storage (populate.rs, shadow.rs).          *)
(*                                                                         *)
(* create_view and drop_view read what they act on before they commit, and *)
(* the worker works from a queue it read once, under a snapshot per group; *)
(* each of these is a step of its own.  Content is left to Worker.         *)
(***************************************************************************)
EXTENDS Naturals, FiniteSets, Order

CONSTANTS
    Tables,        \* base tables
    NViews,        \* views get the serial ids 1..NViews, never used again
    Rels,          \* [view -> tables its definition reads]
    CalmDdl,       \* does no drop overlap a create_view, nor the time between
                   \* the worker's reading a view off the queue and the
                   \* snapshot it is built under (its commit, at a first build)?
    CalmRefresh,   \* is refresh() only called when it marks no view that was
                   \* never populated together with another one?
    MaxFaults,     \* bound: transient errors of populations
    MaxRefreshes   \* bound: calls of refresh()

Views == 1..NViews
IsJoin(v) == \E a, b \in Rels[v] : a # b

ASSUME CatalogAssumption ==
    /\ IsFiniteSet(Tables)
    /\ NViews \in Nat
    /\ Rels \in [Views -> (SUBSET Tables) \ {{}}]
    /\ CalmDdl \in BOOLEAN /\ CalmRefresh \in BOOLEAN
    /\ MaxFaults \in Nat /\ MaxRefreshes \in Nat

VARIABLES
    base,          \* base tables that exist
    published,     \* tables of the publication 'nabla'
    status,        \* nabla.views: status, with the states before and after the row
    populated,     \* populated_at is set
    built,         \* views whose VIEW and storage table exist
    shadow,        \* nabla.shadows: is there a row, and its refcount
    creating,      \* a create_view: its view and the tables it found missing
    dropping,      \* a drop_view: its view and the populated_at it read
    pc, todo,      \* the worker, and the views of its queue still to build
    asLoaded,      \* status and populated_at of each view as the queue was read
    grp,           \* the group being built
    conflict,      \* did a row the group writes change since its snapshot?
    used

apiVars == <<creating, dropping>>
workerVars == <<pc, todo, asLoaded, grp, conflict>>
catalogVars == <<base, published, status, populated, built, shadow, apiVars, workerVars, used>>

Statuses == {"absent", "initializing", "refreshing", "live", "failed", "dropped"}
HasRow(v) == status[v] \notin {"absent", "dropped"}
Pending(v) == status[v] \in {"initializing", "refreshing"}

NoShadow == [exists |-> FALSE, refs |-> 0]
NoCreate == [on |-> FALSE, view |-> 1, missing |-> {}]
NoDrop == [on |-> FALSE, view |-> 1, populated |-> FALSE]

CatalogInit ==
    /\ base = Tables /\ published = {}
    /\ status = [v \in Views |-> "absent"]
    /\ populated = [v \in Views |-> FALSE]
    /\ built = {}
    /\ shadow = [t \in Tables |-> NoShadow]
    /\ creating = NoCreate /\ dropping = NoDrop
    /\ pc = "poll" /\ todo = {} /\ grp = {} /\ conflict = FALSE
    /\ asLoaded = [v \in Views |-> [status |-> "absent", populated |-> FALSE]]
    /\ used = [faults |-> 0, refreshes |-> 0]

-----------------------------------------------------------------------------
(* create_view and refresh.                                                *)

\* ensure_publication_includes looks first, and locks the publication only to
\* add a table.
CreateReads(v) ==
    /\ ~creating.on
    /\ CalmDdl => ~dropping.on
    /\ status[v] = "absent" /\ \A u \in Views : u < v => status[u] # "absent"
    /\ Rels[v] \subseteq base
    /\ creating' = [on |-> TRUE, view |-> v, missing |-> Rels[v] \ published]
    /\ UNCHANGED <<base, published, status, populated, built, shadow, dropping, workerVars, used>>

CreateCommits ==
    /\ creating.on
    /\ published' = published \cup creating.missing
    /\ status' = [status EXCEPT ![creating.view] = "initializing"]
    /\ creating' = NoCreate
    /\ UNCHANGED <<base, populated, built, shadow, dropping, workerVars, used>>

\* refresh_closure: join views linked by a common base table.
SharesShadow(a, b) ==
    /\ IsJoin(a) /\ IsJoin(b) /\ HasRow(a) /\ HasRow(b)
    /\ Rels[a] \cap Rels[b] # {}

RefreshSet(v) == IF IsJoin(v) THEN Reach(Views, v, SharesShadow) ELSE {v}

\* The rows of a drop under way are locked: refresh waits for its end.
Refresh(v) ==
    /\ HasRow(v) /\ Rels[v] \subseteq base
    /\ used.refreshes < MaxRefreshes
    /\ dropping.on => dropping.view \notin RefreshSet(v)
    /\ CalmRefresh => \/ RefreshSet(v) = {v}
                      \/ \A u \in RefreshSet(v) : populated[u] \/ status[u] = "initializing"
    /\ published' = published \cup Rels[v]
    /\ status' = [u \in Views |->
                    IF u \in RefreshSet(v) /\ ~Pending(u) THEN "refreshing" ELSE status[u]]
    /\ used' = [used EXCEPT !.refreshes = @ + 1]
    /\ UNCHANGED <<base, populated, built, shadow, apiVars, workerVars>>

-----------------------------------------------------------------------------
(* drop_view, and DROP TABLE ... CASCADE of a base table.                  *)

\* The references the views of S give back, those of P having been populated
\* when forget_view looked: taken by the first build of a join view.
Released_Always(t, S, P) == Cardinality({v \in S : IsJoin(v) /\ t \in Rels[v]})
Released(t, S, P) == Cardinality({v \in S \cap P : IsJoin(v) /\ t \in Rels[v]})

ShadowAfterForget_BelowZero(t, S, P) ==
    IF Released(t, S, P) = 0 \/ ~shadow[t].exists THEN shadow[t]
    ELSE IF shadow[t].refs < Released(t, S, P) THEN NoShadow
    ELSE [shadow[t] EXCEPT !.refs = @ - Released(t, S, P)]
ShadowAfterForget(t, S, P) ==
    IF Released(t, S, P) = 0 \/ ~shadow[t].exists THEN shadow[t]
    ELSE IF shadow[t].refs <= Released(t, S, P) THEN NoShadow
    ELSE [shadow[t] EXCEPT !.refs = @ - Released(t, S, P)]

\* prune_publication: what no view and no shadow needs.
Needed_ByShadows(t) == shadow'[t].exists
Needed_Built(t) ==
    \/ \E v \in built' : t \in Rels[v]
    \/ shadow'[t].exists
Needed(t) ==
    \/ \E v \in Views : status'[v] \notin {"absent", "dropped"} /\ t \in Rels[v]
    \/ shadow'[t].exists

\* A row the population has written, or is to write, changed after its snapshot:
\* REPEATABLE READ makes the population fail.
ConflictsWith_Shadows(S, P) ==
    \E v \in grp : \E t \in Rels[v] :
        IsJoin(v) /\ shadow[t].exists /\ Released(t, S, P) > 0
ConflictsWith(S, P) ==
    \/ S \cap grp # {}
    \/ \E v \in grp : \E t \in Rels[v] :
        IsJoin(v) /\ shadow[t].exists /\ Released(t, S, P) > 0

\* forget_view for every view of S, in one transaction.
Forget(S, P) ==
    /\ status' = [v \in Views |-> IF v \in S THEN "dropped" ELSE status[v]]
    /\ built' = built \ S
    /\ conflict' = (conflict \/ ConflictsWith(S, P))

\* drop_view finds the row, and forget_view reads it.
DropReads(v) ==
    /\ ~dropping.on /\ HasRow(v)
    /\ CalmDdl => ~creating.on /\ v \notin todo /\ (v \in grp => populated[v])
    /\ dropping' = [on |-> TRUE, view |-> v, populated |-> populated[v]]
    /\ UNCHANGED <<base, published, status, populated, built, shadow, creating, workerVars, used>>

DropCommits ==
    /\ dropping.on
    /\ LET v == dropping.view
           P == IF dropping.populated THEN {v} ELSE {}
       IN
       /\ Forget({v}, P)
       /\ shadow' = [t \in Tables |-> ShadowAfterForget(t, {v}, P)]
       /\ published' = {t \in published : Needed(t)}
    /\ dropping' = NoDrop
    /\ UNCHANGED <<base, populated, creating, pc, todo, asLoaded, grp, used>>

\* The cascade takes the views, their storage and the table's shadow; the
\* trigger forgets them.  It waits for a create_view, which has parsed a query
\* on the table, and for a drop_view of one of its views.
DropBase(t) ==
    /\ t \in base
    /\ creating.on => ~CalmDdl /\ t \notin Rels[creating.view]
    /\ dropping.on => t \notin Rels[dropping.view]
    /\ LET S == {v \in Views : HasRow(v) /\ t \in Rels[v]}
           P == {v \in Views : populated[v]}
       IN
       /\ CalmDdl => S \cap todo = {} /\ S \cap grp \subseteq P
       /\ Forget(S, P)
       /\ shadow' = [s \in Tables |-> IF s = t THEN NoShadow ELSE ShadowAfterForget(s, S, P)]
       /\ published' = {s \in published \ {t} : Needed(s)}
    /\ base' = base \ {t}
    /\ UNCHANGED <<populated, apiVars, pc, todo, asLoaded, grp, used>>

-----------------------------------------------------------------------------
(* The worker: run_pending.                                                *)

LoadPending ==
    /\ pc = "poll" /\ \E v \in Views : Pending(v)
    /\ CalmDdl /\ dropping.on => ~Pending(dropping.view)
    /\ todo' = {v \in Views : Pending(v)}
    /\ asLoaded' = [v \in Views |-> [status |-> status[v], populated |-> populated[v]]]
    /\ pc' = "build"
    /\ UNCHANGED <<base, published, status, populated, built, shadow, apiVars, grp, conflict, used>>

\* group(), on the rows as they were loaded.
Shared(v) == asLoaded[v].status = "refreshing" /\ IsJoin(v)
JoinsGroupOf(a, b) ==
    /\ b \in todo /\ a < b
    /\ Shared(a) /\ Shared(b)
    /\ Rels[a] \cap Rels[b] # {}

NextGroup == Reach(Views, Least(todo), JoinsGroupOf)

\* The snapshot of the group's transaction.
BeginBuild ==
    /\ pc = "build"
    /\ grp' = NextGroup
    /\ todo' = todo \ NextGroup
    /\ conflict' = FALSE
    /\ pc' = "building"
    /\ UNCHANGED <<base, published, status, populated, built, shadow, apiVars, asLoaded, used>>

Rebuild(v) == asLoaded[v].status = "refreshing" /\ asLoaded[v].populated

\* shadow::rebuild keeps the reference count, shadow::ensure adds one, and a
\* shadow that is made starts with one; only for the group's first user.
ShadowUsers(t) == {v \in grp : IsJoin(v) /\ t \in Rels[v]}
ShadowAfterBuild(t) ==
    IF ShadowUsers(t) = {} THEN shadow[t]
    ELSE IF ~shadow[t].exists THEN [exists |-> TRUE, refs |-> 1]
    ELSE IF Rebuild(Least(ShadowUsers(t))) THEN shadow[t]
    ELSE [shadow[t] EXCEPT !.refs = @ + 1]

EndGroup ==
    /\ grp' = {} /\ conflict' = FALSE
    /\ pc' = IF todo = {} THEN "poll" ELSE "build"

\* Storage and VIEW are made when they are not there; the row is updated by id.
EndBuild ==
    /\ pc = "building" /\ ~conflict
    /\ \A v \in grp : Rels[v] \subseteq base
    /\ shadow' = [t \in Tables |-> ShadowAfterBuild(t)]
    /\ built' = built \cup grp
    /\ status' = [v \in Views |-> IF v \in grp /\ HasRow(v) THEN "live" ELSE status[v]]
    /\ populated' = [v \in Views |-> populated[v] \/ (v \in grp /\ HasRow(v))]
    /\ EndGroup
    /\ UNCHANGED <<base, published, apiVars, todo, asLoaded, used>>

BuildFails ==
    /\ pc = "building"
    /\ \/ conflict /\ UNCHANGED used
       \/ (\E v \in grp : ~(Rels[v] \subseteq base)) /\ UNCHANGED used
       \/ used.faults < MaxFaults /\ used' = [used EXCEPT !.faults = @ + 1]
    /\ status' = [v \in Views |-> IF v \in grp /\ HasRow(v) THEN "failed" ELSE status[v]]
    /\ EndGroup
    /\ UNCHANGED <<base, published, populated, built, shadow, apiVars, todo, asLoaded>>

-----------------------------------------------------------------------------

Sessions ==
    \/ CreateCommits \/ DropCommits
    \/ \E v \in Views : CreateReads(v) \/ Refresh(v) \/ DropReads(v)
    \/ \E t \in Tables : DropBase(t)

WorkerStep == LoadPending \/ BeginBuild \/ EndBuild \/ BuildFails

CatalogNext == Sessions \/ WorkerStep
CatalogSpec == CatalogInit /\ [][CatalogNext]_catalogVars

-----------------------------------------------------------------------------
(* Properties.                                                             *)

Users(t) == {v \in Views : HasRow(v) /\ populated[v] /\ IsJoin(v) /\ t \in Rels[v]}

\* A shadow has a row as long as it has a reference.
ShadowRow == {s \in [exists : BOOLEAN, refs : Nat] : s.exists <=> s.refs > 0}
Budget == [faults : Nat, refreshes : Nat]

\* Types; a shadow whose last reference forget_view gave back is gone.
CatalogTypeOK ==
    /\ base \subseteq Tables /\ published \subseteq Tables
    /\ status \in [Views -> Statuses]
    /\ populated \in [Views -> BOOLEAN]
    /\ built \subseteq Views
    /\ shadow \in [Tables -> ShadowRow]
    /\ creating \in [on : BOOLEAN, view : Nat, missing : SUBSET Tables]
    /\ dropping \in [on : BOOLEAN, view : Nat, populated : BOOLEAN]
    /\ creating.on => creating.view \in Views
    /\ dropping.on => dropping.view \in Views
    /\ pc \in {"poll", "build", "building"}
    /\ todo \subseteq Views /\ grp \subseteq Views /\ conflict \in BOOLEAN
    /\ asLoaded \in [Views -> [status : Statuses, populated : BOOLEAN]]
    /\ used \in Budget

\* bootstrap.sql, nabla.shadows.refcount: "join views using it".  Whatever order
\* builds, failed builds, refreshes and drops come in, a shadow has exactly one
\* reference per populated join view on its table.
RefsAreUsers ==
    \A t \in Tables :
        /\ shadow[t].exists <=> Users(t) # {}
        /\ shadow[t].exists => shadow[t].refs = Cardinality(Users(t))

\* The slot decodes every table of every view in the catalog: no drop takes a
\* table out of the publication that a view, queued or built, still needs.
NeededIsPublished == \A v \in Views : HasRow(v) => Rels[v] \subseteq published

\* api.rs drop_view "forgets the view even when no objects exist yet": once a
\* view is dropped there is no VIEW and no storage table left of it, nor made
\* later by a population that was under way.
NoOrphans == \A v \in built : HasRow(v)

-----------------------------------------------------------------------------
(* Why the last two hold when no DDL overlaps (CalmDdl).                   *)

\* A create_view under way adds what its view still misses, and no drop prunes
\* meanwhile.
PublicationKept ==
    /\ NeededIsPublished
    /\ creating.on =>
         ~dropping.on /\ Rels[creating.view] \subseteq published \cup creating.missing

\* What is on the queue has its row, and a view dropped from the group being
\* built makes the group fail.
DropsNoticed ==
    /\ NoOrphans
    /\ pc = "build" => todo # {}
    /\ \A v \in todo : HasRow(v)
    /\ dropping.on => dropping.view \notin todo
    /\ \A v \in grp : HasRow(v) \/ conflict

\* The inductive invariant.
DdlSafe == PublicationKept /\ DropsNoticed

-----------------------------------------------------------------------------
(* Why the references match when moreover no refresh takes a view along    *)
(* that was never populated (CalmRefresh).                                 *)

\* A view that is new is not populated, and join views that are refreshed
\* together have all been.
FirstBuildsAlone ==
    /\ \A v \in Views : status[v] \in {"absent", "initializing"} => ~populated[v]
    /\ creating.on => status[creating.view] = "absent"
    /\ \A a, b \in Views :
          a # b /\ SharesShadow(a, b) /\ status[a] = "refreshing" /\ status[b] = "refreshing"
              => populated[a]

\* The queue still tells first builds from rebuilds, and a group has no first
\* build beside another view.
QueueIsCurrent ==
    /\ pc # "building" => grp = {}
    /\ todo \cap grp = {}
    /\ \A v \in todo \cup grp : Rebuild(v) <=> populated[v]
    /\ \A a, b \in todo : a # b /\ Shared(a) /\ Shared(b) /\ Rels[a] \cap Rels[b] # {} => Rebuild(a)
    /\ \A a, b \in grp : a # b => Rebuild(a)

\* What a drop under way has read is still so.
DropIsCurrent ==
    dropping.on =>
        /\ HasRow(dropping.view)
        /\ dropping.populated = populated[dropping.view]
        /\ dropping.view \in grp => dropping.populated

\* The inductive invariant.
RefsSafe == RefsAreUsers /\ FirstBuildsAlone /\ QueueIsCurrent /\ DropIsCurrent
=============================================================================
