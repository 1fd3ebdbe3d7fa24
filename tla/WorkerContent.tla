---------------------------- MODULE WorkerContent ----------------------------
(***************************************************************************)
(* Why the worker's views and shadows hold what they are said to hold: the *)
(* abstract specification a reader of views relies on, and the inductive   *)
(* invariants that tie every storage table, every shadow and the round's   *)
(* uncommitted work to one state of the base tables.  Properties only: the *)
(* system is module Worker.                                                *)
(***************************************************************************)
EXTENDS Worker

Abstract == INSTANCE DeferredView WITH
    hist <- wal, readable <- populated, asOf <- frontier, content <- storage

\* The worker implements the reader's view of the system: deferred
\* transactional consistency as an abstract specification.
ImplementsDeferredView == Abstract!DVSpec

-----------------------------------------------------------------------------
(* The log and its states.                                                 *)

\* The base tables just before the j-th change of transaction i; after its
\* last change, the state it committed.
StateBefore(i, j) ==
    IF j > Len(wal[i].ch) THEN wal[i].db
    ELSE IF j = 1 THEN DbAt(i - 1) ELSE After(DbAt(i - 1), wal[i].ch[1])

\* Every change was made in the state it found, and led to the next one; a
\* transaction the slot does not decode changed nothing.
HistoryFits ==
    \A i \in Lsns :
        /\ ~Decoded(i) => wal[i].db = DbAt(i - 1)
        /\ \A j \in DOMAIN wal[i].ch :
            /\ wal[i].ch[j] \in Changes(StateBefore(i, j), Truncates)
            /\ StateBefore(i, j + 1) = After(StateBefore(i, j), wal[i].ch[j])

\* The state that whatever has frontier f reflects: once the round is past f,
\* the state its current change finds.
Reflected(f) == IF pc = "apply" /\ cur > f THEN StateBefore(cur, pos) ELSE DbAt(f)

InRound == pc \in {"apply", "commit"}
Kept(s) == s.exists /\ ~s.failed

-----------------------------------------------------------------------------
(* What a step of the worker may find.                                     *)

\* No frontier is beyond the log, nor beyond the point a build reads at.
FrontiersBehind ==
    /\ \A v \in Views : frontier[v] <= Flushed /\ lfrontier[v] <= Flushed
    /\ \A t \in Tables : shadow[t].frontier <= Flushed /\ lshadow[t].frontier <= Flushed
    /\ pc = "building" => /\ \A v \in Views : frontier[v] <= point
                          /\ \A t \in Tables : shadow[t].frontier <= point

\* Ids are serial; a view is readable from its first build on; only pending
\* views are built, in one group each, and only readable ones take part in a
\* round.
Lifecycle ==
    /\ \A u, v \in Views : u < v /\ status[v] # "absent" => status[u] # "absent"
    /\ \A v \in Views : status[v] \in {"absent", "initializing"} => ~populated[v]
    /\ \A v \in Views : status[v] = "live" => populated[v]
    /\ pc \in {"build", "building"} => \A v \in todo \cup grp : Pending(v)
    /\ todo \cap grp = {} /\ (pc # "building" => grp = {})
    /\ InRound => \A v \in Views : phase[v] # "out" => populated[v]

\* A round counts a failure for the views it blocks and for no view that is
\* still absorbing.
FailuresCounted ==
    InRound =>
        \A v \in Views :
            /\ phase[v] \in Trying => lfailures[v] = failures[v]
            /\ phase[v] = "blocked" => lfailures[v] > failures[v]

-----------------------------------------------------------------------------
(* Shadows: nothing is lost, and their rows.                               *)

\* A maintained shadow reflects everything the slot confirmed, everything
\* before the current transaction during a round, and the whole peek after it.
ShadowsCovered ==
    /\ \A t \in Tables : Kept(shadow[t]) =>
        /\ Clear(shadow[t].frontier, slot)
        /\ pc \in {"advance", "idle", "idleCommit"} => Clear(shadow[t].frontier, upto)
    /\ InRound => \A t \in Tables : Kept(lshadow[t]) =>
        Clear(lshadow[t].frontier, IF pc = "apply" THEN cur - 1 ELSE upto)
    /\ pc = "advance" => advTo <= upto

\* If nobody truncates, a maintained shadow holds its table's rows.
ShadowRowsFit ==
    ~Truncates =>
        /\ ShadowIsSnapshot
        /\ InRound => \A t \in Tables : Kept(lshadow[t]) =>
            lshadow[t].rows = Reflected(lshadow[t].frontier)[t]

-----------------------------------------------------------------------------
(* The views whose content can be relied on.                               *)

SharesTable(a, b) == IsJoin(a) /\ IsJoin(b) /\ Rels[a] \cap Rels[b] # {}

\* A view whose own work meets no error: its select list raises none, nor does
\* the server while it executes.
Steady(v) == Poison[v] = {} /\ (v \in Flaky => MaxFaults = 0)

\* Single-table views, and join views that share no shadow with another join
\* view and are marked stale at their first failure
\* (nabla.max_apply_failures = 1), if there is one.
Unshared(v) ==
    IsJoin(v) => /\ MaxFailures = 1 \/ Steady(v)
                 /\ \A u \in Views \ {v} : ~SharesTable(u, v)

\* Join views that share shadows, under what keeps the shared shadows in step
\* with all of them: nobody truncates, refresh() waits for first builds, no view
\* links two others that share nothing, and neither a join view's own work nor
\* maintaining a shadow meets an error.
CalmlyShared ==
    /\ ~Truncates /\ CalmRefresh /\ MaxShadowFaults = 0
    /\ \A v \in Views : IsJoin(v) => Steady(v)
    /\ \A a, b, c \in Views : SharesTable(a, b) /\ SharesTable(b, c) => SharesTable(a, c)

Dependable(v) == Unshared(v) \/ CalmlyShared

\* Join views that share a shadow are refreshed together: in one group, none
\* left behind live, and before any view created meanwhile.
RefreshedTogether ==
    CalmlyShared =>
        /\ \A u, v \in Views : status[u] = "refreshing" /\ status[v] = "initializing" => u < v
        /\ \A u, v \in Views :
            SharesTable(u, v) /\ status[u] = "refreshing"
            => status[v] \in {"absent", "initializing", "refreshing"}
        /\ pc \in {"build", "building"} =>
            \A u \in Views, v \in todo \cup grp :
                SharesTable(u, v) /\ status[u] = "refreshing" => u \in todo \cup grp
        /\ pc = "building" =>
            \A u \in Views \ grp, v \in grp : SharesTable(u, v) => status[u] # "refreshing"

\* A readable view holds its query as of its frontier.
ContentFits(v) == populated[v] => storage[v] = Query(v, DbAt(frontier[v]))

\* The shadows of a live join view are maintained, not ahead of it, and hold
\* their tables.  Nobody but the view itself moves them when it shares none.
ShadowsServe(v) ==
    IsJoin(v) => \A t \in Rels[v] :
        /\ status[v] = "live" =>
            /\ Kept(shadow[t]) /\ shadow[t].frontier <= frontier[v]
            /\ shadow[t].rows = DbAt(shadow[t].frontier)[t]
        /\ Unshared(v) =>
            /\ ~populated[v] => ~shadow[t].exists
            /\ status[v] = "live" => shadow[t].frontier = frontier[v]

\* The same of the round's uncommitted work.  A view that cannot absorb the
\* current transaction is one the transaction is news to.
DraftFits(v) ==
    phase[v] # "out" =>
        /\ draft[v] = Query(v, DbAt(lfrontier[v]))
        /\ phase[v] = "on" => plan[v] = Query(v, Reflected(lfrontier[v]))
        /\ phase[v] \in Trying \ {"on"} => pc = "apply" /\ cur > lfrontier[v]
        /\ IsJoin(v) => /\ phase[v] # "blocked" /\ (Unshared(v) \/ phase[v] = "on")
                        /\ Steady(v) => phase[v] \notin {"error", "doomed"}

DraftShadowsServe(v) ==
    IsJoin(v) => \A t \in Rels[v] :
        /\ phase[v] = "on" =>
            /\ Kept(lshadow[t]) /\ lshadow[t].frontier <= lfrontier[v]
            /\ lshadow[t].rows = Reflected(lshadow[t].frontier)[t]
        /\ Unshared(v) =>
            /\ lshadow[t].exists => shadow[t].exists
            /\ phase[v] = "on" => lshadow[t].frontier = lfrontier[v]

ViewsFit ==
    \A v \in Views : Dependable(v) =>
        /\ ContentFits(v) /\ ShadowsServe(v)
        /\ InRound => DraftFits(v) /\ DraftShadowsServe(v)

\* Inductive, together with SlotInv.
ContentInv ==
    /\ HistoryFits /\ FrontiersBehind /\ Lifecycle /\ FailuresCounted
    /\ ShadowsCovered /\ ShadowRowsFit /\ RefreshedTogether /\ ViewsFit
=============================================================================
