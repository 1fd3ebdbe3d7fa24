------------------------------- MODULE Worker -------------------------------
(***************************************************************************)
(* nabla's background worker (worker.rs) together with what it drives: the *)
(* population of views under a consistent snapshot (populate.rs), the join *)
(* shadows (shadow.rs) and the two API calls that queue work for it        *)
(* (api.rs create_view and refresh).                                       *)
(*                                                                         *)
(* LSNs are positions in wal: position i is the end LSN of the i-th        *)
(* committed transaction, 0 the position the slot was created at.  The     *)
(* worker runs one round at a time: build what is pending, peek the slot,  *)
(* apply the peeked transactions in one transaction of its own, advance    *)
(* the slot, and when the slot was drained advance every frontier to the   *)
(* flush position.  Nothing a round computes is visible before CommitRound.*)
(***************************************************************************)
EXTENDS SourceData, Order

CONSTANTS
    MaxFailures,     \* nabla.max_apply_failures
    Flaky,           \* views whose work may hit a transient error
    Truncates,       \* may writers TRUNCATE?
    CalmRefresh,     \* is refresh() only called when nothing is initializing?
    MaxLsn,          \* bound: committed transactions
    MaxTxChanges,    \* bound: changes of one transaction (1 or 2)
    MaxFaults,       \* bound: transient errors of views
    MaxShadowFaults, \* bound: errors while maintaining a shadow
    MaxCrashes,      \* bound: worker aborts and server crashes
    MaxRefreshes     \* bound: calls of refresh()

ASSUME WorkerAssumption ==
    /\ MaxFailures \in Nat \ {0}
    /\ Flaky \subseteq Views
    /\ Truncates \in BOOLEAN
    /\ CalmRefresh \in BOOLEAN
    /\ MaxLsn \in Nat
    /\ MaxTxChanges \in {1, 2}
    /\ MaxFaults \in Nat
    /\ MaxShadowFaults \in Nat
    /\ MaxCrashes \in Nat
    /\ MaxRefreshes \in Nat

VARIABLES
    wal,        \* committed transactions, and the committed state after each
    slot,       \* confirmed_flush_lsn of the replication slot
    \* nabla.views and the storage tables
    status, populated, frontier, failures, epoch, storage,
    \* nabla.shadows and the shadow tables
    shadow,
    \* the worker: where it is, and the population in progress
    pc, todo, grp, point,
    \* the round in progress: what was peeked, and where it stands
    upto, drained, cur, pos, blockedAt, advTo,
    \* the round's uncommitted work: per view (LiveView) and per shadow
    phase, lfrontier, lfailures, draft, plan, lshadow,
    \* how much of each bound is used up
    used

catalogVars == <<status, populated, frontier, failures, epoch, storage>>
buildVars == <<todo, grp, point>>
peekVars == <<upto, drained, advTo>>
roundVars == <<cur, pos, blockedAt, phase, lfrontier, lfailures, draft, plan, lshadow>>
vars == <<wal, slot, catalogVars, shadow, pc, buildVars, peekVars, roundVars, used>>

Lsns == 1..Len(wal)          \* a transaction is named by its end LSN
Positions == 0..Len(wal)
DbAt(i) == IF i = 0 THEN EmptyDb ELSE wal[i].db
Flushed == Len(wal)

Budget == [faults : Nat, shadowFaults : Nat, crashes : Nat, refreshes : Nat]
Statuses == {"absent", "initializing", "refreshing", "live", "stale", "failed"}
Pending(v) == status[v] \in {"initializing", "refreshing"}

ShadowTable == [exists : BOOLEAN, failed : BOOLEAN, frontier : Nat, rows : TableRows]
NoShadow == [exists |-> FALSE, failed |-> FALSE, frontier |-> 0, rows |-> EmptyRows]

\* What LiveView's flags say of a view in the round: not loaded; absorbing,
\* with planned rows that will execute or (doomed) will not; stale set; failed
\* set (both cleared in phase 2); then dead for the round: marked stale,
\* failed and retried, failed for the last time.
Trying == {"on", "doomed", "stale", "error"}
Phases == Trying \cup {"out", "marked", "blocked", "gaveup"}
Steps == {"poll", "build", "building", "peek", "apply", "commit", "advance",
          "idle", "idleCommit"}

Later(a, b) == IF a > b THEN a ELSE b

Init ==
    /\ wal = <<>>
    /\ slot = 0
    /\ status = [v \in Views |-> "absent"]
    /\ populated = [v \in Views |-> FALSE]
    /\ frontier = [v \in Views |-> 0]
    /\ failures = [v \in Views |-> 0]
    /\ epoch = [v \in Views |-> 1]
    /\ storage = [v \in Views |-> EmptyStorage]
    /\ shadow = [t \in Tables |-> NoShadow]
    /\ pc = "poll"
    /\ todo = {} /\ grp = {} /\ point = 0
    /\ upto = 0 /\ drained = FALSE /\ advTo = 0
    /\ cur = 0 /\ pos = 0 /\ blockedAt = 0
    /\ phase = [v \in Views |-> "out"]
    /\ lfrontier = [v \in Views |-> 0]
    /\ lfailures = [v \in Views |-> 0]
    /\ draft = [v \in Views |-> EmptyStorage]
    /\ plan = [v \in Views |-> EmptyStorage]
    /\ lshadow = [t \in Tables |-> NoShadow]
    /\ used = [faults |-> 0, shadowFaults |-> 0, crashes |-> 0, refreshes |-> 0]

-----------------------------------------------------------------------------
(* Clients: writers to the base tables, create_view and refresh.           *)

CurrentDb == DbAt(Flushed)

\* A writer commits a transaction of one or two changes.
CommitTx ==
    /\ Len(wal) < MaxLsn
    /\ \E c \in Changes(CurrentDb, Truncates) :
         LET d == After(CurrentDb, c) IN
         \/ wal' = Append(wal, [ch |-> <<c>>, db |-> d])
         \/ /\ MaxTxChanges = 2
            /\ \E e \in Changes(d, Truncates) :
                 wal' = Append(wal, [ch |-> <<c, e>>, db |-> After(d, e)])
    /\ UNCHANGED <<slot, catalogVars, shadow, pc, buildVars, peekVars, roundVars, used>>

\* WAL that touches no published table moves the flush position all the same.
CommitNoise ==
    /\ Len(wal) < MaxLsn
    /\ wal' = Append(wal, [ch |-> <<>>, db |-> CurrentDb])
    /\ UNCHANGED <<slot, catalogVars, shadow, pc, buildVars, peekVars, roundVars, used>>

\* Ids are serial: view v is created after every smaller id.
CreateView(v) ==
    /\ status[v] = "absent"
    /\ \A u \in Views : u < v => status[u] # "absent"
    /\ status' = [status EXCEPT ![v] = "initializing"]
    /\ UNCHANGED <<wal, slot, populated, frontier, failures, epoch, storage, shadow,
                   pc, buildVars, peekVars, roundVars, used>>

\* Join views linked by a common base table, hence by its shadow.
SharesShadow(a, b) ==
    /\ IsJoin(a) /\ IsJoin(b)
    /\ status[a] # "absent" /\ status[b] # "absent"
    /\ Rels[a] \cap Rels[b] # {}

RefreshSet_Alone(v) == {v}
RefreshSet(v) == IF IsJoin(v) THEN Reach(Views, v, SharesShadow) ELSE {v}

Refresh(v) ==
    /\ status[v] # "absent"
    /\ CalmRefresh => \A u \in Views : status[u] # "initializing"
    /\ used.refreshes < MaxRefreshes
    /\ \E u \in RefreshSet(v) : ~Pending(u)
    /\ status' = [u \in Views |->
                    IF u \in RefreshSet(v) /\ ~Pending(u) THEN "refreshing" ELSE status[u]]
    /\ used' = [used EXCEPT !.refreshes = @ + 1]
    /\ UNCHANGED <<wal, slot, populated, frontier, failures, epoch, storage, shadow,
                   pc, buildVars, peekVars, roundVars>>

-----------------------------------------------------------------------------
(* Population (populate.rs run_pending): every pending view, group by      *)
(* group, each group in one transaction under the snapshot of one          *)
(* consistent point.                                                       *)

LoadPending ==
    /\ pc = "poll"
    /\ todo' = {v \in Views : Pending(v)}
    /\ pc' = "build"
    /\ UNCHANGED <<wal, slot, catalogVars, shadow, grp, point, peekVars, roundVars, used>>

\* group(): a refreshing join view joins the first group it shares a relation
\* with; ids are visited in order, so a later view cannot merge two groups.
Shared(v) == status[v] = "refreshing" /\ IsJoin(v)
JoinsGroupOf(a, b) ==
    /\ b \in todo /\ a < b
    /\ Shared(a) /\ Shared(b)
    /\ Rels[a] \cap Rels[b] # {}

NextGroup == Reach(Views, Least(todo), JoinsGroupOf)

\* The consistent point a fresh logical slot finds: everything committed so far
\* is in its snapshot.
ConsistentPoint_AtSlot == slot
ConsistentPoint == Flushed

BeginBuild ==
    /\ pc = "build" /\ todo # {}
    /\ grp' = NextGroup
    /\ todo' = todo \ NextGroup
    /\ point' = ConsistentPoint
    /\ pc' = "building"
    /\ UNCHANGED <<wal, slot, catalogVars, shadow, peekVars, roundVars, used>>

BuildsDone ==
    /\ pc = "build" /\ todo = {}
    /\ pc' = "peek"
    /\ UNCHANGED <<wal, slot, catalogVars, shadow, buildVars, peekVars, roundVars, used>>

\* build(): a rebuild is a refresh of a view that was populated before.
Rebuild(v) == status[v] = "refreshing" /\ populated[v]

\* shadow::rebuild and shadow::ensure.  The first member of the group that
\* uses the table decides (shadows_done); an existing healthy shadow is only
\* extended by a first build, never re-snapshotted.
ShadowUsers(t) == {v \in grp : IsJoin(v) /\ t \in Rels[v]}
SnapshotsShadow(t) ==
    /\ ShadowUsers(t) # {}
    /\ Rebuild(Least(ShadowUsers(t))) \/ ~shadow[t].exists \/ shadow[t].failed

ShadowAfterBuild_StampsPoint(t) ==
    IF SnapshotsShadow(t)
    THEN [exists |-> TRUE, failed |-> FALSE, frontier |-> point, rows |-> DbAt(point)[t]]
    ELSE IF ShadowUsers(t) # {} THEN [shadow[t] EXCEPT !.frontier = point] ELSE shadow[t]
ShadowAfterBuild(t) ==
    IF SnapshotsShadow(t)
    THEN [exists |-> TRUE, failed |-> FALSE, frontier |-> point, rows |-> DbAt(point)[t]]
    ELSE shadow[t]

EndBuild ==
    /\ pc = "building"
    /\ slot <= point
    /\ \A v \in grp : ~QueryFails(v, DbAt(point))
    /\ shadow' = [t \in Tables |-> ShadowAfterBuild(t)]
    /\ storage' = [v \in Views |-> IF v \in grp THEN Query(v, DbAt(point)) ELSE storage[v]]
    /\ frontier' = [v \in Views |-> IF v \in grp THEN point ELSE frontier[v]]
    /\ epoch' = [v \in Views |-> IF v \in grp /\ Rebuild(v) THEN epoch[v] + 1 ELSE epoch[v]]
    /\ status' = [v \in Views |-> IF v \in grp THEN "live" ELSE status[v]]
    /\ populated' = [v \in Views |-> populated[v] \/ v \in grp]
    /\ failures' = [v \in Views |-> IF v \in grp THEN 0 ELSE failures[v]]
    /\ pc' = "build"
    /\ grp' = {} /\ point' = 0
    /\ UNCHANGED <<wal, slot, todo, peekVars, roundVars, used>>

\* populate_group fails as a whole and record_failure fails every member: the
\* slot is past the consistent point, the query raises an error (a poison
\* row), or something transient.
StatusAfterFailure_Unrecorded(v) == status[v]
StatusAfterFailure(v) == IF v \in grp THEN "failed" ELSE status[v]

BuildFails ==
    /\ pc = "building"
    /\ \/ /\ slot > point \/ \E v \in grp : QueryFails(v, DbAt(point))
          /\ UNCHANGED used
       \/ /\ grp \cap Flaky # {} /\ used.faults < MaxFaults
          /\ used' = [used EXCEPT !.faults = @ + 1]
    /\ status' = [v \in Views |-> StatusAfterFailure(v)]
    /\ pc' = "build"
    /\ grp' = {} /\ point' = 0
    /\ UNCHANGED <<wal, slot, populated, frontier, failures, epoch, storage, shadow,
                   todo, peekVars, roundVars>>

-----------------------------------------------------------------------------
(* A round: peek (worker.rs run_round).                                    *)

\* A transaction the slot decodes: one with changes of published tables.
Decoded(i) == wal[i].ch # <<>>
Window(to) == {i \in Lsns : slot < i /\ i <= to /\ Decoded(i)}

\* The peek returns every transaction up to the flush position (drained), or
\* is cut after a whole transaction by nabla.batch_changes.
PeekTo(to, all) ==
    \/ all /\ to = Flushed
    \/ ~all /\ to \in Window(Flushed)

\* Loading the catalog right after the peek is one step: no other process
\* reads or writes anything in between that the two would see differently.
Peek ==
    /\ pc = "peek"
    /\ \E to \in Positions, all \in BOOLEAN :
        /\ PeekTo(to, all)
        /\ upto' = to /\ drained' = all
        /\ IF Window(to) = {}
           THEN /\ pc' = "idle"
                /\ UNCHANGED roundVars
           ELSE /\ pc' = "apply"
                /\ cur' = Least(Window(to)) /\ pos' = 1 /\ blockedAt' = 0
                /\ phase' = [v \in Views |-> IF status[v] = "live" THEN "on" ELSE "out"]
                /\ lfrontier' = frontier /\ lfailures' = failures
                /\ draft' = storage /\ plan' = storage
                /\ lshadow' = shadow
    /\ UNCHANGED <<wal, slot, catalogVars, shadow, buildVars, advTo, used>>

\* Nothing decodable, and no WAL beyond the worker's own last commit.
PeekNothing ==
    /\ pc = "peek" /\ Window(Flushed) = {}
    /\ pc' = "poll"
    /\ UNCHANGED <<wal, slot, catalogVars, shadow, buildVars, peekVars, roundVars, used>>

-----------------------------------------------------------------------------
(* Phase 1 of apply_round: one change, planned for every view and applied  *)
(* to the shadow of its table.                                             *)

NeedsOldRow(c) == c.op \in {"update", "delete"}

\* The skip rule for shadows and for views: at or below the frontier means
\* already absorbed.
ShadowActive(t) ==
    lshadow[t].exists /\ ~lshadow[t].failed /\ cur > lshadow[t].frontier

ActiveFor_NoSkip(v, t) == phase[v] \in {"on", "doomed"} /\ t \in Rels[v]
ActiveFor(v, t) ==
    phase[v] \in {"on", "doomed"} /\ cur > lfrontier[v] /\ t \in Rels[v]

\* The shadow has no row for the change's key.
OldRowMissing(c) ==
    ShadowActive(c.tab) /\ NeedsOldRow(c) /\ lshadow[c.tab].rows[c.key] = NoRow

\* plan_change: a view that cannot plan the change goes stale ...
GoesStale(v, c) ==
    \/ c.op = "truncate"
    \/ IsJoin(v) /\ NeedsOldRow(c) /\ ~ShadowActive(c.tab)
    \/ IsJoin(v) /\ OldRowMissing(c)

\* ... otherwise the old row comes from the shadow for a join view and from
\* the WAL for a single-table one; the other relations are the shadows.
ShadowRows == [t \in Tables |-> lshadow[t].rows]
OldRow(v, c) == IF IsJoin(v) THEN ShadowRows[c.tab][c.key] ELSE c.old

\* touches_used_columns: the only used column is the group value's.
Touched(v, c) ==
    ~(c.op = "update" /\ (GroupTab[v] # c.tab \/ OldRow(v, c) = c.new))

\* What removing the old row leaves, and the view after the whole change.
Removed(v, c) ==
    IF NeedsOldRow(c)
    THEN RemoveRow(v, c.tab, OldRow(v, c), ShadowRows, c.key, plan[v])
    ELSE plan[v]

Planned_KeepsOld(v, c) ==
    IF ~Touched(v, c) THEN plan[v]
    ELSE IF c.op = "delete" THEN Removed(v, c)
    ELSE AddRow(v, c.tab, c.new, ShadowRows, c.key, plan[v])
Planned(v, c) ==
    IF ~Touched(v, c) THEN plan[v]
    ELSE IF c.op = "delete" THEN Removed(v, c)
    ELSE AddRow(v, c.tab, c.new, ShadowRows, c.key, Removed(v, c))

\* The select list raises an error on a row: planning fails.
PlanFails(v, c) ==
    /\ Touched(v, c)
    /\ \/ /\ NeedsOldRow(c)
          /\ IsJoin(v) \/ Shape[v] = "aggregate"
          /\ DeltaFails(v, c.tab, OldRow(v, c), ShadowRows, c.key)
       \/ /\ c.op # "delete"
          /\ DeltaFails(v, c.tab, c.new, ShadowRows, c.key)

\* Inserting a duplicate: the planned rows will fail to execute.
InsertDoomed(v, c) ==
    /\ Touched(v, c) /\ c.op # "delete"
    /\ Contributes(v, c.tab, ShadowRows, c.key)
    /\ InsertConflicts(v, Removed(v, c), c.key)

\* shadow_apply: inserting a key twice violates the shadow's unique index;
\* a truncate is not applied to the shadow at all.
ShadowApplyFails(c) ==
    \/ OldRowMissing(c)
    \/ c.op = "insert" /\ lshadow[c.tab].rows[c.key] # NoRow

ShadowApplied(c) ==
    IF c.op = "truncate" THEN lshadow[c.tab].rows
    ELSE [lshadow[c.tab].rows EXCEPT ![c.key] = c.new]

\* record_shadow_failure_for_views: no check of the view's frontier.
DependsOn_Nobody(v, t) == FALSE
DependsOn(v, t) == IsJoin(v) /\ t \in Rels[v] /\ phase[v] \in {"on", "doomed", "error"}

PlannedPhase(v, c, shadowLost) ==
    IF shadowLost /\ DependsOn(v, c.tab) THEN "stale"
    ELSE IF ~ActiveFor(v, c.tab) THEN phase[v]
    ELSE IF GoesStale(v, c) THEN "stale"
    ELSE IF PlanFails(v, c) THEN "error"
    ELSE IF InsertDoomed(v, c) THEN "doomed"
    ELSE phase[v]

PlanChange ==
    /\ pc = "apply" /\ pos <= Len(wal[cur].ch)
    /\ LET c == wal[cur].ch[pos] IN
       \E fault \in BOOLEAN :
        LET shadowLost == ShadowActive(c.tab) /\ (fault \/ ShadowApplyFails(c)) IN
        /\ fault => /\ ShadowActive(c.tab) /\ used.shadowFaults < MaxShadowFaults
        /\ used' = IF fault THEN [used EXCEPT !.shadowFaults = @ + 1] ELSE used
        /\ phase' = [v \in Views |-> PlannedPhase(v, c, shadowLost)]
        /\ plan' = [v \in Views |->
                      IF ActiveFor(v, c.tab) /\ ~GoesStale(v, c) /\ ~PlanFails(v, c)
                      THEN Planned(v, c) ELSE plan[v]]
        /\ lshadow' =
             IF ~ShadowActive(c.tab) THEN lshadow
             ELSE IF shadowLost THEN [lshadow EXCEPT ![c.tab].failed = TRUE]
             ELSE [lshadow EXCEPT ![c.tab].rows = ShadowApplied(c)]
    /\ pos' = pos + 1
    /\ UNCHANGED <<wal, slot, catalogVars, shadow, pc, buildVars, peekVars,
                   cur, blockedAt, lfrontier, lfailures, draft>>

-----------------------------------------------------------------------------
(* Phase 2 of apply_round: each view absorbs the transaction in its own    *)
(* subtransaction, or drops out of the round alone.                        *)

Absorbing(v) == phase[v] \in Trying /\ cur > lfrontier[v]

\* record_failure: the view is retried until it failed MaxFailures times.
FailedPhase(v) == IF lfailures[v] + 1 >= MaxFailures THEN "gaveup" ELSE "blocked"

ExecFails(v, transient) == Absorbing(v) /\ (phase[v] \in {"error", "doomed"} \/ v \in transient)
Absorbs_StopsWithOthers(v, transient) ==
    Absorbing(v) /\ phase[v] = "on" /\ v \notin transient /\ blockedAt = 0
Absorbs(v, transient) == Absorbing(v) /\ phase[v] = "on" /\ v \notin transient

ShadowAfterTx_OnlyDependents(t) ==
    IF ShadowActive(t) /\ \E v \in Views : DependsOn(v, t)
    THEN [lshadow[t] EXCEPT !.frontier = cur] ELSE lshadow[t]
ShadowAfterTx(t) ==
    IF ShadowActive(t) THEN [lshadow[t] EXCEPT !.frontier = cur] ELSE lshadow[t]

ExecTx ==
    /\ pc = "apply" /\ pos > Len(wal[cur].ch)
    /\ \E transient \in SUBSET {v \in Flaky : Absorbing(v) /\ phase[v] = "on"} :
        LET failing == {v \in Views : ExecFails(v, transient)}
            held == \E v \in failing : FailedPhase(v) = "blocked"
            rest == {i \in Window(upto) : i > cur}
        IN
        /\ transient # {} => used.faults < MaxFaults
        /\ used' = IF transient = {} THEN used ELSE [used EXCEPT !.faults = @ + 1]
        /\ lfrontier' = [v \in Views |-> IF Absorbs(v, transient) THEN cur ELSE lfrontier[v]]
        /\ draft' = [v \in Views |-> IF Absorbs(v, transient) THEN plan[v] ELSE draft[v]]
        /\ plan' = [v \in Views |-> IF Absorbing(v) THEN draft'[v] ELSE plan[v]]
        /\ lfailures' = [v \in Views |-> IF v \in failing THEN lfailures[v] + 1 ELSE lfailures[v]]
        /\ phase' = [v \in Views |->
                       IF v \in failing THEN FailedPhase(v)
                       ELSE IF Absorbing(v) /\ phase[v] = "stale" THEN "marked"
                       ELSE phase[v]]
        /\ blockedAt' = IF blockedAt = 0 /\ held THEN cur ELSE blockedAt
        /\ lshadow' = [t \in Tables |-> ShadowAfterTx(t)]
        /\ IF rest = {}
           THEN pc' = "commit" /\ UNCHANGED <<cur, pos>>
           ELSE cur' = Least(rest) /\ pos' = 1 /\ UNCHANGED pc
    /\ UNCHANGED <<wal, slot, catalogVars, shadow, buildVars, peekVars>>

EndRound ==
    /\ cur' = 0 /\ pos' = 0 /\ blockedAt' = 0
    /\ phase' = [v \in Views |-> "out"]
    /\ lfrontier' = [v \in Views |-> 0]
    /\ lfailures' = [v \in Views |-> 0]
    /\ draft' = [v \in Views |-> EmptyStorage]
    /\ plan' = [v \in Views |-> EmptyStorage]
    /\ lshadow' = [t \in Tables |-> NoShadow]

\* The catalog as the worker's transaction leaves it.  No update looks at the
\* view's current status: a refresh() made meanwhile is overwritten.
Loaded(v) == phase[v] # "out"
GaveUp(v) == phase[v] \in {"marked", "gaveup"}
FailedThisRound(v) == phase[v] \in {"blocked", "gaveup"}
AbsorbedSome(v) == Loaded(v) /\ lfrontier[v] > frontier[v]

FailuresAfter_Unrecorded(v) == IF AbsorbedSome(v) THEN 0 ELSE failures[v]
FailuresAfter(v) ==
    IF FailedThisRound(v) THEN lfailures[v]
    ELSE IF AbsorbedSome(v) THEN 0 ELSE failures[v]

\* Where the slot may go: the end of the last transaction before the first
\* one some live view has to retry.
Before(i) == {j \in Window(upto) : j < i}
AdvanceTo_PastFailure == cur
AdvanceTo ==
    IF blockedAt = 0 THEN cur
    ELSE IF Before(blockedAt) = {} THEN slot ELSE Greatest(Before(blockedAt))

CommitRound ==
    /\ pc = "commit"
    /\ status' = [v \in Views |-> IF GaveUp(v) THEN "stale" ELSE status[v]]
    /\ frontier' = [v \in Views |-> IF Loaded(v) THEN lfrontier[v] ELSE frontier[v]]
    /\ storage' = [v \in Views |-> IF Loaded(v) THEN draft[v] ELSE storage[v]]
    /\ failures' = [v \in Views |-> FailuresAfter(v)]
    /\ shadow' = lshadow
    /\ advTo' = AdvanceTo
    /\ drained' = (drained /\ blockedAt = 0)
    /\ pc' = "advance"
    /\ EndRound
    /\ UNCHANGED <<wal, slot, populated, epoch, buildVars, upto, used>>

-----------------------------------------------------------------------------
(* After the round: the slot, and the idle advance of a drained round.     *)

ForgetPeek == upto' = 0 /\ drained' = FALSE /\ advTo' = 0

\* pg_replication_slot_advance is not transactional and never goes back.
AdvanceSlot ==
    /\ pc = "advance"
    /\ slot' = Later(slot, advTo)
    /\ IF drained
       THEN pc' = "idle" /\ UNCHANGED peekVars
       ELSE pc' = "poll" /\ ForgetPeek
    /\ UNCHANGED <<wal, catalogVars, shadow, buildVars, roundVars, used>>

\* The idle advance moves the slot before its transaction commits the
\* frontiers, so the two are steps of their own.
IdleSlot ==
    /\ pc = "idle"
    /\ slot' = Later(slot, upto)
    /\ pc' = "idleCommit"
    /\ UNCHANGED <<wal, catalogVars, shadow, buildVars, peekVars, roundVars, used>>

IdleAdvances(v) == status[v] = "live" /\ frontier[v] < upto
IdleCommit ==
    /\ pc = "idleCommit"
    /\ frontier' = [v \in Views |-> IF IdleAdvances(v) THEN upto ELSE frontier[v]]
    /\ shadow' = [t \in Tables |->
                    IF shadow[t].exists /\ ~shadow[t].failed /\ shadow[t].frontier < upto
                    THEN [shadow[t] EXCEPT !.frontier = upto] ELSE shadow[t]]
    /\ pc' = "poll" /\ ForgetPeek
    /\ UNCHANGED <<wal, slot, status, populated, failures, epoch, storage, buildVars,
                   roundVars, used>>

\* The worker's transaction aborts: an error outside the subtransactions ends
\* the round (the slot stays), a server crash also restores the slot to some
\* earlier position, the one its last checkpoint saved.
Abort ==
    /\ used.crashes < MaxCrashes
    /\ used' = [used EXCEPT !.crashes = @ + 1]
    /\ slot' \in 0..slot
    /\ pc' = "poll"
    /\ todo' = {} /\ grp' = {} /\ point' = 0
    /\ ForgetPeek
    /\ EndRound
    /\ UNCHANGED <<wal, catalogVars, shadow>>

-----------------------------------------------------------------------------

Clients ==
    \/ CommitTx
    \/ CommitNoise
    \/ \E v \in Views : CreateView(v) \/ Refresh(v)

WorkerStep ==
    \/ LoadPending \/ BeginBuild \/ EndBuild \/ BuildFails \/ BuildsDone
    \/ Peek \/ PeekNothing \/ PlanChange \/ ExecTx \/ CommitRound
    \/ AdvanceSlot \/ IdleSlot \/ IdleCommit

Next == Clients \/ WorkerStep \/ Abort

\* The poll loop of worker_main never stops; clients owe nothing.
Spec == Init /\ [][Next]_vars
FairSpec == Spec /\ WF_vars(WorkerStep)

-----------------------------------------------------------------------------
(* Type invariant.                                                         *)

\* Every variable has the type its Rust or SQL counterpart has.
TypeOK ==
    /\ wal \in Seq(Transaction)
    /\ slot \in Nat
    /\ status \in [Views -> Statuses]
    /\ populated \in [Views -> BOOLEAN]
    /\ frontier \in [Views -> Nat]
    /\ failures \in [Views -> Nat]
    /\ epoch \in [Views -> Nat]
    /\ storage \in [Views -> Storage]
    /\ shadow \in [Tables -> ShadowTable]
    /\ pc \in Steps
    /\ todo \in SUBSET Views /\ grp \in SUBSET Views /\ point \in Nat
    /\ upto \in Nat /\ drained \in BOOLEAN /\ advTo \in Nat
    /\ cur \in Nat /\ pos \in Nat /\ blockedAt \in Nat
    /\ phase \in [Views -> Phases]
    /\ lfrontier \in [Views -> Nat]
    /\ lfailures \in [Views -> Nat]
    /\ draft \in [Views -> Storage]
    /\ plan \in [Views -> Storage]
    /\ lshadow \in [Tables -> ShadowTable]
    /\ used \in Budget

-----------------------------------------------------------------------------
(* Properties.                                                             *)

Touches(i, v) == \E j \in DOMAIN wal[i].ch : wal[i].ch[j].tab \in Rels[v]
TouchesTable(i, t) == \E j \in DOMAIN wal[i].ch : wal[i].ch[j].tab = t

\* Deferred transactional consistency (worker.rs apply_round): whatever the
\* status of a populated view, a reader finds the view's query over the base
\* tables as of exactly the view's frontier, a committed state.
ViewIsSnapshot ==
    \A v \in Views : populated[v] => storage[v] = Query(v, DbAt(frontier[v]))

\* The key invariant of shadow.rs: a maintained shadow holds its base table as
\* of the shadow's own frontier.
ShadowIsSnapshot ==
    \A t \in Tables :
        shadow[t].exists /\ ~shadow[t].failed => shadow[t].rows = DbAt(shadow[t].frontier)[t]

\* The slot never moves past a transaction a live view still has to absorb:
\* between a live view's frontier and the slot nothing touches the view.
NoLoss ==
    \A v \in Views : \A i \in Lsns :
        status[v] = "live" /\ frontier[v] < i /\ i <= slot => ~Touches(i, v)

\* The same of a maintained shadow and its table.
NoShadowLoss ==
    \A t \in Tables : \A i \in Lsns :
        /\ shadow[t].exists /\ ~shadow[t].failed
        /\ shadow[t].frontier < i /\ i <= slot
        => ~TouchesTable(i, t)

\* shadow.rs ensure: "A shadow whose maintenance failed has no live
\* dependents".
FailedShadowHasNoLiveView ==
    \A v \in Views : \A t \in Rels[v] :
        IsJoin(v) /\ status[v] = "live" => shadow[t].exists /\ ~shadow[t].failed

\* A frontier never goes back, and what a reader finds in a populated view
\* changes only together with the frontier it is said to reflect.
ContentMovesWithFrontier ==
    [][\A v \in Views :
        /\ frontier'[v] >= frontier[v]
        /\ populated[v] /\ storage'[v] # storage[v] => frontier'[v] > frontier[v]]_vars

\* Failure isolation (worker.rs apply_round): a view that did not itself fail
\* absorbs the whole peek, however other views fared in the same round.
HealthyViewsAbsorbPeek ==
    [][pc = "commit" /\ pc' = "advance" =>
        \A v \in Views :
            /\ phase[v] # "out"
            /\ status'[v] = "live" /\ failures'[v] <= failures[v]
            => \A i \in Lsns : Decoded(i) /\ i <= upto => i <= frontier'[v]]_vars

\* Every committed change of a live view's tables is eventually reflected, or
\* the view leaves 'live' and says so.
CatchesUp ==
    \A v \in Views : \A i \in 1..MaxLsn :
        (status[v] = "live" /\ i <= Len(wal) /\ Decoded(i))
            ~> (status[v] # "live" \/ frontier[v] >= i)

\* A view queued by create_view or refresh is eventually served (await_ready
\* returns, whatever the verdict).
PendingIsServed ==
    \A v \in Views : Pending(v) ~> ~Pending(v)

-----------------------------------------------------------------------------
(* Why NoLoss holds: the inductive invariant.                              *)

\* No decoded transaction lies after a and up to b.
Clear(a, b) == \A i \in Lsns : a < i /\ i <= b => ~Decoded(i)

Bounds ==
    /\ slot <= Flushed /\ point <= Flushed /\ upto <= Flushed /\ advTo <= Flushed
    /\ pc \in {"apply", "commit"} => cur \in Window(upto)
    /\ pc = "apply" => pos >= 1

\* A live view reflects everything the slot confirmed.
Covered == \A v \in Views : status[v] = "live" => Clear(frontier[v], slot)

\* Within a round, a view still absorbing has absorbed everything before the
\* current transaction; a blocked one everything before the transaction the
\* slot will be held at.
RoundSafe ==
    pc \in {"apply", "commit"} =>
        /\ blockedAt = 0 \/ blockedAt \in Window(cur)
        /\ \A v \in Views :
            /\ status[v] = "live" => phase[v] # "out"
            /\ phase[v] # "out" => lfrontier[v] >= frontier[v]
            /\ phase[v] \in Trying =>
                 Clear(lfrontier[v], IF pc = "apply" THEN cur - 1 ELSE upto)
            /\ phase[v] = "blocked" => blockedAt # 0 /\ Clear(lfrontier[v], blockedAt - 1)

\* Once the round is committed, no live view needs what the slot will skip.
AdvanceSafe ==
    \A v \in Views : status[v] = "live" =>
        /\ pc = "advance" => Clear(frontier[v], advTo)
        /\ pc = "advance" /\ drained => Clear(frontier[v], upto)
        /\ pc \in {"idle", "idleCommit"} => Clear(frontier[v], upto)

\* Inductive: the slot is never ahead of what a live view has absorbed, at any
\* step of a round and across aborts.
SlotInv == TypeOK /\ Bounds /\ Covered /\ RoundSafe /\ AdvanceSafe
=============================================================================
