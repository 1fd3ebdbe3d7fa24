------------------------------- MODULE Stream -------------------------------
(***************************************************************************)
(* nabla's place in the WAL: the replication slot that create_view and     *)
(* refresh make sure of and that the worker drops when it lags too far     *)
(* (worker.rs run_round, api.rs ensure_slot), the frontiers of views and   *)
(* shadows, and the idle window through which nabla.wait_for learns that   *)
(* a view is further than its frontier says (idle.rs, api.rs).             *)
(*                                                                         *)
(* Worker models WHAT a round does to the views' content; here a view is   *)
(* its position.  In return the WAL holds everything that moves the flush  *)
(* position, the worker's own bookkeeping commits included.                *)
(***************************************************************************)
EXTENDS Naturals, Sequences, Order

CONSTANTS
    Tables,        \* base tables
    NoTable,       \* what a commit changes that changes no published table
    NViews,        \* views are 1..NViews
    Rels,          \* [view -> tables its definition reads]
    Flaky,         \* views whose definition raises an error on a bad row
    MaxFailures,   \* nabla.max_apply_failures
    MaxLag,        \* nabla.max_slot_lag_bytes, in WAL entries
    CalmLag,       \* is the cap only exceeded while no view is queued, and the
                   \* drop of the slot not cut by a crash?
    MaxWrites,     \* bound: commits of other sessions
    MaxFaults,     \* bound: transient errors of populations
    MaxCrashes,    \* bound: failed rounds, worker restarts and server crashes
    MaxRefreshes,  \* bound: calls of refresh()
    MaxWaits       \* bound: calls of wait_for()

Views == 1..NViews
IsJoin(v) == \E a, b \in Rels[v] : a # b

ASSUME StreamAssumption ==
    /\ NoTable \notin Tables
    /\ NViews \in Nat
    /\ Rels \in [Views -> (SUBSET Tables) \ {{}}]
    /\ Flaky \subseteq Views
    /\ MaxFailures \in Nat \ {0}
    /\ MaxLag \in Nat
    /\ CalmLag \in BOOLEAN
    /\ MaxWrites \in Nat /\ MaxFaults \in Nat /\ MaxCrashes \in Nat
    /\ MaxRefreshes \in Nat /\ MaxWaits \in Nat

VARIABLES
    wal,           \* commits in order; the i-th one ends at position i
    slot,          \* the replication slot 'nabla', if it exists
    \* nabla.views
    status, populated, frontier, failures,
    shadow,        \* nabla.shadows
    \* the worker: where it is, and the population in progress
    pc, todo, grp, point,
    \* its round: how far it peeked, the views it loaded, where the slot may go
    upto, drained, loaded, advTo,
    \* WorkerState, lost when the worker restarts
    selfFlush, lastAdvance,
    window,        \* shared memory, lost when the server crashes
    wait,          \* a call of nabla.wait_for
    used           \* how much of each bound is used up

catalogVars == <<status, populated, frontier, failures, shadow>>
buildVars == <<todo, grp, point>>
roundVars == <<upto, drained, loaded, advTo>>
memoryVars == <<selfFlush, lastAdvance>>
workerVars == <<pc, buildVars, roundVars, memoryVars, window>>
streamVars == <<wal, slot, catalogVars, workerVars, wait, used>>

Lsns == 1..Len(wal)
Flushed == Len(wal)
Statuses == {"absent", "initializing", "refreshing", "live", "stale", "failed"}
Pending(v) == status[v] \in {"initializing", "refreshing"}

\* A commit: the published table it changes, and whether with a change that the
\* flaky views' select list raises an error on (and takes back, for a later
\* population succeeds).
Entry == [tab : Tables \cup {NoTable}, bad : BOOLEAN]
Bookkeeping == [tab |-> NoTable, bad |-> FALSE]

NoSlot == [exists |-> FALSE, at |-> 0, born |-> 0]
NoShadow == [exists |-> FALSE, frontier |-> 0]
NoWindow == [from |-> 0, to |-> 0]
NoWait == [pc |-> "off", view |-> 1, lsn |-> 0, seen |-> 0]
Steps == {"poll", "build", "building", "lag", "dropping", "apply", "advance",
          "idle", "idleCommit", "note"}

StreamInit ==
    /\ wal = <<>>
    /\ slot = NoSlot
    /\ status = [v \in Views |-> "absent"]
    /\ populated = [v \in Views |-> FALSE]
    /\ frontier = [v \in Views |-> 0]
    /\ failures = [v \in Views |-> 0]
    /\ shadow = [t \in Tables |-> NoShadow]
    /\ pc = "poll" /\ todo = {} /\ grp = {} /\ point = 0
    /\ upto = 0 /\ drained = FALSE /\ loaded = {} /\ advTo = 0
    /\ selfFlush = 0 /\ lastAdvance = 0
    /\ window = NoWindow
    /\ wait = NoWait
    /\ used = [writes |-> 0, faults |-> 0, crashes |-> 0, refreshes |-> 0, waits |-> 0]

-----------------------------------------------------------------------------
(* Sessions: writers, create_view and refresh.                             *)

CommitTx ==
    /\ used.writes < MaxWrites
    /\ used' = [used EXCEPT !.writes = @ + 1]
    /\ \E t \in Tables \cup {NoTable}, bad \in BOOLEAN :
        /\ bad => \E v \in Flaky : t \in Rels[v]
        /\ wal' = Append(wal, [tab |-> t, bad |-> bad])
    /\ UNCHANGED <<slot, catalogVars, workerVars, wait>>

\* ensure_slot: before any write of the calling transaction, and not undone
\* with it.  Making the slot logs a record of its own, and the slot starts
\* after it.
WithSlot == IF slot.exists THEN wal ELSE Append(wal, Bookkeeping)
EnsureSlot ==
    slot' = IF slot.exists THEN slot
            ELSE [exists |-> TRUE, at |-> Len(WithSlot), born |-> Len(WithSlot)]

CreateView(v) ==
    /\ status[v] = "absent"
    /\ \A u \in Views : u < v => status[u] # "absent"
    /\ EnsureSlot
    /\ status' = [status EXCEPT ![v] = "initializing"]
    /\ wal' = Append(WithSlot, Bookkeeping)
    /\ UNCHANGED <<populated, frontier, failures, shadow, workerVars, wait, used>>

\* refresh_closure: join views linked by a common base table.
SharesShadow(a, b) ==
    /\ IsJoin(a) /\ IsJoin(b)
    /\ status[a] # "absent" /\ status[b] # "absent"
    /\ Rels[a] \cap Rels[b] # {}

RefreshSet(v) == IF IsJoin(v) THEN Reach(Views, v, SharesShadow) ELSE {v}

Refresh(v) ==
    /\ status[v] # "absent"
    /\ used.refreshes < MaxRefreshes
    /\ used' = [used EXCEPT !.refreshes = @ + 1]
    /\ EnsureSlot
    /\ status' = [u \in Views |->
                    IF u \in RefreshSet(v) /\ ~Pending(u) THEN "refreshing" ELSE status[u]]
    /\ wal' = IF status' = status THEN WithSlot ELSE Append(WithSlot, Bookkeeping)
    /\ UNCHANGED <<populated, frontier, failures, shadow, workerVars, wait>>

-----------------------------------------------------------------------------
(* nabla.wait_for: the frontier and the idle window are read one after the *)
(* other, every 10 ms.                                                     *)

\* wait_for(view, pg_current_wal_lsn()).
WaitFor(v) ==
    /\ wait.pc = "off" /\ used.waits < MaxWaits
    /\ status[v] # "absent" /\ Flushed > 0
    /\ wait' = [pc |-> "read", view |-> v, lsn |-> Flushed, seen |-> 0]
    /\ used' = [used EXCEPT !.waits = @ + 1]
    /\ UNCHANGED <<wal, slot, catalogVars, workerVars>>

\* current_state: a stale or failed view ends the call with an error.
WaitReads ==
    /\ wait.pc = "read"
    /\ wait' = IF status[wait.view] \in {"stale", "failed"} THEN NoWait
               ELSE [wait EXCEPT !.pc = "check", !.seen = frontier[wait.view]]
    /\ UNCHANGED <<wal, slot, catalogVars, workerVars, used>>

\* effective_frontier: the stored frontier, or the end of the idle window when
\* the frontier is at or past its start.
Effective_AnyFrontier(f) == IF window.from # 0 /\ window.to > f THEN window.to ELSE f
Effective(f) ==
    IF window.from # 0 /\ f >= window.from /\ window.to > f THEN window.to ELSE f

WaitChecks ==
    /\ wait.pc = "check"
    /\ wait' = IF Effective(wait.seen) >= wait.lsn THEN NoWait
               ELSE [wait EXCEPT !.pc = "read", !.seen = 0]
    /\ UNCHANGED <<wal, slot, catalogVars, workerVars, used>>

-----------------------------------------------------------------------------
(* The worker: population.                                                 *)

NextBuild(left) == pc' = IF left = {} THEN "lag" ELSE "build"

LoadPending ==
    /\ pc = "poll"
    /\ todo' = {v \in Views : Pending(v)}
    /\ NextBuild(todo')
    /\ UNCHANGED <<wal, slot, catalogVars, grp, point, roundVars, memoryVars,
                   window, wait, used>>

\* group(): refreshing join views with a common relation are rebuilt together.
Shared(v) == status[v] = "refreshing" /\ IsJoin(v)
JoinsGroupOf(a, b) ==
    /\ b \in todo /\ a < b
    /\ Shared(a) /\ Shared(b)
    /\ Rels[a] \cap Rels[b] # {}

NextGroup == Reach(Views, Least(todo), JoinsGroupOf)

\* The temporary slot logs a record, and its consistent point is after it.
BeginBuild ==
    /\ pc = "build"
    /\ grp' = NextGroup
    /\ todo' = todo \ NextGroup
    /\ wal' = Append(wal, Bookkeeping)
    /\ point' = Len(wal')
    /\ pc' = "building"
    /\ UNCHANGED <<slot, catalogVars, roundVars, memoryVars, window, wait, used>>

\* A rebuild snapshots every shadow of the group anew; a first build makes the
\* missing ones and reuses the others as they are.
Rebuild(v) == status[v] = "refreshing" /\ populated[v]
ShadowUsers(t) == {v \in grp : IsJoin(v) /\ t \in Rels[v]}

SnapshotsShadow_Reuses(t) == ShadowUsers(t) # {} /\ ~shadow[t].exists
SnapshotsShadow(t) ==
    /\ ShadowUsers(t) # {}
    /\ Rebuild(Least(ShadowUsers(t))) \/ ~shadow[t].exists

\* The main slot is looked at only if it exists.
EndBuild ==
    /\ pc = "building"
    /\ slot.exists => slot.at <= point
    /\ shadow' = [t \in Tables |->
                    IF SnapshotsShadow(t) THEN [exists |-> TRUE, frontier |-> point]
                    ELSE shadow[t]]
    /\ frontier' = [v \in Views |-> IF v \in grp THEN point ELSE frontier[v]]
    /\ status' = [v \in Views |-> IF v \in grp THEN "live" ELSE status[v]]
    /\ populated' = [v \in Views |-> populated[v] \/ v \in grp]
    /\ failures' = [v \in Views |-> IF v \in grp THEN 0 ELSE failures[v]]
    /\ wal' = Append(wal, Bookkeeping)
    /\ grp' = {} /\ point' = 0 /\ NextBuild(todo)
    /\ UNCHANGED <<slot, todo, roundVars, memoryVars, window, wait, used>>

\* The slot is past the consistent point, or something transient.
BuildFails ==
    /\ pc = "building"
    /\ \/ slot.exists /\ slot.at > point /\ UNCHANGED used
       \/ used.faults < MaxFaults /\ used' = [used EXCEPT !.faults = @ + 1]
    /\ status' = [v \in Views |-> IF v \in grp THEN "failed" ELSE status[v]]
    /\ wal' = Append(wal, Bookkeeping)
    /\ grp' = {} /\ point' = 0 /\ NextBuild(todo)
    /\ UNCHANGED <<slot, populated, frontier, failures, shadow, todo, roundVars,
                   memoryVars, window, wait>>

-----------------------------------------------------------------------------
(* The worker: presence and lag of the slot.                               *)

Lagging ==
    /\ Flushed - slot.at > MaxLag
    /\ CalmLag => \A v \in Views : ~Pending(v)

\* create_view and refresh make the slot; until then there is nothing to do.
NoSlotYet ==
    /\ pc = "lag" /\ ~slot.exists
    /\ pc' = "poll"
    /\ UNCHANGED <<wal, slot, catalogVars, buildVars, roundVars, memoryVars, window, wait, used>>

\* The drop of the slot is not transactional: it is visible, and stays, before
\* the transaction that also marks the views commits.
DropSlot ==
    /\ pc = "lag" /\ slot.exists /\ Lagging
    /\ slot' = NoSlot
    /\ pc' = "dropping"
    /\ UNCHANGED <<wal, catalogVars, buildVars, roundVars, memoryVars, window,
                   wait, used>>

StatusAfterDrop_Kept(v) == status[v]
StatusAfterDrop(v) == IF status[v] = "live" THEN "stale" ELSE status[v]

MarkStale ==
    /\ pc = "dropping"
    /\ status' = [v \in Views |-> StatusAfterDrop(v)]
    /\ wal' = IF status' = status THEN wal ELSE Append(wal, Bookkeeping)
    /\ pc' = "poll"
    /\ UNCHANGED <<slot, populated, frontier, failures, shadow, buildVars,
                   roundVars, memoryVars, window, wait, used>>

-----------------------------------------------------------------------------
(* The worker: a round.  The lag check and the peek right after it are one *)
(* step: nothing but other commits can come between.                       *)

Decoded(i) == wal[i].tab # NoTable
Window(to) == {i \in Lsns : slot.at < i /\ i <= to /\ Decoded(i)}

\* Nothing decodable and no WAL beyond the worker's own last commit: the range
\* since the last idle advance holds no published change.
IdleWindow_Unpublished == window
IdleWindow == IF lastAdvance > 0 THEN [from |-> lastAdvance, to |-> Flushed] ELSE window

PeekNothing ==
    /\ pc = "lag" /\ slot.exists /\ ~Lagging
    /\ Window(Flushed) = {} /\ Flushed = selfFlush
    /\ window' = IdleWindow
    /\ pc' = "poll"
    /\ UNCHANGED <<wal, slot, catalogVars, buildVars, roundVars, memoryVars, wait, used>>

Peek ==
    /\ pc = "lag" /\ slot.exists /\ ~Lagging
    /\ Window(Flushed) # {} \/ Flushed # selfFlush
    /\ \/ upto' = Flushed /\ drained' = TRUE
       \/ upto' \in Window(Flushed) /\ drained' = FALSE
    /\ IF Window(Flushed) = {}
       THEN pc' = "idle" /\ UNCHANGED loaded
       ELSE pc' = "apply" /\ loaded' = {v \in Views : status[v] = "live"}
    /\ UNCHANGED <<wal, slot, catalogVars, buildVars, advTo, memoryVars, window,
                   wait, used>>

\* What the round does to a view: it stops before the first commit that fails
\* for it, which is retried until the view failed MaxFailures times.
Fatal(v) == {i \in Window(upto) :
    v \in Flaky /\ i > frontier[v] /\ wal[i].bad /\ wal[i].tab \in Rels[v]}
Absorbed(v) == {i \in Window(upto) : i > frontier[v] /\ \A j \in Fatal(v) : i < j}
Failing == {v \in loaded : Fatal(v) # {}}

GivesUp_Late(v) == failures[v] + 1 > MaxFailures
GivesUp(v) == failures[v] + 1 >= MaxFailures

\* The first commit some live view has to retry holds the slot before it.
Blocking == {Least(Fatal(v)) : v \in {u \in Failing : ~GivesUp(u)}}
Passed_All == Window(upto)
Passed == {i \in Window(upto) : \A j \in Blocking : i < j}

FrontierAfter(v) ==
    IF v \in loaded /\ Absorbed(v) # {} THEN Greatest(Absorbed(v)) ELSE frontier[v]
FailuresAfter(v) ==
    IF v \in Failing THEN failures[v] + 1
    ELSE IF v \in loaded /\ Absorbed(v) # {} THEN 0 ELSE failures[v]

\* The catalog updates are made by id: a refresh() made meanwhile is
\* overwritten by 'stale'.
Apply ==
    /\ pc = "apply"
    /\ frontier' = [v \in Views |-> FrontierAfter(v)]
    /\ failures' = [v \in Views |-> FailuresAfter(v)]
    /\ status' = [v \in Views |-> IF v \in Failing /\ GivesUp(v) THEN "stale" ELSE status[v]]
    /\ shadow' = [t \in Tables |->
                    IF shadow[t].exists /\ shadow[t].frontier < Greatest(Window(upto))
                    THEN [shadow[t] EXCEPT !.frontier = Greatest(Window(upto))]
                    ELSE shadow[t]]
    /\ wal' = IF <<frontier', failures', status', shadow'>> = <<frontier, failures, status, shadow>>
              THEN wal ELSE Append(wal, Bookkeeping)
    /\ advTo' = IF Passed = {} THEN slot.at ELSE Greatest(Passed)
    /\ drained' = (drained /\ Blocking = {})
    /\ pc' = "advance"
    /\ UNCHANGED <<slot, populated, buildVars, upto, loaded, memoryVars, window,
                   wait, used>>

ForgetRound == upto' = 0 /\ drained' = FALSE /\ loaded' = {} /\ advTo' = 0

MoveSlot(to) == slot' = [slot EXCEPT !.at = IF to > @ THEN to ELSE @]

AdvanceSlot ==
    /\ pc = "advance"
    /\ MoveSlot(advTo)
    /\ IF drained THEN pc' = "idle" /\ UNCHANGED roundVars
       ELSE pc' = "poll" /\ ForgetRound
    /\ UNCHANGED <<wal, catalogVars, buildVars, memoryVars, window, wait, used>>

\* The idle advance: the slot moves before the transaction commits.
IdleSlot ==
    /\ pc = "idle"
    /\ MoveSlot(upto)
    /\ pc' = "idleCommit"
    /\ UNCHANGED <<wal, catalogVars, buildVars, roundVars, memoryVars, window,
                   wait, used>>

IdleCommit ==
    /\ pc = "idleCommit"
    /\ frontier' = [v \in Views |->
                      IF status[v] = "live" /\ frontier[v] < upto THEN upto ELSE frontier[v]]
    /\ shadow' = [t \in Tables |->
                    IF shadow[t].exists /\ shadow[t].frontier < upto
                    THEN [shadow[t] EXCEPT !.frontier = upto] ELSE shadow[t]]
    /\ wal' = IF <<frontier', shadow'>> = <<frontier, shadow>>
              THEN wal ELSE Append(wal, Bookkeeping)
    /\ pc' = "note"
    /\ UNCHANGED <<slot, status, populated, failures, buildVars, roundVars,
                   memoryVars, window, wait, used>>

\* What a round publishes that has just moved the frontiers to upto.
NotedWindow_ToFlush == [from |-> upto, to |-> Flushed]
NotedWindow == [from |-> upto, to |-> upto]

\* Other sessions may have committed since: their WAL counts as seen too.
NoteFlush ==
    /\ pc = "note"
    /\ selfFlush' = Flushed /\ lastAdvance' = upto
    /\ window' = NotedWindow
    /\ pc' = "poll" /\ ForgetRound
    /\ UNCHANGED <<wal, slot, catalogVars, buildVars, wait, used>>

-----------------------------------------------------------------------------
(* Failures: an error ends the round, the worker restarts without its      *)
(* memory, the server crashes and with it the sessions and shared memory.  *)

CrashPoint ==
    /\ used.crashes < MaxCrashes
    /\ CalmLag => pc # "dropping"
    /\ used' = [used EXCEPT !.crashes = @ + 1]
    /\ pc' = "poll"
    /\ todo' = {} /\ grp' = {} /\ point' = 0
    /\ ForgetRound
    /\ UNCHANGED <<wal, catalogVars>>

RoundError ==
    /\ pc # "poll" /\ CrashPoint
    /\ UNCHANGED <<slot, memoryVars, window, wait>>

WorkerRestart ==
    /\ CrashPoint
    /\ selfFlush' = 0 /\ lastAdvance' = 0
    /\ UNCHANGED <<slot, window, wait>>

\* The slot is where its last checkpoint saved it.
ServerCrash ==
    /\ CrashPoint
    /\ \E at \in slot.born..slot.at : slot' = [slot EXCEPT !.at = at]
    /\ selfFlush' = 0 /\ lastAdvance' = 0
    /\ window' = NoWindow /\ wait' = NoWait

-----------------------------------------------------------------------------

Sessions ==
    \/ CommitTx
    \/ \E v \in Views : CreateView(v) \/ Refresh(v) \/ WaitFor(v)

WaitStep == WaitReads \/ WaitChecks

WorkerStep ==
    \/ LoadPending \/ BeginBuild \/ EndBuild \/ BuildFails
    \/ NoSlotYet \/ DropSlot \/ MarkStale
    \/ Peek \/ PeekNothing \/ Apply \/ AdvanceSlot \/ IdleSlot \/ IdleCommit \/ NoteFlush

StreamNext == Sessions \/ WaitStep \/ WorkerStep \/ RoundError \/ WorkerRestart \/ ServerCrash

\* The worker polls for ever, and so does a session in wait_for; nobody has to
\* call anything.
StreamSpec == StreamInit /\ [][StreamNext]_streamVars
FairStream == StreamSpec /\ WF_streamVars(WorkerStep) /\ WF_streamVars(WaitStep)

-----------------------------------------------------------------------------
(* Properties.                                                             *)

Position == 0..Len(wal)
Budget == [writes : Nat, faults : Nat, crashes : Nat, refreshes : Nat, waits : Nat]

\* Types; a live view has failed less often than nabla.max_apply_failures says.
StreamTypeOK ==
    /\ wal \in Seq(Entry)
    /\ slot \in [exists : BOOLEAN, at : Position, born : Position]
    /\ status \in [Views -> Statuses]
    /\ populated \in [Views -> BOOLEAN]
    /\ frontier \in [Views -> Position]
    /\ failures \in [Views -> 0..MaxFailures]
    /\ \A v \in Views : status[v] = "live" => failures[v] < MaxFailures
    /\ shadow \in [Tables -> [exists : BOOLEAN, frontier : Position]]
    /\ pc \in Steps /\ todo \subseteq Views /\ grp \subseteq Views /\ point \in Position
    /\ upto \in Position /\ drained \in BOOLEAN /\ loaded \subseteq Views /\ advTo \in Position
    /\ selfFlush \in Position /\ lastAdvance \in Position
    /\ window \in [from : Position, to : Position]
    /\ wait \in [pc : {"off", "read", "check"}, view : Nat, lsn : Position, seen : Position]
    /\ wait.pc # "off" => wait.view \in Views
    /\ used \in Budget

\* No published change after a and up to b.
Clear(a, b) == \A i \in Lsns : a < i /\ i <= b => ~Decoded(i)

\* The same of one table's changes.
Untouched(t, a, b) == \A i \in Lsns : a < i /\ i <= b => wal[i].tab # t

\* What population and round rely on: the views on the queue are still pending,
\* and a round that applies has a slot, something to apply, and a budget left
\* for every view it loaded.
QueueOK ==
    /\ pc # "building" => grp = {}
    /\ pc = "build" => todo # {}
    /\ pc \in {"build", "building"} => \A v \in todo \cup grp : Pending(v)
    /\ todo \cap grp = {}

RoundOK ==
    pc = "apply" =>
        /\ slot.exists
        /\ Window(upto) # {}
        /\ \A v \in loaded : failures[v] < MaxFailures

\* Queued and live views have a slot, and nothing that is not behind a live view
\* is behind the slot; while the slot is being dropped they are about to go stale.
SlotBacks ==
    /\ \A v \in Views : Pending(v) => slot.exists
    /\ pc # "dropping" =>
         \A v \in Views : status[v] = "live" => slot.exists /\ Clear(frontier[v], slot.at)

\* The same of the positions the round is about to move the slot to.
AdvanceCovered ==
    \A v \in Views : status[v] = "live" =>
        /\ pc = "apply" => v \in loaded
        /\ pc = "advance" =>
             Clear(frontier[v], advTo) /\ (drained => Clear(frontier[v], upto))
        /\ pc \in {"idle", "idleCommit"} => Clear(frontier[v], upto)

\* The inductive invariant behind NothingSkipped (worker.rs run_round): between
\* its drop, its making and every advance, the slot never leaves a live or
\* queued view behind.
SlotPlaced == QueueOK /\ RoundOK /\ SlotBacks /\ AdvanceCovered

\* Not given up: what wait_for still answers for.
Readable(v) == status[v] = "live" \/ Pending(v)

\* Whoever moves a frontier commits after it: every frontier is short of the
\* flush position, and of the point the next build reads at; a waiting session
\* has not seen more than there is.
FrontiersLogged ==
    /\ \A v \in Views : frontier[v] = 0 \/ frontier[v] < Flushed
    /\ pc = "building" =>
        /\ lastAdvance <= point /\ window.from <= point /\ window.to <= point
        /\ \A v \in Views : frontier[v] <= point
    /\ wait.pc = "check" => wait.seen <= frontier[wait.view]

\* An idle advance takes all live views along, and builds start beyond it.
LiveIsPast ==
    \A v \in Views :
        /\ status[v] = "live" => frontier[v] >= lastAdvance /\ frontier[v] >= window.from
        /\ pc = "note" /\ status[v] = "live" => frontier[v] >= upto
        /\ pc = "apply" /\ v \in loaded => frontier[v] >= window.from /\ Readable(v)

\* A request made after the worker looked at the queue is WAL the worker has not
\* seen either.
QueueSeen ==
    /\ pc = "lag" => todo = {}
    /\ pc \in {"build", "building", "lag"} =>
        \A v \in Views : Pending(v) => v \in todo \cup grp \/ Flushed > selfFlush

\* A view that gave up did so at a commit before the idle advance: as long as
\* nothing was logged since, whatever is at or past the advance is readable.
AheadIsReadable ==
    \A v \in Views :
        /\ lastAdvance > 0 /\ Flushed = selfFlush /\ frontier[v] >= lastAdvance => Readable(v)
        /\ pc = "apply" /\ drained => frontier[v] = 0 \/ frontier[v] < upto
        /\ (pc = "advance" /\ drained) \/ pc \in {"idle", "idleCommit", "note"} =>
             frontier[v] = 0 \/ frontier[v] < upto \/ Readable(v)

\* idle.rs: whatever has reached the start of the window reflects its end.
WindowSound ==
    \A v \in Views :
        window.from # 0 /\ frontier[v] >= window.from => Clear(frontier[v], window.to)

\* The inductive invariant behind WaitIsRight, together with SlotPlaced
\* (worker.rs run_round, idle.rs): from the idle advance to the publication of
\* the window, with commits, requests and builds in between, the window never
\* covers a change that a view at its start has not absorbed.
WindowPlaced ==
    FrontiersLogged /\ LiveIsPast /\ QueueSeen /\ AheadIsReadable /\ WindowSound

\* Whatever happens to the slot - dropped for lag, made again, moved back by a
\* crash - a live view has absorbed every change of its tables up to it
\* (worker.rs run_round: the drop marks every live view stale).
NothingSkipped ==
    pc # "dropping" =>
        \A v \in Views : \A t \in Rels[v] :
            status[v] = "live" => Untouched(t, frontier[v], slot.at)

\* README "Shadow tables": the shadows of a live join view exist and have
\* absorbed every change of their tables the slot will not deliver again.
ShadowsKeepUp ==
    pc # "dropping" =>
        \A v \in Views : \A t \in Rels[v] :
            status[v] = "live" /\ IsJoin(v) =>
                shadow[t].exists /\ Untouched(t, shadow[t].frontier, slot.at)

\* When wait_for(view, lsn) returns true, what is read from the view reflects
\* every change up to lsn, idle window or not (api.rs wait_for).
WaitIsRight ==
    [][WaitChecks /\ wait'.pc = "off" =>
         \A t \in Rels[wait.view] : Untouched(t, frontier[wait.view], wait.lsn)]_streamVars

\* idle.rs: without the window "a client calling nabla.wait_for ... would wait
\* forever".  With it every call ends, with true or with the view's error.
WaitReturns == (wait.pc # "off") ~> (wait.pc = "off")
=============================================================================
