---------------------------- MODULE StreamProofs ----------------------------
(***************************************************************************)
(* Machine-checked theorems of module Stream, for every set of tables and  *)
(* views and every bound: the type invariant, and that no live view is     *)
(* left behind by the slot, however often it is dropped and made again.    *)
(***************************************************************************)
EXTENDS Stream, OrderProofs

-----------------------------------------------------------------------------
(* The log only grows.                                                     *)

WalKeeps ==
    /\ wal' \in Seq(Entry)
    /\ Len(wal) \in Nat /\ Len(wal') \in Nat /\ Len(wal) <= Len(wal')
    /\ \A i \in Lsns : i \in Lsns' /\ wal'[i] = wal[i]

\* One more commit keeps the log as it was.
LEMMA AppendIs ==
    ASSUME NEW w \in Seq(Entry), NEW x \in Entry
    PROVE  /\ Append(w, x) \in Seq(Entry)
           /\ Len(w) \in Nat /\ Len(Append(w, x)) = Len(w) + 1
           /\ \A i \in 1..Len(w) : Append(w, x)[i] = w[i]
OBVIOUS

\* The worker's own commits are entries of the log.
LEMMA BookkeepingIs == Bookkeeping \in Entry
BY DEF Bookkeeping, Entry

\* A step that appends the worker's own commit, or nothing, keeps the log.
LEMMA OwnCommitKeeps ==
    ASSUME wal \in Seq(Entry), wal' \in {wal, Append(wal, Bookkeeping)}
    PROVE  WalKeeps
BY AppendIs, BookkeepingIs DEF WalKeeps, Lsns

\* ensure_slot (api.rs) logs at most one record of its own, and its caller one more.
LEMMA SlotMakingKeeps ==
    ASSUME wal \in Seq(Entry), wal' \in {WithSlot, Append(WithSlot, Bookkeeping)}
    PROVE  WalKeeps /\ Len(WithSlot) <= Len(wal') /\ Len(WithSlot) \in Nat
<1>. DEFINE w == WithSlot
<1>1. /\ w \in Seq(Entry) /\ Len(wal) \in Nat /\ Len(w) \in Nat /\ Len(wal) <= Len(w)
      /\ \A i \in 1..Len(wal) : w[i] = wal[i]
    BY AppendIs, BookkeepingIs DEF WithSlot
<1>. HIDE DEF w
<1>2. /\ wal' \in Seq(Entry) /\ Len(wal') \in Nat /\ Len(w) <= Len(wal')
      /\ \A i \in 1..Len(w) : wal'[i] = w[i]
  <2>1. wal' = w \/ wal' = Append(w, Bookkeeping)
      BY DEF w
  <2>2. /\ Append(w, Bookkeeping) \in Seq(Entry) /\ Len(Append(w, Bookkeeping)) = Len(w) + 1
        /\ \A i \in 1..Len(w) : Append(w, Bookkeeping)[i] = w[i]
      BY <1>1, AppendIs, BookkeepingIs
  <2>3. CASE wal' = w
      BY <1>1, <2>3
  <2>4. CASE wal' = Append(w, Bookkeeping)
      BY <1>1, <2>2, <2>4
  <2>. QED
      BY <2>1, <2>3, <2>4
<1>3. /\ Len(wal) <= Len(wal')
      /\ \A i \in 1..Len(wal) : i \in 1..Len(w) /\ i \in 1..Len(wal')
    BY <1>1, <1>2
<1>. QED
    BY <1>1, <1>2, <1>3 DEF WalKeeps, Lsns, w

\* Positions stay positions; what is known of old entries stays known.
LEMMA OldEntries ==
    ASSUME WalKeeps
    PROVE  /\ Position \in SUBSET Nat /\ \A i \in Position : i <= Len(wal)
           /\ \A i \in Position : i \in Position'
           /\ Len(wal') \in Position'
           /\ \A a \in Position, b \in Position : Clear(a, b) => Clear(a, b)'
           /\ slot' = slot => \A to \in Position : Window(to)' = Window(to)
<1>1. /\ Position \in SUBSET Nat /\ \A i \in Position : i <= Len(wal)
      /\ \A i \in Position : i \in Position'
      /\ Len(wal') \in Position'
    BY DEF WalKeeps, Position
<1>2. \A to \in Position : \A i \in Lsns' : i <= to => i \in Lsns
    BY <1>1 DEF WalKeeps, Lsns
<1>3. \A i \in Lsns : Decoded(i)' <=> Decoded(i)
    BY DEF WalKeeps, Decoded
<1>4. \A a \in Position, b \in Position : Clear(a, b) => Clear(a, b)'
    BY <1>2, <1>3 DEF Clear
<1>5. slot' = slot => \A to \in Position : Window(to)' = Window(to)
    BY <1>2, <1>3 DEF Window, WalKeeps
<1>. QED
    BY <1>1, <1>4, <1>5

-----------------------------------------------------------------------------
(* Types.                                                                  *)

TypeInv == StreamTypeOK /\ QueueOK /\ RoundOK

\* What a step leaves alone keeps its type in the longer log.
LEMMA OldTypes ==
    ASSUME StreamTypeOK, WalKeeps
    PROVE  /\ slot \in [exists : BOOLEAN, at : Position', born : Position']
           /\ frontier \in [Views -> Position']
           /\ shadow \in [Tables -> [exists : BOOLEAN, frontier : Position']]
           /\ point \in Position' /\ upto \in Position' /\ advTo \in Position'
           /\ selfFlush \in Position' /\ lastAdvance \in Position'
           /\ window \in [from : Position', to : Position']
           /\ wait \in [pc : {"off", "read", "check"}, view : Nat,
                        lsn : Position', seen : Position']
BY OldEntries DEF StreamTypeOK

\* A round under way does not notice what sessions commit.
LEMMA RoundKept ==
    ASSUME TypeInv, WalKeeps, UNCHANGED <<pc, failures, upto, loaded>>,
           slot.exists => slot' = slot
    PROVE  RoundOK'
<1>. SUFFICES ASSUME pc = "apply" PROVE RoundOK'
    BY DEF RoundOK
<1>1. slot' = slot /\ upto \in Position
    BY DEF TypeInv, RoundOK, StreamTypeOK
<1>2. Window(upto)' = Window(upto)
  <2>1. Window(upto)' = {i \in Lsns' : slot'.at < i /\ i <= upto' /\ Decoded(i)'}
      BY DEF Window
  <2>2. Window(upto) = {i \in Lsns : slot.at < i /\ i <= upto /\ Decoded(i)}
      BY DEF Window
  <2>3. \A i \in Lsns' : i <= upto => i \in Lsns
      BY <1>1, OldEntries DEF WalKeeps, Lsns
  <2>4. \A i \in Lsns : i \in Lsns' /\ (Decoded(i)' <=> Decoded(i))
      BY DEF WalKeeps, Decoded
  <2>. QED
      BY <1>1, <2>1, <2>2, <2>3, <2>4
<1>. QED
    BY <1>1, <1>2 DEF TypeInv, RoundOK

\* ensure_slot makes a well-typed slot, and leaves one that exists.
LEMMA EnsureSlotType ==
    ASSUME StreamTypeOK, EnsureSlot, WalKeeps, Len(WithSlot) \in Nat,
           Len(WithSlot) <= Len(wal')
    PROVE  /\ slot' \in [exists : BOOLEAN, at : Position', born : Position']
           /\ slot'.exists
           /\ slot.exists => slot' = slot
<1>1. Len(WithSlot) \in Position'
    BY DEF Position, WalKeeps
<1>. QED
    BY <1>1, OldTypes DEF EnsureSlot, StreamTypeOK

\* Using up one more of a bound.
LEMMA UsedType ==
    ASSUME used \in Budget
    PROVE  /\ [used EXCEPT !.writes = @ + 1] \in Budget
           /\ [used EXCEPT !.faults = @ + 1] \in Budget
           /\ [used EXCEPT !.crashes = @ + 1] \in Budget
           /\ [used EXCEPT !.refreshes = @ + 1] \in Budget
           /\ [used EXCEPT !.waits = @ + 1] \in Budget
<1>1. /\ used.writes + 1 \in Nat /\ used.faults + 1 \in Nat /\ used.crashes + 1 \in Nat
      /\ used.refreshes + 1 \in Nat /\ used.waits + 1 \in Nat
    BY DEF Budget
<1>. QED
    BY <1>1 DEF Budget

\* A step that makes no view live and moves no position of the worker.
LEMMA RequestType ==
    ASSUME StreamTypeOK, WalKeeps,
           slot' \in [exists : BOOLEAN, at : Position', born : Position'],
           status' \in [Views -> Statuses],
           \A u \in Views : status'[u] = "live" => status[u] = "live",
           used' \in Budget,
           UNCHANGED <<populated, frontier, failures, shadow, workerVars, wait>>
    PROVE  StreamTypeOK'
<1>1. UNCHANGED <<pc, todo, grp, point, upto, drained, loaded, advTo, selfFlush, lastAdvance,
                  window>>
    BY DEF workerVars, buildVars, roundVars, memoryVars
<1>2. \A u \in Views : status'[u] = "live" => failures'[u] < MaxFailures
    BY DEF StreamTypeOK
<1>3. /\ frontier' \in [Views -> Position']
      /\ shadow' \in [Tables -> [exists : BOOLEAN, frontier : Position']]
      /\ window' \in [from : Position', to : Position']
      /\ wait' \in [pc : {"off", "read", "check"}, view : Nat, lsn : Position', seen : Position']
    BY <1>1, OldTypes
<1>4. /\ point' \in Position' /\ upto' \in Position' /\ advTo' \in Position'
      /\ selfFlush' \in Position' /\ lastAdvance' \in Position'
    BY <1>1, OldTypes
<1>. QED
    BY <1>1, <1>2, <1>3, <1>4 DEF StreamTypeOK, WalKeeps

\* The calls of sessions (api.rs): commits, create_view, refresh and wait_for.
LEMMA SessionsType ==
    ASSUME TypeInv, Sessions \/ WaitStep
    PROVE  TypeInv' /\ WalKeeps
<1>. USE DEF TypeInv
<1>0. wal \in Seq(Entry) /\ Len(wal) \in Nat
    BY DEF StreamTypeOK
<1>1. CASE CommitTx
  <2>1. PICK x \in Entry : wal' = Append(wal, x)
      BY <1>1 DEF CommitTx, Entry
  <2>2. WalKeeps
      BY <1>0, <2>1, AppendIs DEF WalKeeps, Lsns
  <2>3. StreamTypeOK'
    <3>1. used' \in Budget
        BY <1>1, UsedType DEF CommitTx, StreamTypeOK
    <3>2. UNCHANGED <<slot, status, populated, frontier, failures, shadow, workerVars, wait>>
        BY <1>1 DEF CommitTx, catalogVars
    <3>3. /\ slot' \in [exists : BOOLEAN, at : Position', born : Position']
          /\ status' \in [Views -> Statuses]
        BY <2>2, <3>2, OldTypes DEF StreamTypeOK
    <3>. QED
        BY <2>2, <3>1, <3>2, <3>3, RequestType
  <2>4. QueueOK'
      BY <1>1 DEF CommitTx, QueueOK, Pending, catalogVars, workerVars, buildVars
  <2>5. RoundOK'
      BY <1>1, <2>2, RoundKept DEF CommitTx, catalogVars, workerVars, roundVars
  <2>. QED
      BY <2>2, <2>3, <2>4, <2>5
<1>2. ASSUME NEW v \in Views, CreateView(v)
      PROVE  TypeInv' /\ WalKeeps
  <2>1. wal' \in {WithSlot, Append(WithSlot, Bookkeeping)}
      BY <1>2 DEF CreateView
  <2>2. WalKeeps /\ Len(WithSlot) <= Len(wal') /\ Len(WithSlot) \in Nat
      BY <1>0, <2>1, SlotMakingKeeps
  <2>3. /\ slot' \in [exists : BOOLEAN, at : Position', born : Position']
        /\ slot.exists => slot' = slot
      BY <1>2, <2>2, EnsureSlotType DEF CreateView
  <2>4. status' \in [Views -> Statuses] /\ status'[v] = "initializing"
        /\ \A u \in Views : u # v => status'[u] = status[u]
      BY <1>2 DEF CreateView, StreamTypeOK, Statuses
  <2>5. StreamTypeOK'
    <3>1. used' \in Budget
        BY <1>2 DEF CreateView, StreamTypeOK
    <3>2. UNCHANGED <<populated, frontier, failures, shadow, workerVars, wait>>
        BY <1>2 DEF CreateView
    <3>3. \A u \in Views : status'[u] = "live" => status[u] = "live"
        BY <2>4
    <3>. QED
        BY <2>2, <2>3, <2>4, <3>1, <3>2, <3>3, RequestType
  <2>6. QueueOK'
      BY <1>2, <2>4 DEF CreateView, QueueOK, Pending, workerVars, buildVars, StreamTypeOK
  <2>7. RoundOK'
      BY <1>2, <2>2, <2>3, RoundKept DEF CreateView, workerVars, roundVars
  <2>. QED
      BY <2>2, <2>5, <2>6, <2>7
<1>3. ASSUME NEW v \in Views, Refresh(v)
      PROVE  TypeInv' /\ WalKeeps
  <2>1. wal' \in {WithSlot, Append(WithSlot, Bookkeeping)}
      BY <1>3 DEF Refresh
  <2>2. WalKeeps /\ Len(WithSlot) <= Len(wal') /\ Len(WithSlot) \in Nat
      BY <1>0, <2>1, SlotMakingKeeps
  <2>3. /\ slot' \in [exists : BOOLEAN, at : Position', born : Position']
        /\ slot.exists => slot' = slot
      BY <1>3, <2>2, EnsureSlotType DEF Refresh
  <2>4. status' \in [Views -> Statuses]
        /\ \A u \in Views : status'[u] \in {status[u], "refreshing"}
      BY <1>3 DEF Refresh, StreamTypeOK, Statuses
  <2>5. StreamTypeOK'
    <3>1. used' \in Budget
        BY <1>3, UsedType DEF Refresh, StreamTypeOK
    <3>2. UNCHANGED <<populated, frontier, failures, shadow, workerVars, wait>>
        BY <1>3 DEF Refresh
    <3>3. \A u \in Views : status'[u] = "live" => status[u] = "live"
        BY <2>4
    <3>. QED
        BY <2>2, <2>3, <2>4, <3>1, <3>2, <3>3, RequestType
  <2>6. QueueOK'
      BY <1>3, <2>4 DEF Refresh, QueueOK, Pending, workerVars, buildVars, StreamTypeOK
  <2>7. RoundOK'
      BY <1>3, <2>2, <2>3, RoundKept DEF Refresh, workerVars, roundVars
  <2>. QED
      BY <2>2, <2>5, <2>6, <2>7
<1>4. CASE WaitStep \/ \E v \in Views : WaitFor(v)
  <2>1. UNCHANGED <<wal, slot, catalogVars, workerVars>>
      BY <1>4 DEF WaitStep, WaitFor, WaitReads, WaitChecks
  <2>2. WalKeeps
      BY <1>0, <2>1, OwnCommitKeeps
  <2>3. /\ wait' \in [pc : {"off", "read", "check"}, view : Nat, lsn : Position, seen : Position]
        /\ wait'.pc # "off" => wait'.view \in Views
        /\ used' \in Budget
    <3>1. 0 \in Position /\ Flushed \in Position /\ NoWait \in [pc : {"off", "read", "check"}, view : Nat, lsn : Position, seen : Position]
        BY <1>0 DEF Position, Flushed, NoWait
    <3>2. CASE WaitStep
      <4>1. wait' \in {NoWait, [wait EXCEPT !.pc = "check", !.seen = frontier[wait.view]],
                       [wait EXCEPT !.pc = "read", !.seen = 0]}
            /\ wait.pc # "off" /\ used' = used
          BY <3>2 DEF WaitStep, WaitReads, WaitChecks
      <4>2. /\ wait \in [pc : {"off", "read", "check"}, view : Nat, lsn : Position, seen : Position]
            /\ wait.view \in Views /\ used \in Budget
          BY <1>0, <4>1 DEF TypeInv, StreamTypeOK
      <4>3. frontier[wait.view] \in Position
          BY <1>0, <4>2 DEF TypeInv, StreamTypeOK
      <4>4. NoWait.pc = "off"
          BY DEF NoWait
      <4>. QED
          BY <3>1, <4>1, <4>2, <4>3, <4>4
    <3>3. CASE \E v \in Views : WaitFor(v)
      <4>1. PICK v \in Views : WaitFor(v)
          BY <3>3
      <4>. QED
          BY <3>1, <4>1, UsedType DEF WaitFor, StreamTypeOK, Views
    <3>. QED
        BY <1>4, <3>2, <3>3
  <2>4. StreamTypeOK'
      BY <2>1, <2>3 DEF StreamTypeOK, catalogVars, workerVars, buildVars, roundVars, memoryVars,
         Position
  <2>5. QueueOK'
      BY <2>1 DEF QueueOK, Pending, catalogVars, workerVars, buildVars
  <2>6. RoundOK'
      BY <2>1, <2>2, RoundKept DEF catalogVars, workerVars, roundVars
  <2>. QED
      BY <2>2, <2>4, <2>5, <2>6
<1>. QED
    BY <1>1, <1>2, <1>3, <1>4 DEF Sessions

\* group() (populate.rs) takes views off the queue: all those it builds were on it.
LEMMA GroupOnQueue ==
    ASSUME todo \subseteq Views, todo # {}
    PROVE  NextGroup \subseteq todo
<1>1. Least(todo) \in todo
    BY LeastIs DEF Views
<1>2. \A a \in todo, b \in Views : JoinsGroupOf(a, b) => b \in todo
    BY DEF JoinsGroupOf
<1>3. ASSUME NEW w \in NextGroup PROVE w \in todo
  <2>1. \A S \in SUBSET Views :
           (Least(todo) \in S /\ \A a \in S, b \in Views : JoinsGroupOf(a, b) => b \in S)
               => w \in S
      BY <1>3, Zenon DEF NextGroup, Reach
  <2>. QED
      BY <1>1, <1>2, <2>1
<1>. QED
    BY <1>3

\* A step of the population moves no position but point, frontiers and shadows.
LEMMA PopulationFrame ==
    ASSUME StreamTypeOK, WalKeeps,
           UNCHANGED <<slot, roundVars, memoryVars, window, wait>>
    PROVE  /\ slot' \in [exists : BOOLEAN, at : Position', born : Position']
           /\ upto' \in Position' /\ advTo' \in Position'
           /\ drained' \in BOOLEAN /\ loaded' \subseteq Views
           /\ selfFlush' \in Position' /\ lastAdvance' \in Position'
           /\ window' \in [from : Position', to : Position']
           /\ wait' \in [pc : {"off", "read", "check"}, view : Nat,
                         lsn : Position', seen : Position']
           /\ wait'.pc # "off" => wait'.view \in Views
<1>1. UNCHANGED <<upto, drained, loaded, advTo, selfFlush, lastAdvance>>
    BY DEF roundVars, memoryVars
<1>. QED
    BY <1>1, OldTypes DEF StreamTypeOK

\* The population (populate.rs run_pending).
LEMMA PopulationType ==
    ASSUME TypeInv, LoadPending \/ BeginBuild \/ EndBuild \/ BuildFails
    PROVE  TypeInv' /\ WalKeeps
<1>. USE DEF TypeInv
<1>0. /\ wal \in Seq(Entry) /\ Len(wal) \in Nat
      /\ pc \in Steps /\ todo \subseteq Views /\ grp \subseteq Views
      /\ UNCHANGED <<slot, roundVars, memoryVars, window, wait>>
    BY DEF StreamTypeOK, LoadPending, BeginBuild, EndBuild, BuildFails
<1>1. WalKeeps
  <2>1. wal' \in {wal, Append(wal, Bookkeeping)}
      BY DEF LoadPending, BeginBuild, EndBuild, BuildFails
  <2>. QED
      BY <1>0, <2>1, OwnCommitKeeps
<1>2. 0 \in Position' /\ Len(wal') \in Position'
    BY <1>1, OldEntries DEF WalKeeps, Position
<1>3. used' \in Budget
    BY UsedType DEF StreamTypeOK, LoadPending, BeginBuild, EndBuild, BuildFails
<1>4. CASE LoadPending
  <2>1. /\ todo' \subseteq Views /\ todo' = {v \in Views : Pending(v)}
        /\ pc' = (IF todo' = {} THEN "lag" ELSE "build")
        /\ UNCHANGED <<status, populated, frontier, failures, shadow, grp, point>>
        /\ grp = {}
      BY <1>4 DEF LoadPending, NextBuild, catalogVars, QueueOK
  <2>2. StreamTypeOK'
      BY <1>0, <1>1, <1>2, <1>3, <2>1, OldTypes, PopulationFrame DEF StreamTypeOK, WalKeeps, Steps
  <2>3. QueueOK' /\ RoundOK'
      BY <2>1 DEF QueueOK, RoundOK, Pending
  <2>. QED
      BY <1>1, <2>2, <2>3
<1>5. CASE BeginBuild
  <2>1. /\ pc = "build" /\ pc' = "building" /\ todo' = todo \ NextGroup /\ grp' = NextGroup
        /\ point' = Len(wal')
        /\ UNCHANGED <<status, populated, frontier, failures, shadow>>
      BY <1>5 DEF BeginBuild, catalogVars
  <2>2. NextGroup \subseteq todo
      BY <1>0, <2>1, GroupOnQueue DEF QueueOK
  <2>3. StreamTypeOK'
      BY <1>0, <1>1, <1>2, <1>3, <2>1, <2>2, OldTypes, PopulationFrame
         DEF StreamTypeOK, WalKeeps, Steps
  <2>4. QueueOK' /\ RoundOK'
      BY <2>1, <2>2 DEF QueueOK, RoundOK, Pending
  <2>. QED
      BY <1>1, <2>3, <2>4
<1>6. CASE EndBuild
  <2>1. /\ pc = "building" /\ grp' = {} /\ point' = 0 /\ todo' = todo
        /\ pc' = (IF todo = {} THEN "lag" ELSE "build")
      BY <1>6 DEF EndBuild, NextBuild
  <2>2. point \in Position'
      BY <1>1, OldTypes
  <2>3. /\ shadow' \in [Tables -> [exists : BOOLEAN, frontier : Position']]
        /\ frontier' \in [Views -> Position']
      BY <1>1, <1>6, <2>2, OldTypes DEF EndBuild
  <2>4. /\ status' = [v \in Views |-> IF v \in grp THEN "live" ELSE status[v]]
        /\ status' \in [Views -> Statuses]
        /\ populated' \in [Views -> BOOLEAN]
      BY <1>6 DEF EndBuild, StreamTypeOK, Statuses
  <2>5. /\ failures' \in [Views -> 0..MaxFailures]
        /\ \A v \in Views : status'[v] = "live" => failures'[v] < MaxFailures
      BY <1>6, <2>4, StreamAssumption DEF EndBuild, StreamTypeOK
  <2>6. StreamTypeOK'
      BY <1>0, <1>1, <1>2, <1>3, <2>1, <2>3, <2>4, <2>5, PopulationFrame
         DEF StreamTypeOK, WalKeeps, Steps
  <2>7. QueueOK' /\ RoundOK'
      BY <1>0, <2>1, <2>4 DEF QueueOK, RoundOK, Pending
  <2>. QED
      BY <1>1, <2>6, <2>7
<1>7. CASE BuildFails
  <2>1. /\ pc = "building" /\ grp' = {} /\ point' = 0 /\ todo' = todo
        /\ pc' = (IF todo = {} THEN "lag" ELSE "build")
        /\ UNCHANGED <<populated, frontier, failures, shadow>>
      BY <1>7 DEF BuildFails, NextBuild
  <2>2. /\ status' = [v \in Views |-> IF v \in grp THEN "failed" ELSE status[v]]
        /\ status' \in [Views -> Statuses]
      BY <1>7 DEF BuildFails, StreamTypeOK, Statuses
  <2>3. StreamTypeOK'
      BY <1>0, <1>1, <1>2, <1>3, <2>1, <2>2, OldTypes, PopulationFrame
         DEF StreamTypeOK, WalKeeps, Steps
  <2>4. QueueOK' /\ RoundOK'
      BY <1>0, <2>1, <2>2 DEF QueueOK, RoundOK, Pending
  <2>. QED
      BY <1>1, <2>3, <2>4
<1>. QED
    BY <1>4, <1>5, <1>6, <1>7

\* Presence and lag of the slot (worker.rs run_round).
LEMMA LagType ==
    ASSUME TypeInv, NoSlotYet \/ DropSlot \/ MarkStale
    PROVE  TypeInv' /\ WalKeeps
<1>. USE DEF TypeInv
<1>1. /\ wal \in Seq(Entry) /\ Len(wal) \in Nat
      /\ pc' \in {"poll", "dropping"} /\ pc \in {"lag", "dropping"}
      /\ slot' \in {slot, NoSlot}
      /\ UNCHANGED <<populated, frontier, failures, shadow, todo, grp, point, upto, drained,
                     loaded, advTo, selfFlush, lastAdvance, window, wait, used>>
    BY DEF StreamTypeOK, NoSlotYet, DropSlot, MarkStale, catalogVars, buildVars, roundVars,
           memoryVars
<1>2. WalKeeps
  <2>1. wal' \in {wal, Append(wal, Bookkeeping)}
      BY DEF NoSlotYet, DropSlot, MarkStale
  <2>. QED
      BY <1>1, <2>1, OwnCommitKeeps
<1>3. slot' \in [exists : BOOLEAN, at : Position', born : Position']
  <2>1. 0 \in Position'
      BY <1>2 DEF WalKeeps, Position
  <2>2. NoSlot \in [exists : BOOLEAN, at : Position', born : Position']
      BY <2>1 DEF NoSlot
  <2>3. slot \in [exists : BOOLEAN, at : Position', born : Position']
      BY <1>2, OldTypes
  <2>. QED
      BY <1>1, <2>2, <2>3
<1>4. /\ status' \in [Views -> Statuses]
      /\ \A v \in Views : status'[v] = "live" => status[v] = "live"
    BY DEF NoSlotYet, DropSlot, MarkStale, StatusAfterDrop, catalogVars, StreamTypeOK, Statuses
<1>5. StreamTypeOK'
    BY <1>1, <1>2, <1>3, <1>4, OldTypes DEF StreamTypeOK, WalKeeps, Steps
<1>6. QueueOK' /\ RoundOK'
    BY <1>1 DEF QueueOK, RoundOK
<1>. QED
    BY <1>2, <1>5, <1>6

\* What a round peeks lies between the slot and the end of the peek.
LEMMA WindowIs ==
    ASSUME wal \in Seq(Entry), NEW to \in Position
    PROVE  /\ Window(to) \in SUBSET Nat
           /\ \A i \in Window(to) : i \in Position /\ i <= to /\ slot.at < i /\ Decoded(i)
BY DEF Window, Lsns, Position

\* A round starts (worker.rs run_round, the peek).
LEMMA PeekType ==
    ASSUME TypeInv, Peek \/ PeekNothing
    PROVE  TypeInv' /\ WalKeeps
<1>. USE DEF TypeInv
<1>1. /\ wal \in Seq(Entry) /\ Len(wal) \in Nat
      /\ pc = "lag" /\ pc' \in {"poll", "idle", "apply"} /\ slot.exists
      /\ UNCHANGED <<wal, slot, status, populated, frontier, failures, shadow, todo, grp, point,
                     advTo, selfFlush, lastAdvance, wait, used>>
    BY DEF StreamTypeOK, Peek, PeekNothing, catalogVars, buildVars, roundVars, memoryVars
<1>2. WalKeeps /\ Position' = Position /\ Flushed \in Position
    BY <1>1, OwnCommitKeeps DEF Position, Flushed
<1>3. /\ upto' \in Position /\ drained' \in BOOLEAN /\ loaded' \subseteq Views
      /\ window' \in [from : Position, to : Position]
  <2>1. CASE PeekNothing
      BY <1>2, <2>1 DEF PeekNothing, IdleWindow, StreamTypeOK, roundVars
  <2>2. CASE Peek
      BY <1>1, <1>2, <2>2, WindowIs DEF Peek, StreamTypeOK
  <2>. QED
      BY <2>1, <2>2
<1>4. StreamTypeOK'
    BY <1>1, <1>2, <1>3 DEF StreamTypeOK, Steps
<1>5. QueueOK'
    BY <1>1 DEF QueueOK
<1>6. RoundOK'
  <2>. SUFFICES ASSUME pc' = "apply" PROVE RoundOK'
      BY DEF RoundOK
  <2>1. /\ Window(Flushed) # {} /\ loaded' = {v \in Views : status[v] = "live"}
        /\ upto' = Flushed \/ upto' \in Window(Flushed)
      BY DEF Peek, PeekNothing
  <2>2. Window(upto)' # {}
    <3>1. Window(upto)' = {i \in Lsns : slot.at < i /\ i <= upto' /\ Decoded(i)}
        BY <1>1 DEF Window, Lsns, Decoded
    <3>2. CASE upto' = Flushed
        BY <2>1, <3>1, <3>2 DEF Window
    <3>3. CASE upto' \in Window(Flushed)
      <4>1. upto' \in Lsns /\ slot.at < upto' /\ upto' <= upto' /\ Decoded(upto')
          BY <3>3, <1>3, OldEntries, <1>2 DEF Window
      <4>. QED
          BY <3>1, <4>1
    <3>. QED
        BY <2>1, <3>2, <3>3
  <2>. QED
      BY <1>1, <2>1, <2>2 DEF RoundOK, StreamTypeOK
<1>. QED
    BY <1>2, <1>4, <1>5, <1>6

\* What a view absorbs of a peek, and where a failing one stops (worker.rs apply_round).
LEMMA AbsorbedIs ==
    ASSUME wal \in Seq(Entry), upto \in Position, NEW v \in Views
    PROVE  /\ Fatal(v) \in SUBSET Window(upto) /\ Absorbed(v) \in SUBSET Window(upto)
           /\ Fatal(v) # {} => Least(Fatal(v)) \in Fatal(v) /\ \A i \in Fatal(v) : Least(Fatal(v)) <= i
           /\ Absorbed(v) # {} => /\ Greatest(Absorbed(v)) \in Absorbed(v)
                                  /\ \A i \in Absorbed(v) : i <= Greatest(Absorbed(v))
<1>1. Fatal(v) \in SUBSET Window(upto) /\ Absorbed(v) \in SUBSET Window(upto)
    BY DEF Fatal, Absorbed
<1>2. upto \in Nat /\ Window(upto) \in SUBSET Nat /\ \A i \in Window(upto) : i <= upto
    BY WindowIs DEF Position
<1>3. Fatal(v) \in SUBSET Nat /\ Absorbed(v) \in SUBSET Nat
    BY <1>1, <1>2
<1>4. Fatal(v) # {} => Least(Fatal(v)) \in Fatal(v) /\ \A i \in Fatal(v) : Least(Fatal(v)) <= i
    BY <1>3, LeastIs
<1>5. \A i \in Absorbed(v) : i <= upto
    BY <1>1, <1>2
<1>6. Absorbed(v) # {} => /\ Greatest(Absorbed(v)) \in Absorbed(v)
                          /\ \A i \in Absorbed(v) : i <= Greatest(Absorbed(v))
    BY <1>2, <1>3, <1>5, GreatestIs
<1>. QED
    BY <1>1, <1>4, <1>6

\* Where the slot may go after a round.
LEMMA PassedIs ==
    ASSUME wal \in Seq(Entry), upto \in Position, Passed # {}
    PROVE  Greatest(Passed) \in Passed /\ Greatest(Passed) \in Position
<1>1. upto \in Nat /\ \A i \in Window(upto) : i \in Nat /\ i \in Position /\ i <= upto
    BY WindowIs DEF Position
<1>2. Passed \in SUBSET Window(upto)
    BY DEF Passed
<1>3. Passed \in SUBSET Nat /\ \A i \in Passed : i <= upto
    BY <1>1, <1>2
<1>. QED
    BY <1>1, <1>2, <1>3, GreatestIs

\* The round's transaction (worker.rs apply_round): frontiers stay in the log,
\* and the failures of what stays live within the budget.
LEMMA ApplyType ==
    ASSUME TypeInv, Apply
    PROVE  TypeInv' /\ WalKeeps
<1>. USE DEF TypeInv
<1>1. /\ wal \in Seq(Entry) /\ Len(wal) \in Nat /\ upto \in Position
      /\ pc = "apply" /\ pc' = "advance"
      /\ UNCHANGED <<slot, populated, todo, grp, point, upto, loaded,
                     selfFlush, lastAdvance, window, wait, used>>
    BY DEF StreamTypeOK, Apply, buildVars, memoryVars
<1>2. WalKeeps
  <2>1. wal' \in {wal, Append(wal, Bookkeeping)}
      BY DEF Apply
  <2>. QED
      BY <1>1, <2>1, OwnCommitKeeps
<1>3. \A i \in Window(upto) : i \in Position'
    BY <1>1, <1>2, WindowIs, OldEntries
<1>4. frontier' \in [Views -> Position']
  <2>1. \A v \in Views : FrontierAfter(v) \in Position'
      BY <1>1, <1>2, <1>3, AbsorbedIs, OldTypes DEF FrontierAfter
  <2>. QED
      BY <2>1 DEF Apply
<1>5. shadow' \in [Tables -> [exists : BOOLEAN, frontier : Position']]
  <2>1. Greatest(Window(upto)) \in Position'
    <3>1. upto \in Nat /\ Window(upto) \in SUBSET Nat /\ \A i \in Window(upto) : i <= upto
        BY <1>1, WindowIs DEF Position
    <3>2. Window(upto) # {}
        BY <1>1 DEF RoundOK
    <3>3. Greatest(Window(upto)) \in Window(upto)
        BY <3>1, <3>2, GreatestIs
    <3>. QED
        BY <1>3, <3>3
  <2>. QED
      BY <1>2, <2>1, OldTypes DEF Apply
<1>6. /\ status' \in [Views -> Statuses]
      /\ failures' \in [Views -> 0..MaxFailures]
      /\ \A v \in Views : status'[v] = "live" => failures'[v] < MaxFailures
  <2>1. MaxFailures \in Nat \ {0} /\ failures \in [Views -> 0..MaxFailures]
      BY StreamAssumption DEF StreamTypeOK
  <2>2. \A v \in loaded : v \in Views /\ failures[v] < MaxFailures
      BY <1>1 DEF RoundOK, StreamTypeOK
  <2>3. ASSUME NEW v \in Views
        PROVE  /\ FailuresAfter(v) \in 0..MaxFailures
               /\ v \in Failing /\ ~GivesUp(v) => FailuresAfter(v) < MaxFailures
               /\ v \notin Failing => FailuresAfter(v) \in {0, failures[v]}
      BY <2>1, <2>2 DEF FailuresAfter, Failing, GivesUp
  <2>4. \A v \in Views :
           status'[v] = (IF v \in Failing /\ GivesUp(v) THEN "stale" ELSE status[v])
      BY DEF Apply
  <2>5. status' \in [Views -> Statuses]
      BY DEF Apply, StreamTypeOK, Statuses
  <2>6. failures' = [v \in Views |-> FailuresAfter(v)]
      BY DEF Apply
  <2>7. ASSUME NEW v \in Views, status'[v] = "live" PROVE failures'[v] < MaxFailures
    <3>1. ~ (v \in Failing /\ GivesUp(v)) /\ status[v] = "live"
        BY <2>4, <2>7
    <3>2. failures[v] < MaxFailures /\ 0 < MaxFailures
        BY <2>1, <3>1 DEF StreamTypeOK
    <3>. QED
        BY <2>3, <2>6, <3>1, <3>2
  <2>. QED
      BY <2>3, <2>5, <2>6, <2>7
<1>7. advTo' \in Position' /\ drained' \in BOOLEAN
  <2>1. slot.at \in Position'
      BY <1>2, OldTypes
  <2>2. Passed # {} => Greatest(Passed) \in Position'
      BY <1>1, <1>2, PassedIs, OldEntries
  <2>. QED
      BY <2>1, <2>2 DEF Apply
<1>8. StreamTypeOK'
    BY <1>1, <1>2, <1>4, <1>5, <1>6, <1>7, OldTypes DEF StreamTypeOK, WalKeeps, Steps
<1>9. QueueOK' /\ RoundOK'
    BY <1>1 DEF QueueOK, RoundOK
<1>. QED
    BY <1>2, <1>8, <1>9

\* The slot moves forward, or not at all (worker.rs advance_slot).
LEMMA MoveSlotType ==
    ASSUME StreamTypeOK, NEW to \in Position, MoveSlot(to)
    PROVE  /\ slot' \in [exists : BOOLEAN, at : Position, born : Position]
           /\ slot'.exists = slot.exists
           /\ slot'.at \in {slot.at, to}
BY DEF MoveSlot, StreamTypeOK

\* The advance after a round and the idle advance (worker.rs run_round).
LEMMA AdvanceType ==
    ASSUME TypeInv, AdvanceSlot \/ IdleSlot \/ IdleCommit \/ NoteFlush
    PROVE  TypeInv' /\ WalKeeps
<1>. USE DEF TypeInv
<1>1. /\ wal \in Seq(Entry) /\ Len(wal) \in Nat /\ upto \in Position /\ advTo \in Position
      /\ 0 \in Position /\ Flushed \in Position
      /\ pc' \in {"poll", "idle", "idleCommit", "note"} /\ pc # "building"
      /\ UNCHANGED <<status, populated, failures, todo, grp, point, wait, used>>
  <2>1. wal \in Seq(Entry) /\ upto \in Position /\ advTo \in Position
      BY DEF StreamTypeOK
  <2>2. Len(wal) \in Nat /\ 0 \in Position /\ Flushed \in Position
      BY <2>1 DEF Position, Flushed
  <2>3. CASE AdvanceSlot \/ IdleSlot
      BY <2>1, <2>2, <2>3 DEF AdvanceSlot, IdleSlot, catalogVars, buildVars
  <2>4. CASE IdleCommit \/ NoteFlush
      BY <2>1, <2>2, <2>4 DEF IdleCommit, NoteFlush, catalogVars, buildVars
  <2>. QED
      BY <2>3, <2>4
<1>2. WalKeeps
  <2>1. wal' \in {wal, Append(wal, Bookkeeping)}
      BY DEF AdvanceSlot, IdleSlot, IdleCommit, NoteFlush
  <2>. QED
      BY <1>1, <2>1, OwnCommitKeeps
<1>3. \A i \in Position : i \in Position'
    BY <1>2, OldEntries
<1>4. /\ upto' \in Position' /\ drained' \in BOOLEAN /\ loaded' \subseteq Views
      /\ advTo' \in Position' /\ selfFlush' \in Position' /\ lastAdvance' \in Position'
      /\ window' \in [from : Position', to : Position']
  <2>1. UNCHANGED roundVars \/ ForgetRound
      BY DEF AdvanceSlot, IdleSlot, IdleCommit, NoteFlush
  <2>2. /\ upto' \in Position /\ drained' \in BOOLEAN /\ loaded' \subseteq Views
        /\ advTo' \in Position
      BY <1>1, <2>1 DEF ForgetRound, StreamTypeOK, roundVars
  <2>3. /\ selfFlush' \in Position /\ lastAdvance' \in Position
        /\ window' \in [from : Position, to : Position]
    <3>1. CASE NoteFlush
        BY <1>1, <3>1 DEF NoteFlush, NotedWindow
    <3>2. CASE AdvanceSlot \/ IdleSlot \/ IdleCommit
        BY <3>2 DEF AdvanceSlot, IdleSlot, IdleCommit, StreamTypeOK, memoryVars
    <3>. QED
        BY <3>1, <3>2
  <2>. QED
      BY <1>3, <2>2, <2>3
<1>5. slot' \in [exists : BOOLEAN, at : Position', born : Position']
  <2>1. slot' = slot \/ MoveSlot(advTo) \/ MoveSlot(upto)
      BY DEF AdvanceSlot, IdleSlot, IdleCommit, NoteFlush
  <2>2. slot' \in [exists : BOOLEAN, at : Position, born : Position]
      BY <1>1, <2>1, MoveSlotType DEF StreamTypeOK
  <2>. QED
      BY <1>3, <2>2
<1>6. /\ frontier' \in [Views -> Position']
      /\ shadow' \in [Tables -> [exists : BOOLEAN, frontier : Position']]
  <2>1. CASE IdleCommit
      BY <1>1, <1>2, <1>3, <2>1, OldTypes DEF IdleCommit
  <2>2. CASE AdvanceSlot \/ IdleSlot \/ NoteFlush
      BY <1>2, <2>2, OldTypes DEF AdvanceSlot, IdleSlot, NoteFlush, catalogVars
  <2>. QED
      BY <2>1, <2>2
<1>7. StreamTypeOK'
    BY <1>1, <1>2, <1>4, <1>5, <1>6, OldTypes DEF StreamTypeOK, WalKeeps, Steps
<1>8. QueueOK' /\ RoundOK'
    BY <1>1 DEF QueueOK, RoundOK
<1>. QED
    BY <1>2, <1>7, <1>8

\* Errors, restarts and crashes.
LEMMA CrashType ==
    ASSUME TypeInv, RoundError \/ WorkerRestart \/ ServerCrash
    PROVE  TypeInv' /\ WalKeeps
<1>. USE DEF TypeInv
<1>1. CrashPoint
    BY DEF RoundError, WorkerRestart, ServerCrash
<1>2. /\ wal \in Seq(Entry) /\ Len(wal) \in Nat /\ 0 \in Position
      /\ pc' = "poll" /\ todo' = {} /\ grp' = {} /\ point' = 0
      /\ upto' = 0 /\ drained' = FALSE /\ loaded' = {} /\ advTo' = 0
      /\ UNCHANGED <<wal, status, populated, frontier, failures, shadow>>
    BY <1>1 DEF CrashPoint, ForgetRound, StreamTypeOK, Position, catalogVars
<1>3. WalKeeps /\ Position' = Position
    BY <1>2, OwnCommitKeeps DEF Position
<1>4. used' \in Budget
    BY <1>1, UsedType DEF CrashPoint, StreamTypeOK
<1>5. slot' \in [exists : BOOLEAN, at : Position, born : Position]
  <2>1. CASE slot' = slot
      BY <2>1 DEF StreamTypeOK
  <2>2. ASSUME NEW at \in slot.born..slot.at, slot' = [slot EXCEPT !.at = at]
        PROVE  slot' \in [exists : BOOLEAN, at : Position, born : Position]
    <3>1. slot.at \in Position /\ slot.born \in Position
        BY DEF StreamTypeOK
    <3>2. at \in Position
        BY <1>2, <3>1 DEF Position
    <3>3. slot \in [exists : BOOLEAN, at : Position, born : Position]
        BY DEF StreamTypeOK
    <3>. QED
        BY <2>2, <3>2, <3>3
  <2>. QED
      BY <2>1, <2>2 DEF RoundError, WorkerRestart, ServerCrash
<1>6. /\ selfFlush' \in Position /\ lastAdvance' \in Position
      /\ window' \in [from : Position, to : Position]
      /\ wait' \in [pc : {"off", "read", "check"}, view : Nat, lsn : Position, seen : Position]
      /\ wait'.pc # "off" => wait'.view \in Views
    BY <1>2 DEF RoundError, WorkerRestart, ServerCrash, StreamTypeOK, memoryVars, NoWindow, NoWait
<1>7. StreamTypeOK'
    BY <1>2, <1>3, <1>4, <1>5, <1>6 DEF StreamTypeOK, Steps
<1>8. QueueOK' /\ RoundOK'
    BY <1>2 DEF QueueOK, RoundOK
<1>. QED
    BY <1>3, <1>7, <1>8

\* Every step keeps the types and the log.
LEMMA StepType ==
    ASSUME TypeInv, [StreamNext]_streamVars
    PROVE  TypeInv' /\ WalKeeps
<1>1. CASE UNCHANGED streamVars
  <2>1. UNCHANGED <<wal, slot, status, populated, frontier, failures, shadow, pc, todo, grp, point,
                    upto, drained, loaded, advTo, selfFlush, lastAdvance, window, wait, used>>
      BY <1>1 DEF streamVars, catalogVars, workerVars, buildVars, roundVars, memoryVars
  <2>2. WalKeeps
      BY <2>1, OwnCommitKeeps DEF TypeInv, StreamTypeOK
  <2>3. StreamTypeOK' /\ QueueOK'
      BY <2>1 DEF TypeInv, StreamTypeOK, Position, QueueOK, Pending
  <2>4. RoundOK'
      BY <2>1, <2>2, RoundKept
  <2>. QED
      BY <2>2, <2>3, <2>4 DEF TypeInv
<1>2. CASE StreamNext
    BY <1>2, SessionsType, PopulationType, LagType, PeekType, ApplyType, AdvanceType, CrashType
       DEF StreamNext, WorkerStep
<1>. QED
    BY <1>1, <1>2

\* The initial state has the types.
LEMMA InitType ==
    ASSUME StreamInit
    PROVE  TypeInv
<1>1. wal \in Seq(Entry) /\ Len(wal) = 0 /\ 0 \in Position
    BY DEF StreamInit, Position
<1>2. /\ NoSlot \in [exists : BOOLEAN, at : Position, born : Position]
      /\ NoShadow \in [exists : BOOLEAN, frontier : Position]
      /\ NoWindow \in [from : Position, to : Position]
      /\ NoWait \in [pc : {"off", "read", "check"}, view : Nat, lsn : Position, seen : Position]
      /\ NoWait.pc = "off"
    BY <1>1 DEF NoSlot, NoShadow, NoWindow, NoWait
<1>3. /\ status \in [Views -> Statuses] /\ populated \in [Views -> BOOLEAN]
      /\ frontier \in [Views -> Position] /\ failures \in [Views -> 0..MaxFailures]
      /\ shadow \in [Tables -> [exists : BOOLEAN, frontier : Position]]
      /\ \A v \in Views : status[v] # "live"
    BY <1>1, <1>2, StreamAssumption DEF StreamInit, Statuses
<1>4. /\ used \in Budget /\ pc \in Steps
      /\ slot = NoSlot /\ window = NoWindow /\ wait = NoWait
      /\ todo = {} /\ grp = {} /\ point = 0 /\ upto = 0 /\ drained = FALSE /\ loaded = {}
      /\ advTo = 0 /\ selfFlush = 0 /\ lastAdvance = 0
    BY DEF StreamInit, Steps, Budget
<1>5. StreamTypeOK
    BY <1>1, <1>2, <1>3, <1>4 DEF StreamTypeOK
<1>. QED
    BY <1>5 DEF StreamInit, TypeInv, QueueOK, RoundOK

\* Every position the slot, the views, the shadows, the idle window and a wait
\* take lies in the log, and a live view has failed less often than
\* nabla.max_apply_failures, in every execution (worker.rs run_round, api.rs).
THEOREM StreamTypeCorrect == StreamSpec => []StreamTypeOK
<1>1. StreamInit => TypeInv
    BY InitType
<1>2. TypeInv /\ [StreamNext]_streamVars => TypeInv'
    BY StepType
<1>3. TypeInv => StreamTypeOK
    BY DEF TypeInv
<1>. QED
    BY <1>1, <1>2, <1>3, PTL DEF StreamSpec

-----------------------------------------------------------------------------
(* No live view is left behind the slot, as long as the cap is exceeded    *)
(* only while no view is queued (CalmLag).                                 *)

SlotInv == TypeInv /\ SlotBacks /\ AdvanceCovered

\* What is clear stays clear in a smaller interval.
LEMMA ClearWithin ==
    ASSUME wal \in Seq(Entry), NEW a \in Position, NEW b \in Position, Clear(a, b),
           NEW c \in Position, NEW d \in Position, a <= c, d <= b
    PROVE  Clear(c, d)
BY DEF Clear, Lsns, Position

\* A step that moves neither the worker, nor a live view, nor a slot there is.
LEMMA NothingMoves ==
    ASSUME SlotInv, WalKeeps, UNCHANGED <<pc, frontier, upto, drained, loaded, advTo>>,
           \A v \in Views : status'[v] = "live" => status[v] = "live",
           slot.exists => slot' = slot,
           \A v \in Views : Pending(v)' => slot'.exists
    PROVE  SlotBacks' /\ AdvanceCovered'
<1>1. /\ frontier \in [Views -> Position] /\ slot.at \in Position
      /\ upto \in Position /\ advTo \in Position
    BY DEF SlotInv, TypeInv, StreamTypeOK
<1>2. \A a \in Position, b \in Position : Clear(a, b) => Clear(a, b)'
    BY OldEntries
<1>3. SlotBacks'
  <2>. SUFFICES ASSUME NEW v \in Views, status'[v] = "live", pc' # "dropping"
                PROVE  slot'.exists /\ Clear(frontier[v], slot.at)' /\ slot' = slot
      BY DEF SlotBacks
  <2>1. slot.exists /\ Clear(frontier[v], slot.at)
      BY DEF SlotInv, SlotBacks
  <2>2. Clear(frontier[v], slot.at)'
      <3>1. frontier[v] \in Position /\ frontier'[v] = frontier[v] /\ slot' = slot
          BY <1>1, <2>1
      <3>2. \A i \in Lsns' : i <= slot.at => i \in Lsns
        <4>1. slot.at \in Nat /\ slot.at <= Len(wal)
            BY <1>1, OldEntries
        <4>. QED
            BY <4>1 DEF WalKeeps, Lsns
      <3>3. \A i \in Lsns : Decoded(i)' <=> Decoded(i)
          BY DEF WalKeeps, Decoded
      <3>. QED
          BY <2>1, <3>1, <3>2, <3>3 DEF Clear
  <2>. QED
      BY <2>1, <2>2
<1>4. AdvanceCovered'
    BY <1>1, <1>2 DEF SlotInv, AdvanceCovered
<1>. QED
    BY <1>3, <1>4

\* Sessions: a commit lies after everything, and neither create_view nor refresh
\* makes a view live or, while there is a live one, a slot.
LEMMA SessionsSafe ==
    ASSUME SlotInv, Sessions \/ WaitStep
    PROVE  SlotBacks' /\ AdvanceCovered'
<1>0. WalKeeps
    BY SessionsType DEF SlotInv
<1>1. UNCHANGED <<pc, frontier, upto, drained, loaded, advTo>>
    BY DEF Sessions, WaitStep, CommitTx, CreateView, Refresh, WaitFor, WaitReads, WaitChecks,
           catalogVars, workerVars, roundVars
<1>2. CASE CommitTx \/ WaitStep \/ \E v \in Views : WaitFor(v)
  <2>1. UNCHANGED <<slot, status>>
      BY <1>2 DEF WaitStep, CommitTx, WaitFor, WaitReads, WaitChecks, catalogVars
  <2>2. \A v \in Views : Pending(v)' => slot'.exists
      BY <2>1 DEF SlotInv, SlotBacks, Pending
  <2>. QED
      BY <1>0, <1>1, <2>1, <2>2, NothingMoves
<1>3. ASSUME NEW v \in Views, CreateView(v) \/ Refresh(v)
      PROVE  SlotBacks' /\ AdvanceCovered'
  <2>1. EnsureSlot
      BY <1>3 DEF CreateView, Refresh
  <2>2. slot'.exists /\ (slot.exists => slot' = slot)
      BY <2>1 DEF EnsureSlot, SlotInv, TypeInv, StreamTypeOK
  <2>3. \A u \in Views : status'[u] = "live" => status[u] = "live"
      BY <1>3 DEF CreateView, Refresh, SlotInv, TypeInv, StreamTypeOK
  <2>. QED
      BY <1>0, <1>1, <2>2, <2>3, NothingMoves
<1>. QED
    BY <1>2, <1>3 DEF Sessions

\* Population: what becomes live was queued, so there is a slot, and the build
\* has looked that it is not past the consistent point.
LEMMA PopulationSafe ==
    ASSUME SlotInv, LoadPending \/ BeginBuild \/ EndBuild \/ BuildFails
    PROVE  SlotBacks' /\ AdvanceCovered'
<1>0. WalKeeps /\ StreamTypeOK /\ StreamTypeOK' /\ QueueOK
    BY PopulationType DEF SlotInv, TypeInv
<1>1. /\ UNCHANGED <<slot, upto, drained, loaded, advTo>>
      /\ pc' \in {"lag", "build", "building"} /\ pc \notin {"dropping", "apply"}
    BY DEF LoadPending, BeginBuild, EndBuild, BuildFails, NextBuild, roundVars
<1>2. AdvanceCovered'
    BY <1>1 DEF AdvanceCovered
<1>3. \A v \in Views : Pending(v)' => Pending(v)
    BY <1>0 DEF LoadPending, BeginBuild, EndBuild, BuildFails, catalogVars, Pending, StreamTypeOK
<1>4. \A v \in Views : Pending(v)' => slot'.exists
    BY <1>1, <1>3 DEF SlotInv, SlotBacks
<1>5. ASSUME NEW v \in Views, status'[v] = "live"
      PROVE  slot'.exists /\ Clear(frontier[v], slot.at)'
  <2>1. CASE EndBuild /\ v \in grp
    <3>1. pc = "building" /\ Pending(v)
        BY <1>0, <2>1 DEF EndBuild, QueueOK
    <3>2. slot.exists /\ slot.at <= point /\ frontier'[v] = point
        BY <1>0, <2>1, <3>1 DEF EndBuild, SlotInv, SlotBacks
    <3>3. frontier'[v] \in Position' /\ slot'.at \in Position' /\ wal' \in Seq(Entry)
        BY <1>0 DEF StreamTypeOK
    <3>. QED
        BY <1>1, <3>2, <3>3 DEF Clear, Lsns, Position
  <2>2. CASE ~ (EndBuild /\ v \in grp)
    <3>1. status[v] = "live" /\ frontier'[v] = frontier[v]
        BY <1>0, <1>5, <2>2 DEF LoadPending, BeginBuild, EndBuild, BuildFails, catalogVars,
           StreamTypeOK
    <3>2. slot.exists /\ Clear(frontier[v], slot.at)
        BY <1>1, <3>1 DEF SlotInv, SlotBacks
    <3>3. \A i \in Lsns' : i <= slot.at => i \in Lsns
      <4>1. slot.at \in Nat /\ slot.at <= Len(wal)
          BY <1>0, OldEntries DEF StreamTypeOK
      <4>. QED
          BY <1>0, <4>1 DEF WalKeeps, Lsns
    <3>4. \A i \in Lsns : Decoded(i)' <=> Decoded(i)
        BY <1>0 DEF WalKeeps, Decoded
    <3>. QED
        BY <1>1, <3>1, <3>2, <3>3, <3>4 DEF Clear
  <2>. QED
      BY <2>1, <2>2
<1>. QED
    BY <1>2, <1>4, <1>5 DEF SlotBacks

\* The drop of the slot: nothing is queued, and every live view goes stale before
\* anything else happens.
LEMMA LagSafe ==
    ASSUME CalmLag, SlotInv, NoSlotYet \/ DropSlot \/ MarkStale
    PROVE  SlotBacks' /\ AdvanceCovered'
<1>0. WalKeeps /\ StreamTypeOK /\ StreamTypeOK'
    BY LagType DEF SlotInv, TypeInv
<1>1. AdvanceCovered'
    BY DEF NoSlotYet, DropSlot, MarkStale, AdvanceCovered
<1>2. CASE NoSlotYet
    BY <1>0, <1>1, <1>2, NothingMoves
       DEF NoSlotYet, catalogVars, roundVars, SlotInv, SlotBacks, Pending, Clear, Lsns, Decoded
<1>3. CASE DropSlot
  <2>1. /\ pc' = "dropping" /\ \A v \in Views : ~Pending(v)
        /\ UNCHANGED status
      BY <1>3 DEF DropSlot, Lagging, catalogVars
  <2>. QED
      BY <1>1, <2>1 DEF SlotBacks, Pending
<1>4. CASE MarkStale
  <2>1. /\ slot' = slot
        /\ \A v \in Views : status'[v] # "live" /\ (Pending(v)' => Pending(v))
      BY <1>4 DEF MarkStale, StatusAfterDrop, Pending
  <2>. QED
      BY <1>1, <2>1 DEF SlotBacks, SlotInv
<1>. QED
    BY <1>2, <1>3, <1>4

\* A round starts: it loads every live view.
LEMMA PeekSafe ==
    ASSUME SlotInv, Peek \/ PeekNothing
    PROVE  SlotBacks' /\ AdvanceCovered'
<1>0. StreamTypeOK /\ StreamTypeOK'
    BY PeekType DEF SlotInv, TypeInv
<1>1. /\ pc = "lag" /\ pc' # "dropping"
      /\ UNCHANGED <<wal, slot, status, frontier>>
    BY DEF Peek, PeekNothing, catalogVars
<1>2. SlotBacks'
    BY <1>1 DEF SlotInv, SlotBacks, Pending, Clear, Lsns, Decoded
<1>3. ASSUME NEW v \in Views, status'[v] = "live"
      PROVE  /\ pc' = "apply" => v \in loaded'
             /\ pc' # "advance"
             /\ pc' \in {"idle", "idleCommit"} => Clear(frontier[v], upto)'
  <2>1. pc' = "apply" => v \in loaded'
      BY <1>1, <1>3 DEF Peek, PeekNothing
  <2>2. pc' # "advance"
      BY DEF Peek, PeekNothing
  <2>3. ASSUME pc' \in {"idle", "idleCommit"} PROVE Clear(frontier[v], upto)'
    <3>1. Window(Flushed) = {} /\ upto' = Flushed
        BY <2>3 DEF Peek, PeekNothing
    <3>2. Clear(frontier[v], slot.at)
        BY <1>1, <1>3 DEF SlotInv, SlotBacks
    <3>3. \A i \in Lsns : i <= Flushed /\ (slot.at < i \/ i <= slot.at)
      <4>1. slot.at \in Nat /\ Len(wal) \in Nat
          BY <1>0 DEF StreamTypeOK, Position
      <4>. QED
          BY <4>1 DEF Lsns, Flushed
    <3>. QED
        BY <1>1, <3>1, <3>2, <3>3 DEF Clear, Window, Lsns, Decoded
  <2>. QED
      BY <2>1, <2>2, <2>3
<1>4. AdvanceCovered'
    BY <1>3 DEF AdvanceCovered
<1>. QED
    BY <1>2, <1>4

\* A live view's new frontier: nothing decoded lies between it and any position
\* of the peek before which no view has to retry (worker.rs apply_round).
LEMMA AbsorbedUpTo ==
    ASSUME SlotInv, pc = "apply", NEW v \in Views, status[v] = "live",
           ~ (v \in Failing /\ GivesUp(v)),
           NEW b \in Position, b <= upto, \A j \in Blocking : b < j
    PROVE  Clear(FrontierAfter(v), b)
<1>1. /\ wal \in Seq(Entry) /\ upto \in Position /\ slot.at \in Position
      /\ frontier[v] \in Position /\ v \in loaded
      /\ Clear(frontier[v], slot.at)
    BY DEF SlotInv, TypeInv, StreamTypeOK, SlotBacks, AdvanceCovered
<1>2. Position \in SUBSET Nat /\ Lsns \in SUBSET Position
    BY <1>1 DEF Position, Lsns
<1>3. /\ Absorbed(v) = {} => FrontierAfter(v) = frontier[v]
      /\ Absorbed(v) # {} => /\ FrontierAfter(v) \in Absorbed(v)
                             /\ \A i \in Absorbed(v) : i <= FrontierAfter(v)
    BY <1>1, AbsorbedIs DEF FrontierAfter
<1>4. FrontierAfter(v) \in Nat /\ frontier[v] <= FrontierAfter(v)
  <2>1. \A i \in Absorbed(v) : i \in Nat /\ i > frontier[v]
      BY DEF Absorbed, Window, Lsns
  <2>2. frontier[v] \in Nat
      BY <1>1, <1>2
  <2>3. CASE Absorbed(v) = {}
      BY <1>3, <2>2, <2>3
  <2>4. CASE Absorbed(v) # {}
    <3>1. FrontierAfter(v) \in Nat /\ FrontierAfter(v) > frontier[v]
        BY <1>3, <2>1, <2>4
    <3>. QED
        BY <2>2, <3>1
  <2>. QED
      BY <2>3, <2>4
<1>5. SUFFICES ASSUME NEW i \in Lsns, FrontierAfter(v) < i, i <= b, Decoded(i)
               PROVE  FALSE
    BY DEF Clear
<1>6. i \in Nat /\ frontier[v] < i /\ i <= upto /\ slot.at < i
  <2>1. i \in Nat /\ b \in Nat /\ upto \in Nat /\ slot.at \in Nat /\ frontier[v] \in Nat
      BY <1>1, <1>2
  <2>2. frontier[v] < i /\ i <= upto
      BY <1>4, <1>5, <2>1
  <2>3. ~ (i <= slot.at)
      BY <1>1, <1>5, <2>2 DEF Clear
  <2>. QED
      BY <2>1, <2>2, <2>3
<1>7. i \in Window(upto) /\ i \notin Absorbed(v)
  <2>1. i \in Window(upto)
      BY <1>5, <1>6 DEF Window
  <2>2. i \in Absorbed(v) => i <= FrontierAfter(v)
      BY <1>3
  <2>. QED
      BY <1>4, <1>5, <1>6, <2>1, <2>2
<1>8. PICK j \in Fatal(v) : ~ (i < j)
    BY <1>6, <1>7 DEF Absorbed
<1>9. Least(Fatal(v)) \in Fatal(v) /\ Least(Fatal(v)) <= j
    BY <1>1, <1>8, AbsorbedIs
<1>10. v \in Failing /\ ~GivesUp(v)
    BY <1>1, <1>8 DEF Failing
<1>11. b < Least(Fatal(v))
    BY <1>10 DEF Blocking
<1>12. j \in Nat /\ Least(Fatal(v)) \in Nat /\ b \in Nat
    BY <1>2, <1>9, <1>8 DEF Fatal, Window
<1>. QED
    BY <1>5, <1>6, <1>8, <1>9, <1>11, <1>12

\* The round's transaction: the slot will stop before the first transaction
\* some view has to retry, and everything before it is absorbed.
LEMMA ApplySafe ==
    ASSUME SlotInv, Apply
    PROVE  SlotBacks' /\ AdvanceCovered'
<1>0. /\ WalKeeps /\ wal \in Seq(Entry) /\ StreamTypeOK /\ StreamTypeOK'
      /\ upto \in Position /\ slot.at \in Position
    BY ApplyType DEF SlotInv, TypeInv, StreamTypeOK
<1>1. /\ pc = "apply" /\ pc' = "advance" /\ UNCHANGED <<slot, upto>>
      /\ drained' = (drained /\ Blocking = {})
      /\ advTo' = IF Passed = {} THEN slot.at ELSE Greatest(Passed)
      /\ \A v \in Views : frontier'[v] = FrontierAfter(v)
      /\ \A v \in Views :
            status'[v] = (IF v \in Failing /\ GivesUp(v) THEN "stale" ELSE status[v])
    BY DEF Apply
<1>2. ASSUME NEW a \in Nat, NEW b \in Position, Clear(a, b)
      PROVE  \A i \in Lsns' : a < i /\ i <= b => ~Decoded(i)'
  <2>1. \A i \in Lsns' : i <= b => i \in Lsns
      BY <1>0, OldEntries DEF WalKeeps, Lsns
  <2>2. \A i \in Lsns : Decoded(i)' <=> Decoded(i)
      BY <1>0 DEF WalKeeps, Decoded
  <2>. QED
      BY <1>2, <2>1, <2>2 DEF Clear
<1>3. ASSUME NEW v \in Views, status'[v] = "live"
      PROVE  /\ slot.exists
             /\ frontier'[v] \in Position'
             /\ Clear(frontier'[v], slot.at)
             /\ Clear(frontier'[v], advTo')
             /\ Blocking = {} => Clear(frontier'[v], upto)
  <2>1. status[v] = "live" /\ ~ (v \in Failing /\ GivesUp(v))
      BY <1>1, <1>3
  <2>2. slot.exists /\ Clear(frontier[v], slot.at) /\ frontier[v] \in Position
      BY <1>1, <2>1 DEF SlotInv, SlotBacks, TypeInv, StreamTypeOK
  <2>3. frontier'[v] \in Nat /\ frontier[v] <= frontier'[v] /\ frontier'[v] \in Position'
    <3>1. frontier'[v] \in Position'
        BY <1>0 DEF StreamTypeOK
    <3>2. Absorbed(v) # {} => Greatest(Absorbed(v)) \in Absorbed(v)
        BY <1>0, AbsorbedIs
    <3>3. \A i \in Absorbed(v) : i \in Nat /\ frontier[v] < i
        BY <1>0 DEF Absorbed, Window, Lsns
    <3>4. frontier[v] \in Nat
        BY <2>2 DEF Position
    <3>. QED
        BY <1>1, <3>1, <3>2, <3>3, <3>4, <1>0 DEF FrontierAfter, Position, WalKeeps
  <2>4. Clear(frontier'[v], slot.at)
      BY <1>0, <2>2, <2>3 DEF Clear, Lsns, Position
  <2>5. Clear(frontier'[v], advTo')
    <3>1. CASE Passed = {}
        BY <1>1, <2>4, <3>1
    <3>2. CASE Passed # {}
      <4>1. /\ Greatest(Passed) \in Passed /\ Greatest(Passed) \in Position
          BY <1>0, <3>2, PassedIs
      <4>2. Greatest(Passed) <= upto /\ \A j \in Blocking : Greatest(Passed) < j
          BY <4>1 DEF Passed, Window
      <4>. QED
          BY <1>1, <2>1, <3>2, <4>1, <4>2, AbsorbedUpTo
    <3>. QED
        BY <3>1, <3>2
  <2>6. Blocking = {} => Clear(frontier'[v], upto)
    <3>1. upto <= upto
        BY <1>0 DEF Position
    <3>. QED
        BY <1>0, <1>1, <2>1, <3>1, AbsorbedUpTo
  <2>. QED
      BY <2>2, <2>3, <2>4, <2>5, <2>6
<1>4. advTo' \in Position
    BY <1>0, <1>1, PassedIs
<1>5. Position' \in SUBSET Nat
    BY <1>0 DEF WalKeeps, Position
<1>6. SlotBacks'
  <2>1. \A v \in Views : Pending(v)' => slot'.exists
      BY <1>1 DEF SlotInv, TypeInv, RoundOK
  <2>2. ASSUME NEW v \in Views, status'[v] = "live"
        PROVE  slot'.exists /\ Clear(frontier[v], slot.at)'
    <3>1. \A i \in Lsns' : frontier'[v] < i /\ i <= slot.at => ~Decoded(i)'
        BY <1>0, <1>2, <1>3, <1>5, <2>2
    <3>. QED
        BY <1>1, <1>3, <2>2, <3>1 DEF Clear
  <2>. QED
      BY <2>1, <2>2 DEF SlotBacks
<1>7. AdvanceCovered'
  <2>1. ASSUME NEW v \in Views, status'[v] = "live"
        PROVE  Clear(frontier[v], advTo)' /\ (drained' => Clear(frontier[v], upto)')
    <3>1. \A i \in Lsns' : frontier'[v] < i /\ i <= advTo' => ~Decoded(i)'
        BY <1>2, <1>3, <1>4, <1>5, <2>1
    <3>2. drained' => \A i \in Lsns' : frontier'[v] < i /\ i <= upto => ~Decoded(i)'
        BY <1>0, <1>1, <1>2, <1>3, <1>5, <2>1
    <3>. QED
        BY <1>1, <3>1, <3>2 DEF Clear
  <2>. QED
      BY <1>1, <2>1 DEF AdvanceCovered
<1>. QED
    BY <1>6, <1>7

\* The slot moves, after a round and when it was drained: only to where every
\* live view is covered.
LEMMA AdvanceSafe ==
    ASSUME SlotInv, AdvanceSlot \/ IdleSlot \/ IdleCommit \/ NoteFlush
    PROVE  SlotBacks' /\ AdvanceCovered'
<1>0. /\ WalKeeps /\ wal \in Seq(Entry) /\ StreamTypeOK /\ StreamTypeOK'
      /\ upto \in Position /\ slot.at \in Position /\ advTo \in Position
    BY AdvanceType DEF SlotInv, TypeInv, StreamTypeOK
<1>1. CASE AdvanceSlot
  <2>1. /\ pc = "advance" /\ MoveSlot(advTo) /\ UNCHANGED <<wal, status, frontier>>
        /\ pc' \in {"idle", "poll"}
        /\ pc' = "idle" => drained /\ upto' = upto
      BY <1>1 DEF AdvanceSlot, catalogVars, roundVars
  <2>2. slot'.exists = slot.exists /\ slot'.at \in {slot.at, advTo}
      BY <1>0, <2>1, MoveSlotType
  <2>3. \A v \in Views : status[v] = "live" =>
            slot.exists /\ Clear(frontier[v], slot.at) /\ Clear(frontier[v], advTo)
            /\ (drained => Clear(frontier[v], upto))
      BY <2>1 DEF SlotInv, SlotBacks, AdvanceCovered
  <2>4. SlotBacks'
      BY <2>1, <2>2, <2>3 DEF SlotInv, SlotBacks, Pending, Clear, Lsns, Decoded
  <2>5. AdvanceCovered'
      BY <2>1, <2>3 DEF AdvanceCovered, Clear, Lsns, Decoded
  <2>. QED
      BY <2>4, <2>5
<1>2. CASE IdleSlot
  <2>1. /\ pc = "idle" /\ MoveSlot(upto) /\ UNCHANGED <<wal, status, frontier, upto>>
        /\ pc' = "idleCommit"
      BY <1>2 DEF IdleSlot, catalogVars, roundVars
  <2>2. slot'.exists = slot.exists /\ slot'.at \in {slot.at, upto}
      BY <1>0, <2>1, MoveSlotType
  <2>3. \A v \in Views : status[v] = "live" =>
            slot.exists /\ Clear(frontier[v], slot.at) /\ Clear(frontier[v], upto)
      BY <2>1 DEF SlotInv, SlotBacks, AdvanceCovered
  <2>4. SlotBacks'
      BY <2>1, <2>2, <2>3 DEF SlotInv, SlotBacks, Pending, Clear, Lsns, Decoded
  <2>5. AdvanceCovered'
      BY <2>1, <2>3 DEF AdvanceCovered, Clear, Lsns, Decoded
  <2>. QED
      BY <2>4, <2>5
<1>3. CASE IdleCommit
  <2>1. /\ pc = "idleCommit" /\ pc' = "note" /\ UNCHANGED <<slot, status>>
        /\ \A v \in Views : frontier'[v] = IF status[v] = "live" /\ frontier[v] < upto
                                           THEN upto ELSE frontier[v]
      BY <1>3 DEF IdleCommit
  <2>2. ASSUME NEW v \in Views, status'[v] = "live"
        PROVE  slot'.exists /\ Clear(frontier[v], slot.at)'
    <3>1. slot.exists /\ Clear(frontier[v], slot.at) /\ frontier[v] \in Nat /\ upto \in Nat
        BY <1>0, <2>1, <2>2 DEF SlotInv, SlotBacks, StreamTypeOK, Position
    <3>2. frontier'[v] \in Nat /\ frontier[v] <= frontier'[v]
        BY <2>1, <3>1
    <3>3. \A i \in Lsns' : i <= slot.at => i \in Lsns
        BY <1>0, OldEntries DEF WalKeeps, Lsns
    <3>4. \A i \in Lsns : i \in Nat /\ (Decoded(i)' <=> Decoded(i))
        BY <1>0 DEF WalKeeps, Decoded, Lsns
    <3>. QED
        BY <2>1, <3>1, <3>2, <3>3, <3>4 DEF Clear
  <2>3. SlotBacks'
      BY <2>1, <2>2 DEF SlotInv, SlotBacks, Pending
  <2>. QED
      BY <2>1, <2>3 DEF AdvanceCovered
<1>4. CASE NoteFlush
  <2>1. pc = "note" /\ pc' = "poll" /\ UNCHANGED <<wal, slot, status, frontier>>
      BY <1>4 DEF NoteFlush, catalogVars
  <2>. QED
      BY <2>1 DEF SlotInv, SlotBacks, AdvanceCovered, Pending, Clear, Lsns, Decoded
<1>. QED
    BY <1>1, <1>2, <1>3, <1>4

\* A crash may take the slot back, never forward, and does not cut its drop.
LEMMA CrashSafe ==
    ASSUME CalmLag, SlotInv, RoundError \/ WorkerRestart \/ ServerCrash
    PROVE  SlotBacks' /\ AdvanceCovered'
<1>0. wal \in Seq(Entry) /\ StreamTypeOK
    BY DEF SlotInv, TypeInv, StreamTypeOK
<1>1. /\ pc' = "poll" /\ pc # "dropping" /\ UNCHANGED <<wal, status, frontier>>
      /\ slot'.exists = slot.exists /\ slot'.at \in Nat /\ slot'.at <= slot.at
  <2>1. pc' = "poll" /\ pc # "dropping" /\ UNCHANGED <<wal, status, frontier>>
      BY DEF RoundError, WorkerRestart, ServerCrash, CrashPoint, catalogVars
  <2>2. slot.at \in Nat /\ slot.born \in Nat
      BY <1>0 DEF StreamTypeOK, Position
  <2>3. CASE slot' = slot
      BY <2>1, <2>2, <2>3
  <2>4. ASSUME NEW at \in slot.born..slot.at, slot' = [slot EXCEPT !.at = at]
        PROVE  slot'.exists = slot.exists /\ slot'.at \in Nat /\ slot'.at <= slot.at
    <3>1. at \in Nat /\ at <= slot.at
        BY <2>2
    <3>2. slot'.exists = slot.exists /\ slot'.at = at
        BY <1>0, <2>4 DEF StreamTypeOK
    <3>. QED
        BY <3>1, <3>2
  <2>. QED
      BY <2>1, <2>2, <2>3, <2>4 DEF RoundError, WorkerRestart, ServerCrash
<1>2. AdvanceCovered'
    BY <1>1 DEF AdvanceCovered
<1>3. ASSUME NEW v \in Views, status'[v] = "live"
      PROVE  slot'.exists /\ Clear(frontier[v], slot.at)'
  <2>1. slot.exists /\ Clear(frontier[v], slot.at) /\ slot.at \in Nat
      BY <1>0, <1>1, <1>3 DEF SlotInv, SlotBacks, StreamTypeOK, Position
  <2>. QED
      BY <1>1, <2>1 DEF Clear, Lsns, Decoded
<1>. QED
    BY <1>1, <1>2, <1>3 DEF SlotInv, SlotBacks, Pending

\* The slot's invariant holds after every step.
LEMMA SlotInvKept ==
    ASSUME CalmLag, SlotInv, [StreamNext]_streamVars
    PROVE  SlotInv' /\ WalKeeps
<1>1. TypeInv' /\ WalKeeps
    BY StepType DEF SlotInv
<1>2. SlotBacks' /\ AdvanceCovered'
  <2>1. CASE Sessions \/ WaitStep
      BY <2>1, SessionsSafe
  <2>2. CASE LoadPending \/ BeginBuild \/ EndBuild \/ BuildFails
      BY <2>2, PopulationSafe
  <2>3. CASE NoSlotYet \/ DropSlot \/ MarkStale
      BY <2>3, LagSafe
  <2>4. CASE Peek \/ PeekNothing
      BY <2>4, PeekSafe
  <2>5. CASE Apply
      BY <2>5, ApplySafe
  <2>6. CASE AdvanceSlot \/ IdleSlot \/ IdleCommit \/ NoteFlush
      BY <2>6, AdvanceSafe
  <2>7. CASE RoundError \/ WorkerRestart \/ ServerCrash
      BY <2>7, CrashSafe
  <2>8. CASE UNCHANGED streamVars
      BY <2>8 DEF streamVars, catalogVars, workerVars, buildVars, roundVars, SlotInv,
         SlotBacks, AdvanceCovered, Pending, Clear, Lsns, Decoded
  <2>. QED
      BY <2>1, <2>2, <2>3, <2>4, <2>5, <2>6, <2>7, <2>8 DEF StreamNext, WorkerStep
<1>. QED
    BY <1>1, <1>2 DEF SlotInv

\* The inductive invariant of the slot holds in every execution (worker.rs
\* run_round, api.rs ensure_slot): drops, new slots, advances and crashes never
\* leave a live view behind it.
THEOREM SlotIsPlaced == ASSUME CalmLag PROVE StreamSpec => []SlotPlaced
<1>1. ASSUME StreamInit PROVE SlotInv
  <2>1. TypeInv
      BY <1>1, InitType
  <2>2. \A v \in Views : status[v] = "absent"
      BY <1>1 DEF StreamInit
  <2>. QED
      BY <2>1, <2>2 DEF SlotInv, SlotBacks, AdvanceCovered, Pending
<1>2. SlotInv /\ [StreamNext]_streamVars => SlotInv'
    BY SlotInvKept
<1>3. SlotInv => SlotPlaced
    BY DEF SlotInv, TypeInv, SlotPlaced
<1>. QED
    BY <1>1, <1>2, <1>3, PTL DEF StreamSpec

\* A live view has absorbed every change of its tables up to the slot (worker.rs
\* run_round), however often the slot was dropped for lag and made again.
THEOREM NothingIsSkipped == ASSUME CalmLag PROVE StreamSpec => []NothingSkipped
<1>1. ASSUME SlotPlaced PROVE NothingSkipped
  <2>. SUFFICES ASSUME pc # "dropping", NEW v \in Views, NEW t \in Rels[v], status[v] = "live",
                       NEW i \in Lsns, frontier[v] < i, i <= slot.at, wal[i].tab = t
                PROVE  FALSE
      BY DEF NothingSkipped, Untouched
  <2>1. ~ Decoded(i)
      BY <1>1 DEF SlotPlaced, SlotBacks, Clear
  <2>2. t # NoTable
      BY StreamAssumption
  <2>. QED
      BY <2>1, <2>2 DEF Decoded
<1>. QED
    BY SlotIsPlaced, <1>1, PTL
-----------------------------------------------------------------------------
(* The shadows of live join views, when no two join views share a table:   *)
(* the drop of the slot leaves the shadows of stale views as they are, and *)
(* the first build of another view on them would take them for good.       *)

UnsharedTables ==
    \A u, v \in Views : u # v /\ IsJoin(u) /\ IsJoin(v) => Rels[u] \cap Rels[v] = {}

\* A live join view's shadow exists and is clear up to the slot, and up to
\* where the round is about to move the slot.
ShadowBacks(t) ==
    /\ shadow[t].exists /\ Clear(shadow[t].frontier, slot.at)
    /\ pc = "advance" => Clear(shadow[t].frontier, advTo) /\ Clear(shadow[t].frontier, upto)
    /\ pc \in {"idle", "idleCommit"} => Clear(shadow[t].frontier, upto)

ShadowsBack ==
    pc # "dropping" =>
        \A v \in Views : \A t \in Rels[v] :
            status[v] = "live" /\ IsJoin(v) => ShadowBacks(t)

\* A first build finds no shadow of its own tables.
FirstBuildsMake ==
    \A v \in Views :
        /\ status[v] \in {"absent", "initializing"} => ~populated[v]
        /\ IsJoin(v) /\ ~populated[v] => \A t \in Rels[v] : ~shadow[t].exists

ShadowInv == SlotInv /\ ShadowsBack /\ FirstBuildsMake

\* The tables of a view are tables.
LEMMA RelsAreTables == \A v \in Views : Rels[v] \subseteq Tables
BY StreamAssumption

\* A step that builds nothing leaves first builds nothing to find.
LEMMA FirstBuildsKept ==
    ASSUME FirstBuildsMake, UNCHANGED populated,
           \A t \in Tables : shadow'[t].exists = shadow[t].exists,
           \A v \in Views : status'[v] \in {"absent", "initializing"}
                            => status[v] \in {"absent", "initializing"}
    PROVE  FirstBuildsMake'
BY RelsAreTables DEF FirstBuildsMake

\* A step that moves neither the worker, nor a shadow, nor a slot there is, and
\* makes no view live.
LEMMA ShadowsStill ==
    ASSUME SlotInv, ShadowsBack, WalKeeps, UNCHANGED <<pc, shadow, upto, advTo>>,
           \A v \in Views : status'[v] = "live" => status[v] = "live",
           slot.exists => slot' = slot
    PROVE  ShadowsBack'
<1>1. /\ \A t \in Tables : shadow[t].frontier \in Position
      /\ slot.at \in Position /\ upto \in Position /\ advTo \in Position
    BY DEF SlotInv, TypeInv, StreamTypeOK
<1>2. \A a \in Position, b \in Position : Clear(a, b) => Clear(a, b)'
    BY OldEntries
<1>. SUFFICES ASSUME pc # "dropping", NEW v \in Views, NEW t \in Rels[v],
                     status'[v] = "live", IsJoin(v)
              PROVE  ShadowBacks(t)'
    BY DEF ShadowsBack
<1>3. status[v] = "live" /\ slot' = slot /\ ShadowBacks(t) /\ t \in Tables
    BY RelsAreTables DEF ShadowsBack, SlotInv, SlotBacks
<1>. DEFINE f == shadow[t].frontier
<1>4. PICK g : g = f
    OBVIOUS
<1>5. PICK a, u, w : a = slot.at /\ u = upto /\ w = advTo
    OBVIOUS
<1>6. /\ g \in Position /\ a \in Position /\ u \in Position /\ w \in Position
      /\ shadow'[t].frontier = g /\ shadow'[t].exists = shadow[t].exists
      /\ slot'.at = a /\ upto' = u /\ advTo' = w /\ pc' = pc
    BY <1>1, <1>3, <1>4, <1>5
<1>7. /\ Clear(g, a) => Clear(g, a)'
      /\ Clear(g, u) => Clear(g, u)'
      /\ Clear(g, w) => Clear(g, w)'
    BY <1>2, <1>6
<1>8. /\ shadow[t].exists /\ Clear(g, a)
      /\ pc = "advance" => Clear(g, w) /\ Clear(g, u)
      /\ pc \in {"idle", "idleCommit"} => Clear(g, u)
    BY <1>3, <1>4, <1>5 DEF ShadowBacks
<1>. QED
    BY <1>6, <1>7, <1>8 DEF ShadowBacks, Clear

\* Sessions make no view live and move no shadow.
LEMMA SessionsShadows ==
    ASSUME ShadowInv, Sessions \/ WaitStep
    PROVE  ShadowsBack' /\ FirstBuildsMake'
<1>0. WalKeeps /\ StreamTypeOK
    BY SessionsType DEF ShadowInv, SlotInv, TypeInv
<1>1. UNCHANGED <<pc, shadow, populated, upto, advTo>>
    BY DEF Sessions, WaitStep, CommitTx, CreateView, Refresh, WaitFor, WaitReads, WaitChecks,
           catalogVars, workerVars, roundVars
<1>2. /\ slot.exists => slot' = slot
      /\ \A v \in Views : /\ status'[v] = "live" => status[v] = "live"
                          /\ status'[v] \in {"absent", "initializing"}
                             => status[v] \in {"absent", "initializing"}
  <2>1. CASE CommitTx \/ WaitStep \/ \E v \in Views : WaitFor(v)
      BY <2>1 DEF WaitStep, CommitTx, WaitFor, WaitReads, WaitChecks, catalogVars
  <2>2. ASSUME NEW v \in Views, CreateView(v) \/ Refresh(v)
        PROVE  /\ slot.exists => slot' = slot
               /\ \A u \in Views : /\ status'[u] = "live" => status[u] = "live"
                                   /\ status'[u] \in {"absent", "initializing"}
                                      => status[u] \in {"absent", "initializing"}
    <3>1. slot.exists => slot' = slot
        BY <1>0, <2>2 DEF CreateView, Refresh, EnsureSlot, StreamTypeOK
    <3>2. CASE CreateView(v)
        BY <1>0, <3>1, <3>2 DEF CreateView, StreamTypeOK
    <3>3. CASE Refresh(v)
        BY <1>0, <3>1, <3>3 DEF Refresh, StreamTypeOK
    <3>. QED
        BY <2>2, <3>2, <3>3
  <2>. QED
      BY <2>1, <2>2 DEF Sessions
<1>. QED
    BY <1>0, <1>1, <1>2, ShadowsStill, FirstBuildsKept DEF ShadowInv

\* Population: alone on its tables, a rebuild snapshots every shadow of the
\* view anew, a first build finds none and makes them, and neither touches
\* another live view's.
LEMMA PopulationShadows ==
    ASSUME UnsharedTables, ShadowInv, LoadPending \/ BeginBuild \/ EndBuild \/ BuildFails
    PROVE  ShadowsBack' /\ FirstBuildsMake'
<1>0. /\ WalKeeps /\ StreamTypeOK /\ StreamTypeOK' /\ QueueOK /\ SlotBacks /\ ShadowsBack
      /\ FirstBuildsMake /\ wal \in Seq(Entry)
    BY PopulationType DEF ShadowInv, SlotInv, TypeInv, StreamTypeOK
<1>1. /\ UNCHANGED slot
      /\ pc' \in {"lag", "build", "building"} /\ pc \notin {"dropping", "apply"}
    BY DEF LoadPending, BeginBuild, EndBuild, BuildFails, NextBuild
<1>2. \A a \in Position : \A i \in Lsns' : i <= a => i \in Lsns /\ (Decoded(i)' <=> Decoded(i))
  <2>1. \A a \in Position : a <= Len(wal) /\ a \in Nat
      BY <1>0, OldEntries
  <2>. QED
      BY <1>0, <2>1 DEF WalKeeps, Lsns, Decoded
\* A shadow the step leaves alone.
<1>3. ASSUME NEW v \in Views, NEW t \in Rels[v], status[v] = "live", IsJoin(v),
             shadow'[t] = shadow[t]
      PROVE  ShadowBacks(t)'
  <2>1. shadow[t].exists /\ Clear(shadow[t].frontier, slot.at) /\ slot.at \in Position
      BY <1>0, <1>1, <1>3 DEF ShadowsBack, ShadowBacks, StreamTypeOK
  <2>2. Clear(shadow[t].frontier, slot.at)'
      BY <1>1, <1>2, <1>3, <2>1 DEF Clear
  <2>. QED
      BY <1>1, <1>3, <2>1, <2>2 DEF ShadowBacks
<1>4. CASE LoadPending \/ BeginBuild \/ BuildFails
  <2>1. /\ UNCHANGED <<shadow, populated>>
        /\ \A v \in Views : /\ status'[v] = "live" => status[v] = "live"
                            /\ status'[v] \in {"absent", "initializing"}
                               => status[v] \in {"absent", "initializing"}
      BY <1>0, <1>4 DEF LoadPending, BeginBuild, BuildFails, catalogVars, StreamTypeOK
  <2>2. ShadowsBack'
      BY <1>3, <2>1 DEF ShadowsBack
  <2>. QED
      BY <1>0, <2>1, <2>2, FirstBuildsKept
<1>5. CASE EndBuild
  <2>1. /\ pc = "building" /\ \A v \in grp : v \in Views /\ Pending(v)
        /\ slot.exists => slot.at <= point
        /\ \A t \in Tables : shadow'[t] = IF SnapshotsShadow(t)
                                          THEN [exists |-> TRUE, frontier |-> point]
                                          ELSE shadow[t]
        /\ \A v \in Views : /\ status'[v] = IF v \in grp THEN "live" ELSE status[v]
                            /\ (populated'[v] = TRUE) <=> (populated[v] \/ v \in grp)
      BY <1>0, <1>5 DEF EndBuild, QueueOK, StreamTypeOK
  <2>2. ASSUME NEW v \in Views, IsJoin(v), NEW t \in Rels[v]
        PROVE  /\ t \in Tables
               /\ ShadowUsers(t) = IF v \in grp THEN {v} ELSE {}
    <3>1. \A u \in ShadowUsers(t) : u = v
        BY <1>0, <2>2 DEF ShadowUsers, UnsharedTables, StreamTypeOK
    <3>2. v \in ShadowUsers(t) <=> v \in grp
        BY <2>2 DEF ShadowUsers
    <3>. QED
        BY <2>2, <3>1, <3>2, RelsAreTables
  <2>3. ASSUME NEW v \in Views, IsJoin(v), NEW t \in Rels[v], v \in grp
        PROVE  SnapshotsShadow(t)
    <3>1. ShadowUsers(t) = {v} /\ {v} \in SUBSET Nat
        BY <2>2, <2>3 DEF Views
    <3>2. Least(ShadowUsers(t)) = v
        BY <3>1, LeastIs
    <3>3. status[v] \in {"initializing", "refreshing"}
        BY <2>1, <2>3 DEF Pending
    <3>4. CASE status[v] = "refreshing" /\ populated[v]
        BY <3>1, <3>2, <3>4 DEF SnapshotsShadow, Rebuild
    <3>5. CASE ~populated[v]
      <4>1. ~ shadow[t].exists
          BY <1>0, <2>3, <3>5 DEF FirstBuildsMake
      <4>. QED
          BY <3>1, <4>1 DEF SnapshotsShadow
    <3>. QED
        BY <1>0, <3>3, <3>4, <3>5 DEF FirstBuildsMake
  <2>4. ShadowsBack'
    <3>. SUFFICES ASSUME NEW v \in Views, NEW t \in Rels[v], status'[v] = "live", IsJoin(v)
                  PROVE  ShadowBacks(t)'
        BY DEF ShadowsBack
    <3>1. CASE v \in grp
      <4>1. shadow'[t].exists /\ shadow'[t].frontier = point
          BY <2>1, <2>2, <2>3, <3>1
      <4>2. slot.exists /\ slot.at <= point
          BY <1>0, <2>1, <3>1 DEF SlotBacks
      <4>3. point \in Nat /\ slot.at \in Nat
          BY <1>0 DEF StreamTypeOK, Position
      <4>4. \A i \in Lsns' : i \in Nat
          BY DEF Lsns
      <4>. QED
          BY <1>1, <4>1, <4>2, <4>3, <4>4 DEF ShadowBacks, Clear
    <3>2. CASE v \notin grp
      <4>1. ~ SnapshotsShadow(t) /\ t \in Tables
          BY <2>2, <3>2 DEF SnapshotsShadow
      <4>. QED
          BY <1>3, <2>1, <3>2, <4>1
    <3>. QED
        BY <3>1, <3>2
  <2>5. FirstBuildsMake'
    <3>1. ASSUME NEW v \in Views, status'[v] \in {"absent", "initializing"}
          PROVE  ~populated'[v]
      <4>1. v \notin grp /\ status[v] \in {"absent", "initializing"}
          BY <2>1, <3>1
      <4>2. ~ populated[v]
          BY <1>0, <4>1 DEF FirstBuildsMake
      <4>. QED
          BY <1>0, <2>1, <4>1, <4>2 DEF StreamTypeOK
    <3>2. ASSUME NEW v \in Views, IsJoin(v), ~populated'[v], NEW t \in Rels[v]
          PROVE  ~shadow'[t].exists
      <4>1. v \notin grp /\ ~populated[v]
          BY <1>0, <2>1, <3>2 DEF StreamTypeOK
      <4>2. ~ SnapshotsShadow(t) /\ t \in Tables
          BY <2>2, <3>2, <4>1 DEF SnapshotsShadow
      <4>3. ~ shadow[t].exists
          BY <1>0, <3>2, <4>1 DEF FirstBuildsMake
      <4>. QED
          BY <2>1, <4>2, <4>3
    <3>. QED
        BY <3>1, <3>2 DEF FirstBuildsMake
  <2>. QED
      BY <2>4, <2>5
<1>. QED
    BY <1>4, <1>5

\* The drop of the slot: the shadows stay as they are, but no view is live
\* afterwards.
LEMMA LagShadows ==
    ASSUME ShadowInv, NoSlotYet \/ DropSlot \/ MarkStale
    PROVE  ShadowsBack' /\ FirstBuildsMake'
<1>0. WalKeeps /\ StreamTypeOK /\ SlotBacks /\ FirstBuildsMake
    BY LagType DEF ShadowInv, SlotInv, TypeInv
<1>1. /\ UNCHANGED <<shadow, populated>>
      /\ \A v \in Views : status'[v] \in {"absent", "initializing"}
                          => status[v] \in {"absent", "initializing"}
    BY <1>0 DEF NoSlotYet, DropSlot, MarkStale, StatusAfterDrop, catalogVars, StreamTypeOK
<1>2. ShadowsBack'
  <2>1. CASE NoSlotYet
      BY <1>0, <2>1 DEF NoSlotYet, SlotBacks, ShadowsBack, catalogVars
  <2>2. CASE DropSlot
      BY <2>2 DEF DropSlot, ShadowsBack
  <2>3. CASE MarkStale
      BY <2>3 DEF MarkStale, StatusAfterDrop, ShadowsBack
  <2>. QED
      BY <2>1, <2>2, <2>3
<1>. QED
    BY <1>0, <1>1, <1>2, FirstBuildsKept

\* A round starts: an empty peek reaches the end of the log.
LEMMA PeekShadows ==
    ASSUME ShadowInv, Peek \/ PeekNothing
    PROVE  ShadowsBack' /\ FirstBuildsMake'
<1>0. StreamTypeOK /\ ShadowsBack /\ FirstBuildsMake
    BY DEF ShadowInv, SlotInv, TypeInv
<1>1. /\ pc = "lag" /\ pc' \in {"poll", "idle", "apply"}
      /\ UNCHANGED <<wal, slot, status, populated, shadow>>
      /\ pc' = "idle" => Window(Flushed) = {} /\ upto' = Flushed
    BY DEF Peek, PeekNothing, catalogVars
<1>2. ASSUME NEW v \in Views, NEW t \in Rels[v], status[v] = "live", IsJoin(v)
      PROVE  ShadowBacks(t)'
  <2>1. shadow[t].exists /\ Clear(shadow[t].frontier, slot.at)
      BY <1>0, <1>1, <1>2 DEF ShadowsBack, ShadowBacks
  <2>2. Clear(shadow[t].frontier, slot.at)'
      BY <1>1, <2>1 DEF Clear, Lsns, Decoded
  <2>3. ASSUME pc' = "idle" PROVE Clear(shadow[t].frontier, upto)'
    <3>1. slot.at \in Nat /\ Len(wal) \in Nat
        BY <1>0 DEF StreamTypeOK, Position
    <3>2. \A i \in Lsns : i <= Flushed /\ (slot.at < i \/ i <= slot.at)
        BY <3>1 DEF Lsns, Flushed
    <3>. QED
        BY <1>1, <2>1, <2>3, <3>2 DEF Clear, Window, Lsns, Decoded
  <2>. QED
      BY <1>1, <2>1, <2>2, <2>3 DEF ShadowBacks
<1>. QED
    BY <1>0, <1>1, <1>2, FirstBuildsKept DEF ShadowsBack

\* Every shadow absorbs the whole peek, whatever views fail on, and the slot
\* stays within it.
LEMMA ApplyShadows ==
    ASSUME ShadowInv, Apply
    PROVE  ShadowsBack' /\ FirstBuildsMake'
<1>0. /\ WalKeeps /\ StreamTypeOK /\ StreamTypeOK' /\ ShadowsBack /\ FirstBuildsMake
      /\ wal \in Seq(Entry) /\ upto \in Position /\ slot.at \in Position
    BY ApplyType DEF ShadowInv, SlotInv, TypeInv, StreamTypeOK
<1>1. /\ pc = "apply" /\ pc' = "advance" /\ UNCHANGED <<slot, upto, populated>>
      /\ advTo' = IF Passed = {} THEN slot.at ELSE Greatest(Passed)
      /\ \A v \in Views : status'[v] \in {status[v], "stale"}
    BY <1>0 DEF Apply, StreamTypeOK
<1>. DEFINE g == Greatest(Window(upto))
<1>2. /\ g \in Nat /\ \A i \in Window(upto) : i <= g
      /\ \A t \in Tables :
            /\ shadow'[t].exists = shadow[t].exists
            /\ shadow'[t].frontier = IF shadow[t].exists /\ shadow[t].frontier < g
                                     THEN g ELSE shadow[t].frontier
  <2>1. upto \in Nat /\ Window(upto) \in SUBSET Nat /\ \A i \in Window(upto) : i <= upto
      BY <1>0, WindowIs DEF Position
  <2>2. Window(upto) # {}
      BY <1>1 DEF ShadowInv, SlotInv, TypeInv, RoundOK
  <2>3. g \in Window(upto) /\ \A i \in Window(upto) : i <= g
      BY <2>1, <2>2, GreatestIs
  <2>. HIDE DEF g
  <2>4. \A t \in Tables : shadow'[t] = IF shadow[t].exists /\ shadow[t].frontier < g
                                       THEN [shadow[t] EXCEPT !.frontier = g] ELSE shadow[t]
      BY DEF Apply, g
  <2>5. \A t \in Tables : shadow[t] \in [exists : BOOLEAN, frontier : Position]
      BY <1>0 DEF StreamTypeOK
  <2>. QED
      BY <2>1, <2>3, <2>4, <2>5
<1>. HIDE DEF g
\* Where the slot goes is within the peek, or where it was.
<1>3. advTo' \in Position /\ (advTo' = slot.at \/ advTo' <= upto)
  <2>1. CASE Passed = {}
      BY <1>0, <1>1, <2>1
  <2>2. CASE Passed # {}
      BY <1>0, <1>1, <2>2, PassedIs DEF Passed, Window
  <2>. QED
      BY <2>1, <2>2
<1>4. ASSUME NEW v \in Views, NEW t \in Rels[v], status'[v] = "live", IsJoin(v)
      PROVE  ShadowBacks(t)'
  <2>1. status[v] = "live" /\ t \in Tables
      BY <1>1, <1>4, RelsAreTables
  <2>2. shadow[t].exists /\ Clear(shadow[t].frontier, slot.at)
      BY <1>0, <1>1, <1>4, <2>1 DEF ShadowsBack, ShadowBacks
  <2>3. /\ shadow[t].frontier \in Nat /\ shadow'[t].frontier \in Nat
        /\ shadow[t].frontier <= shadow'[t].frontier /\ g <= shadow'[t].frontier
    <3>1. shadow[t].frontier \in Nat /\ g \in Nat
      <4>1. shadow[t] \in [exists : BOOLEAN, frontier : Position]
          BY <1>0, <2>1 DEF StreamTypeOK
      <4>2. Position \in SUBSET Nat
          BY DEF Position
      <4>. QED
          BY <4>1, <4>2, <1>2
    <3>2. shadow'[t].frontier = IF shadow[t].frontier < g THEN g ELSE shadow[t].frontier
        BY <1>2, <2>1, <2>2
    <3>. QED
        BY <3>1, <3>2
  <2>4. ASSUME NEW i \in Lsns', shadow'[t].frontier < i, i <= upto \/ i <= slot.at
        PROVE  ~ Decoded(i)'
    <3>1. i \in Lsns /\ i \in Nat /\ upto \in Nat /\ slot.at \in Nat
        BY <1>0, <2>4, OldEntries DEF WalKeeps, Lsns
    <3>2. Decoded(i)' <=> Decoded(i)
        BY <1>0, <3>1 DEF WalKeeps, Decoded
    <3>3. CASE i <= slot.at
      <4>1. shadow[t].frontier < i
          BY <2>3, <2>4, <3>1
      <4>. QED
          BY <2>2, <3>1, <3>2, <3>3, <4>1 DEF Clear
    <3>4. CASE slot.at < i
      <4>1. i <= upto /\ ~ (i <= g)
          BY <1>2, <2>3, <2>4, <3>1, <3>4
      <4>2. i \notin Window(upto)
          BY <1>2, <4>1
      <4>. QED
          BY <3>1, <3>2, <3>4, <4>1, <4>2 DEF Window
    <3>. QED
        BY <3>1, <3>3, <3>4
  <2>5. \A i \in Lsns' : i <= advTo' => i <= upto \/ i <= slot.at
      BY <1>0, <1>3 DEF Lsns, Position
  <2>6. Clear(shadow[t].frontier, upto)' /\ Clear(shadow[t].frontier, slot.at)'
      BY <1>1, <2>4 DEF Clear
  <2>7. Clear(shadow[t].frontier, advTo)'
      BY <2>4, <2>5 DEF Clear
  <2>. QED
      BY <1>1, <1>2, <2>1, <2>2, <2>6, <2>7 DEF ShadowBacks
<1>5. FirstBuildsMake'
    BY <1>0, <1>1, <1>2, FirstBuildsKept
<1>. QED
    BY <1>4, <1>5 DEF ShadowsBack

\* The slot moves to where the shadows are, and the idle advance takes them along.
LEMMA AdvanceShadows ==
    ASSUME ShadowInv, AdvanceSlot \/ IdleSlot \/ IdleCommit \/ NoteFlush
    PROVE  ShadowsBack' /\ FirstBuildsMake'
<1>0. /\ WalKeeps /\ wal \in Seq(Entry) /\ StreamTypeOK /\ StreamTypeOK'
      /\ ShadowsBack /\ FirstBuildsMake
      /\ upto \in Position /\ slot.at \in Position /\ advTo \in Position
    BY AdvanceType DEF ShadowInv, SlotInv, TypeInv, StreamTypeOK
<1>1. UNCHANGED <<status, populated>>
    BY DEF AdvanceSlot, IdleSlot, IdleCommit, NoteFlush, catalogVars
<1>2. CASE AdvanceSlot \/ IdleSlot \/ NoteFlush
  <2>1. UNCHANGED <<wal, shadow>>
      BY <1>2 DEF AdvanceSlot, IdleSlot, NoteFlush, catalogVars
  <2>2. FirstBuildsMake'
      BY <1>0, <1>1, <2>1, FirstBuildsKept
  <2>3. \/ pc = "advance" /\ slot'.at \in {slot.at, advTo} /\ pc' \in {"idle", "poll"}
           /\ (pc' = "idle" => upto' = upto)
        \/ pc = "idle" /\ slot'.at \in {slot.at, upto} /\ pc' = "idleCommit" /\ upto' = upto
        \/ pc = "note" /\ slot' = slot /\ pc' = "poll"
    <3>1. CASE AdvanceSlot
        BY <1>0, <3>1, MoveSlotType DEF AdvanceSlot, roundVars
    <3>2. CASE IdleSlot
        BY <1>0, <3>2, MoveSlotType DEF IdleSlot, roundVars
    <3>3. CASE NoteFlush
        BY <3>3 DEF NoteFlush
    <3>. QED
        BY <1>2, <3>1, <3>2, <3>3
  <2>4. ASSUME NEW v \in Views, NEW t \in Rels[v], status[v] = "live", IsJoin(v)
        PROVE  ShadowBacks(t)'
    <3>1. ShadowBacks(t)
        BY <1>0, <2>3, <2>4 DEF ShadowsBack
    <3>. QED
        BY <2>1, <2>3, <3>1 DEF ShadowBacks, Clear, Lsns, Decoded
  <2>. QED
      BY <1>1, <2>2, <2>4 DEF ShadowsBack
<1>3. CASE IdleCommit
  <2>1. /\ pc = "idleCommit" /\ pc' = "note" /\ slot' = slot
        /\ \A t \in Tables :
              shadow'[t] = IF shadow[t].exists /\ shadow[t].frontier < upto
                           THEN [shadow[t] EXCEPT !.frontier = upto] ELSE shadow[t]
      BY <1>3 DEF IdleCommit
  <2>2. \A t \in Tables : /\ shadow'[t].exists = shadow[t].exists
                          /\ shadow[t].frontier \in Nat /\ shadow'[t].frontier \in Nat
                          /\ shadow[t].frontier <= shadow'[t].frontier
    <3>1. \A t \in Tables : shadow[t] \in [exists : BOOLEAN, frontier : Position]
        BY <1>0 DEF StreamTypeOK
    <3>. QED
      <4>1. \A t \in Tables : /\ shadow[t].frontier \in Nat
                              /\ [shadow[t] EXCEPT !.frontier = upto].exists = shadow[t].exists
                              /\ [shadow[t] EXCEPT !.frontier = upto].frontier = upto
          BY <3>1 DEF Position
      <4>2. upto \in Nat
          BY <1>0 DEF Position
      <4>3. ASSUME NEW t \in Tables
            PROVE  /\ shadow'[t].exists = shadow[t].exists
                   /\ shadow'[t].frontier = IF shadow[t].exists /\ shadow[t].frontier < upto
                                            THEN upto ELSE shadow[t].frontier
        <5>1. CASE shadow[t].exists /\ shadow[t].frontier < upto
            BY <2>1, <4>1, <5>1
        <5>2. CASE ~ (shadow[t].exists /\ shadow[t].frontier < upto)
            BY <2>1, <5>2
        <5>. QED
            BY <5>1, <5>2
      <4>. QED
          BY <4>1, <4>2, <4>3
  <2>3. FirstBuildsMake'
      BY <1>0, <1>1, <2>2, FirstBuildsKept
  <2>4. ASSUME NEW v \in Views, NEW t \in Rels[v], status[v] = "live", IsJoin(v)
        PROVE  ShadowBacks(t)'
    <3>1. ShadowBacks(t) /\ t \in Tables
        BY <1>0, <2>1, <2>4, RelsAreTables DEF ShadowsBack
    <3>2. \A i \in Lsns' : i <= slot.at => i \in Lsns /\ i \in Nat /\ (Decoded(i)' <=> Decoded(i))
      <4>1. \A i \in Lsns' : i <= slot.at => i \in Lsns /\ i \in Nat
          BY <1>0, OldEntries DEF WalKeeps, Lsns
      <4>. QED
          BY <1>0, <4>1 DEF WalKeeps, Decoded
    <3>3. Clear(shadow[t].frontier, slot.at)'
        BY <2>1, <2>2, <3>1, <3>2 DEF ShadowBacks, Clear
    <3>. QED
        BY <2>1, <2>2, <3>1, <3>3 DEF ShadowBacks
  <2>. QED
      BY <1>1, <2>3, <2>4 DEF ShadowsBack
<1>. QED
    BY <1>2, <1>3

\* A crash may take the slot back, never forward.
LEMMA CrashShadows ==
    ASSUME CalmLag, ShadowInv, RoundError \/ WorkerRestart \/ ServerCrash
    PROVE  ShadowsBack' /\ FirstBuildsMake'
<1>0. StreamTypeOK /\ ShadowsBack /\ FirstBuildsMake
    BY DEF ShadowInv, SlotInv, TypeInv
<1>1. pc' = "poll" /\ pc # "dropping" /\ UNCHANGED <<wal, status, populated, shadow>>
    BY DEF RoundError, WorkerRestart, ServerCrash, CrashPoint, catalogVars
<1>2. slot'.at \in Nat /\ slot'.at <= slot.at
  <2>1. slot.at \in Nat /\ slot.born \in Nat
      BY <1>0 DEF StreamTypeOK, Position
  <2>2. \A at \in slot.born..slot.at : [slot EXCEPT !.at = at].at = at
      BY <1>0 DEF StreamTypeOK
  <2>3. slot' = slot \/ \E at \in slot.born..slot.at : slot' = [slot EXCEPT !.at = at]
      BY DEF RoundError, WorkerRestart, ServerCrash
  <2>4. \A at \in slot.born..slot.at : at \in Nat /\ at <= slot.at
      BY <2>1
  <2>5. slot.at <= slot.at
      BY <2>1
  <2>. QED
      BY <2>1, <2>2, <2>3, <2>4, <2>5, Zenon
<1>3. ASSUME NEW v \in Views, NEW t \in Rels[v], status[v] = "live", IsJoin(v)
      PROVE  ShadowBacks(t)'
  <2>1. shadow[t].exists /\ Clear(shadow[t].frontier, slot.at) /\ slot.at \in Nat
    <3>1. slot.at \in Nat
        BY <1>0 DEF StreamTypeOK, Position
    <3>. QED
        BY <3>1, <1>0, <1>1, <1>3 DEF ShadowsBack, ShadowBacks
  <2>2. \A i \in Lsns : i <= slot'.at => i <= slot.at
      BY <1>2, <2>1 DEF Lsns
  <2>3. Clear(shadow[t].frontier, slot.at)'
      BY <1>1, <2>1, <2>2 DEF Clear, Lsns, Decoded
  <2>. QED
      BY <1>1, <2>1, <2>3 DEF ShadowBacks
<1>. QED
    BY <1>0, <1>1, <1>3, FirstBuildsKept DEF ShadowsBack

\* README "Shadow tables": if no two join views share a table, the shadows of a
\* live join view exist and have absorbed every change of their tables that the
\* slot will not deliver again, however often it is dropped for lag and made again
\* (worker.rs run_round, shadow.rs ensure).
THEOREM ShadowsKeepTheirPlace ==
    ASSUME CalmLag, UnsharedTables
    PROVE  StreamSpec => []ShadowsKeepUp
<1>1. ASSUME StreamInit PROVE ShadowInv
  <2>1. TypeInv
      BY <1>1, InitType
  <2>2. /\ \A v \in Views : status[v] = "absent" /\ populated[v] = FALSE
        /\ \A t \in Tables : shadow[t].exists = FALSE
      BY <1>1 DEF StreamInit, NoShadow
  <2>. QED
      BY <2>1, <2>2, RelsAreTables
         DEF ShadowInv, SlotInv, SlotBacks, AdvanceCovered, Pending, ShadowsBack, FirstBuildsMake
<1>2. ASSUME ShadowInv, [StreamNext]_streamVars PROVE ShadowInv'
  <2>1. SlotInv'
      BY <1>2, SlotInvKept DEF ShadowInv
  <2>2. ShadowsBack' /\ FirstBuildsMake'
    <3>1. CASE Sessions \/ WaitStep
        BY <1>2, <3>1, SessionsShadows
    <3>2. CASE LoadPending \/ BeginBuild \/ EndBuild \/ BuildFails
        BY <1>2, <3>2, PopulationShadows
    <3>3. CASE NoSlotYet \/ DropSlot \/ MarkStale
        BY <1>2, <3>3, LagShadows
    <3>4. CASE Peek \/ PeekNothing
        BY <1>2, <3>4, PeekShadows
    <3>5. CASE Apply
        BY <1>2, <3>5, ApplyShadows
    <3>6. CASE AdvanceSlot \/ IdleSlot \/ IdleCommit \/ NoteFlush
        BY <1>2, <3>6, AdvanceShadows
    <3>7. CASE RoundError \/ WorkerRestart \/ ServerCrash
        BY <1>2, <3>7, CrashShadows
    <3>8. CASE UNCHANGED streamVars
        BY <1>2, <3>8 DEF streamVars, catalogVars, workerVars, roundVars, ShadowInv,
           ShadowsBack, ShadowBacks, FirstBuildsMake, Clear, Lsns, Decoded
    <3>. QED
        BY <1>2, <3>1, <3>2, <3>3, <3>4, <3>5, <3>6, <3>7, <3>8 DEF StreamNext, WorkerStep
  <2>. QED
      BY <2>1, <2>2 DEF ShadowInv
<1>3. ASSUME ShadowInv PROVE ShadowsKeepUp
  <2>. SUFFICES ASSUME pc # "dropping", NEW v \in Views, NEW t \in Rels[v], status[v] = "live",
                       IsJoin(v)
                PROVE  shadow[t].exists /\ Untouched(t, shadow[t].frontier, slot.at)
      BY DEF ShadowsKeepUp
  <2>1. shadow[t].exists /\ Clear(shadow[t].frontier, slot.at)
      BY <1>3 DEF ShadowInv, ShadowsBack, ShadowBacks
  <2>2. t # NoTable
      BY StreamAssumption
  <2>. QED
      BY <2>1, <2>2 DEF Clear, Untouched, Decoded
<1>. QED
    BY <1>1, <1>2, <1>3, PTL DEF StreamSpec
-----------------------------------------------------------------------------
(* wait_for and the idle window: whatever has reached the start of the     *)
(* window reflects its end.                                                *)

\* Positions are naturals, none of them beyond the flush position, which only grows.
LEMMA PositionsAre ==
    ASSUME StreamTypeOK, WalKeeps
    PROVE  /\ Flushed \in Nat /\ Flushed' \in Nat /\ Flushed <= Flushed'
           /\ selfFlush \in Nat /\ selfFlush <= Flushed
           /\ lastAdvance \in Nat /\ lastAdvance <= Flushed
           /\ window.from \in Nat /\ window.to \in Nat
           /\ window.from <= Flushed /\ window.to <= Flushed
           /\ point \in Nat /\ point <= Flushed /\ upto \in Nat /\ upto <= Flushed
           /\ \A v \in Views : frontier[v] \in Nat /\ frontier[v] <= Flushed
BY OldEntries DEF StreamTypeOK, WalKeeps, Flushed

\* A commit of the worker's own moves the flush position.
LEMMA AppendMoves ==
    ASSUME wal \in Seq(Entry), wal' = Append(wal, Bookkeeping)
    PROVE  Flushed' = Flushed + 1 /\ Flushed \in Nat
BY AppendIs, BookkeepingIs DEF Flushed

\* As long as nothing is logged since the idle advance, no frontier and no status
\* has changed.
LEMMA MemoryKept ==
    ASSUME StreamTypeOK, WalKeeps, UNCHANGED <<selfFlush, lastAdvance>>,
           Flushed' > Flushed \/ UNCHANGED <<status, frontier>>,
           NEW v \in Views,
           lastAdvance > 0 /\ Flushed = selfFlush /\ frontier[v] >= lastAdvance => Readable(v)
    PROVE  (lastAdvance > 0 /\ Flushed = selfFlush /\ frontier[v] >= lastAdvance => Readable(v))'
<1>1. /\ Flushed \in Nat /\ Flushed' \in Nat /\ selfFlush \in Nat
      /\ Flushed <= Flushed' /\ selfFlush <= Flushed
    BY PositionsAre
<1>2. CASE Flushed' > Flushed
    BY <1>1, <1>2
<1>3. CASE UNCHANGED <<status, frontier>> /\ ~ (Flushed' > Flushed)
  <2>1. Flushed' = Flushed
      BY <1>1, <1>3
  <2>. QED
      BY <1>3, <2>1 DEF Readable, Pending
<1>. QED
    BY <1>2, <1>3

\* The window stays sound when the frontiers that reach it have absorbed what it
\* covers, or are past it.
LEMMA WindowStays ==
    ASSUME StreamTypeOK, StreamTypeOK', WalKeeps, WindowSound, window' = window,
           \A v \in Views :
              window.from # 0 /\ frontier'[v] >= window.from =>
                  \/ frontier'[v] >= window.to
                  \/ frontier[v] >= window.from /\ frontier'[v] >= frontier[v]
    PROVE  WindowSound'
<1>. SUFFICES ASSUME NEW v \in Views, window.from # 0, frontier'[v] >= window.from,
                     NEW i \in Lsns', frontier'[v] < i, i <= window.to
              PROVE  ~ Decoded(i)'
    BY DEF WindowSound, Clear
<1>1. /\ window.to \in Position /\ window.to \in Nat /\ frontier[v] \in Nat
      /\ frontier'[v] \in Nat
  <2>1. frontier'[v] \in Position' /\ Len(wal') \in Nat
      BY DEF StreamTypeOK, WalKeeps
  <2>2. window.to \in Position
      BY DEF StreamTypeOK
  <2>. QED
      BY <2>1, <2>2, PositionsAre DEF Position
<1>2. i \in Lsns /\ i \in Nat /\ (Decoded(i)' <=> Decoded(i))
  <2>1. i \in Lsns /\ i \in Nat
      BY <1>1, OldEntries DEF WalKeeps, Lsns
  <2>. QED
      BY <2>1 DEF WalKeeps, Decoded
<1>3. frontier[v] >= window.from /\ frontier'[v] >= frontier[v]
    BY <1>1, <1>2
<1>4. frontier[v] < i
    BY <1>1, <1>2, <1>3
<1>. QED
    BY <1>2, <1>3, <1>4 DEF WindowSound, Clear

\* A step that leaves the worker and all frontiers alone, and takes no view from
\* the readable ones.
LEMMA WindowUnmoved ==
    ASSUME StreamTypeOK, StreamTypeOK', WalKeeps, WindowPlaced,
           UNCHANGED <<frontier, pc, todo, grp, point, upto, drained, loaded, selfFlush,
                       lastAdvance, window>>,
           Flushed' > Flushed \/ UNCHANGED status,
           \A v \in Views : /\ status'[v] = "live" => status[v] = "live"
                            /\ Readable(v) => Readable(v)',
           wait'.pc = "check" => wait'.seen <= frontier[wait'.view]
    PROVE  WindowPlaced'
<1>. USE DEF WindowPlaced
<1>0. /\ Flushed \in Nat /\ Flushed' \in Nat /\ selfFlush \in Nat
      /\ Flushed <= Flushed' /\ selfFlush <= Flushed
      /\ \A v \in Views : frontier[v] \in Nat
    BY PositionsAre
<1>1. FrontiersLogged'
    BY <1>0 DEF FrontiersLogged
<1>2. LiveIsPast'
    BY DEF LiveIsPast
<1>3. QueueSeen'
  <2>1. ASSUME NEW v \in Views, pc \in {"build", "building", "lag"}, Pending(v)'
        PROVE  v \in todo \cup grp \/ Flushed' > selfFlush
    <3>1. CASE Flushed' > Flushed
        BY <1>0, <3>1
    <3>2. CASE UNCHANGED status
      <4>1. Pending(v)
          BY <2>1, <3>2 DEF Pending
      <4>. QED
          BY <1>0, <2>1, <4>1 DEF QueueSeen
    <3>. QED
        BY <3>1, <3>2
  <2>. QED
      BY <2>1 DEF QueueSeen
<1>4. AheadIsReadable'
  <2>1. \A v \in Views :
          (lastAdvance > 0 /\ Flushed = selfFlush /\ frontier[v] >= lastAdvance => Readable(v))'
      BY MemoryKept DEF AheadIsReadable
  <2>2. ASSUME NEW v \in Views
        PROVE  /\ pc = "apply" /\ drained => frontier[v] = 0 \/ frontier[v] < upto
               /\ (pc = "advance" /\ drained) \/ pc \in {"idle", "idleCommit", "note"} =>
                     frontier[v] = 0 \/ frontier[v] < upto \/ Readable(v)'
      BY DEF AheadIsReadable
  <2>. QED
      BY <2>1, <2>2 DEF AheadIsReadable
<1>5. WindowSound'
  <2>1. \A v \in Views : frontier[v] >= frontier[v]
      BY <1>0
  <2>. QED
      BY <2>1, WindowStays
<1>. QED
    BY <1>1, <1>2, <1>3, <1>4, <1>5

\* Sessions log what they request, and a waiting one has read a frontier.
LEMMA SessionsWindow ==
    ASSUME SlotInv, WindowPlaced, Sessions \/ WaitStep
    PROVE  WindowPlaced'
<1>0. StreamTypeOK /\ StreamTypeOK' /\ WalKeeps /\ wal \in Seq(Entry)
    BY SessionsType DEF SlotInv, TypeInv, StreamTypeOK
<1>1. UNCHANGED <<frontier, pc, todo, grp, point, upto, drained, loaded, selfFlush, lastAdvance,
                  window>>
    BY DEF Sessions, WaitStep, CommitTx, CreateView, Refresh, WaitFor, WaitReads, WaitChecks,
           catalogVars, workerVars, buildVars, roundVars, memoryVars
<1>2. CASE CommitTx \/ WaitStep \/ \E v \in Views : WaitFor(v)
  <2>1. UNCHANGED status
      BY <1>2 DEF CommitTx, WaitStep, WaitFor, WaitReads, WaitChecks, catalogVars
  <2>2. \A v \in Views : Readable(v) => Readable(v)'
      BY <2>1 DEF Readable, Pending
  <2>3. wait'.pc = "check" => wait'.seen <= frontier[wait'.view]
    <3>1. CASE CommitTx
        BY <3>1 DEF CommitTx, WindowPlaced, FrontiersLogged
    <3>2. CASE WaitChecks
      <4>1. wait'.pc # "check"
          BY <1>0, <3>2 DEF WaitChecks, NoWait, StreamTypeOK
      <4>. QED
          BY <4>1
    <3>3. CASE \E v \in Views : WaitFor(v)
        BY <3>3 DEF WaitFor
    <3>4. CASE WaitReads
      <4>1. wait.pc = "read" /\ wait.view \in Views
          BY <1>0, <3>4 DEF WaitReads, StreamTypeOK
      <4>2. CASE wait' = NoWait
          BY <4>2 DEF NoWait
      <4>3. CASE wait' = [wait EXCEPT !.pc = "check", !.seen = frontier[wait.view]]
        <5>1. wait'.view = wait.view /\ wait'.seen = frontier[wait.view]
            BY <1>0, <4>3 DEF StreamTypeOK
        <5>2. frontier[wait.view] \in Nat
            BY <1>0, <4>1, PositionsAre
        <5>. QED
            BY <5>1, <5>2
      <4>. QED
          BY <3>4, <4>2, <4>3 DEF WaitReads
    <3>. QED
        BY <1>2, <3>1, <3>2, <3>3, <3>4 DEF WaitStep
  <2>. QED
      BY <1>0, <1>1, <2>1, <2>2, <2>3, WindowUnmoved
<1>3. ASSUME NEW v \in Views, CreateView(v) \/ Refresh(v)
      PROVE  WindowPlaced'
  <2>1. \A u \in Views : /\ status'[u] = "live" => status[u] = "live"
                         /\ Readable(u) => Readable(u)'
    <3>1. CASE CreateView(v)
        BY <1>0, <3>1 DEF CreateView, Readable, Pending, StreamTypeOK
    <3>2. CASE Refresh(v)
      <4>1. \A u \in Views : status'[u] = IF u \in RefreshSet(v) /\ ~Pending(u) THEN "refreshing"
                                          ELSE status[u]
          BY <3>2 DEF Refresh
      <4>. QED
          BY <4>1 DEF Readable, Pending
    <3>. QED
        BY <1>3, <3>1, <3>2
  <2>2. Flushed' > Flushed \/ UNCHANGED status
    <3>1. WithSlot \in Seq(Entry) /\ Len(WithSlot) >= Len(wal) /\ Len(WithSlot) \in Nat
          /\ Len(wal) \in Nat
        BY <1>0, AppendIs, BookkeepingIs DEF WithSlot
    <3>2. Len(Append(WithSlot, Bookkeeping)) = Len(WithSlot) + 1
        BY <3>1, AppendIs, BookkeepingIs
    <3>3. UNCHANGED status \/ wal' = Append(WithSlot, Bookkeeping)
        BY <1>3 DEF CreateView, Refresh
    <3>. QED
        BY <3>1, <3>2, <3>3 DEF Flushed
  <2>3. wait' = wait
      BY <1>3 DEF CreateView, Refresh
  <2>4. wait'.pc = "check" => wait'.seen <= frontier[wait'.view]
      BY <2>3 DEF WindowPlaced, FrontiersLogged
  <2>. QED
      BY <1>0, <1>1, <2>1, <2>2, <2>4, WindowUnmoved
<1>. QED
    BY <1>2, <1>3 DEF Sessions

\* A step that leaves window and memory alone and ends the round or the queue:
\* what is left to show is what it does to frontiers.
LEMMA WindowAtRest ==
    ASSUME StreamTypeOK, StreamTypeOK', WalKeeps, WindowPlaced,
           UNCHANGED <<selfFlush, lastAdvance, window>>,
           pc' \in {"poll", "dropping"}, UNCHANGED frontier,
           Flushed' > Flushed \/ UNCHANGED status,
           \A v \in Views : status'[v] = "live" => status[v] = "live",
           wait' = wait
    PROVE  WindowPlaced'
<1>. USE DEF WindowPlaced
<1>0. /\ Flushed \in Nat /\ Flushed' \in Nat /\ Flushed <= Flushed'
      /\ \A v \in Views : frontier[v] \in Nat
    BY PositionsAre
<1>1. FrontiersLogged'
    BY <1>0 DEF FrontiersLogged
<1>2. LiveIsPast' /\ QueueSeen'
    BY DEF LiveIsPast, QueueSeen
<1>3. AheadIsReadable'
  <2>1. \A v \in Views :
          (lastAdvance > 0 /\ Flushed = selfFlush /\ frontier[v] >= lastAdvance => Readable(v))'
      BY MemoryKept DEF AheadIsReadable
  <2>. QED
      BY <2>1 DEF AheadIsReadable
<1>4. WindowSound'
  <2>1. \A v \in Views : frontier[v] >= frontier[v]
      BY <1>0
  <2>. QED
      BY <2>1, WindowStays
<1>. QED
    BY <1>1, <1>2, <1>3, <1>4

\* Population: a build starts beyond the window, and whatever it changes it logs.
LEMMA PopulationWindow ==
    ASSUME SlotInv, WindowPlaced, LoadPending \/ BeginBuild \/ EndBuild \/ BuildFails
    PROVE  WindowPlaced'
<1>. USE DEF WindowPlaced
<1>0. StreamTypeOK /\ StreamTypeOK' /\ WalKeeps /\ QueueOK /\ wal \in Seq(Entry)
    BY PopulationType DEF SlotInv, TypeInv, StreamTypeOK
<1>1. /\ Flushed \in Nat /\ Flushed' \in Nat /\ Flushed <= Flushed'
      /\ selfFlush \in Nat /\ selfFlush <= Flushed
      /\ lastAdvance \in Nat /\ lastAdvance <= Flushed
      /\ window.from \in Nat /\ window.to \in Nat
      /\ window.from <= Flushed /\ window.to <= Flushed
      /\ point \in Nat /\ point <= Flushed
      /\ \A v \in Views : frontier[v] \in Nat /\ frontier[v] <= Flushed
    BY <1>0, PositionsAre
<1>2. /\ UNCHANGED <<upto, drained, loaded, selfFlush, lastAdvance, window, wait>>
      /\ pc' \in {"lag", "build", "building"}
    BY DEF LoadPending, BeginBuild, EndBuild, BuildFails, NextBuild, roundVars, memoryVars
<1>3. CASE LoadPending
  <2>1. /\ UNCHANGED <<wal, status, frontier, grp>> /\ todo' = {v \in Views : Pending(v)}
        /\ pc' = IF todo' = {} THEN "lag" ELSE "build"
      BY <1>3 DEF LoadPending, NextBuild, catalogVars
  <2>2. Flushed' = Flushed /\ \A v \in Views : (Pending(v)' <=> Pending(v)) /\ (Readable(v)' <=> Readable(v))
      BY <2>1 DEF Flushed, Pending, Readable
  <2>3. FrontiersLogged'
      BY <1>2, <2>1, <2>2 DEF FrontiersLogged
  <2>4. LiveIsPast' /\ AheadIsReadable'
      BY <1>2, <2>1, <2>2 DEF LiveIsPast, AheadIsReadable
  <2>5. QueueSeen'
      BY <2>1, <2>2 DEF QueueSeen
  <2>6. WindowSound'
      BY <1>2, <2>1 DEF WindowSound, Clear, Lsns, Decoded
  <2>. QED
      BY <2>3, <2>4, <2>5, <2>6
<1>4. CASE BeginBuild \/ EndBuild \/ BuildFails
  <2>1. wal' = Append(wal, Bookkeeping)
      BY <1>4 DEF BeginBuild, EndBuild, BuildFails
  <2>2. Flushed' = Flushed + 1 /\ Flushed' > selfFlush /\ Flushed' > Flushed
      BY <1>0, <1>1, <2>1, AppendMoves
  <2>3. \/ UNCHANGED frontier
        \/ /\ EndBuild /\ pc = "building"
           /\ \A v \in Views : frontier'[v] = IF v \in grp THEN point ELSE frontier[v]
      BY <1>4 DEF BeginBuild, EndBuild, BuildFails, catalogVars
  <2>4. pc = "building" => /\ lastAdvance <= point /\ window.from <= point /\ window.to <= point
                           /\ \A v \in Views : frontier[v] <= point
      BY DEF FrontiersLogged
  <2>5. \A v \in Views : frontier'[v] \in Nat /\ frontier[v] <= frontier'[v]
                         /\ frontier'[v] \in {frontier[v], point}
      BY <1>1, <2>3, <2>4
  <2>6. FrontiersLogged'
    <3>1. \A v \in Views : frontier'[v] = 0 \/ frontier'[v] < Flushed'
      <4>1. \A v \in Views : frontier[v] = 0 \/ frontier[v] < Flushed
          BY DEF FrontiersLogged
      <4>. QED
          BY <1>1, <2>2, <2>5, <4>1
    <3>2. ASSUME pc' = "building"
          PROVE  /\ lastAdvance <= point' /\ window.from <= point' /\ window.to <= point'
                 /\ \A v \in Views : frontier'[v] <= point'
      <4>1. BeginBuild
          BY <1>4, <3>2 DEF EndBuild, BuildFails, NextBuild
      <4>2. point' = Flushed' /\ UNCHANGED frontier
          BY <4>1 DEF BeginBuild, Flushed, catalogVars
      <4>. QED
          BY <1>1, <2>2, <4>2
    <3>3. wait.pc = "check" => wait.seen <= frontier'[wait.view]
      <4>. SUFFICES ASSUME wait.pc = "check" PROVE wait.seen <= frontier'[wait.view]
          OBVIOUS
      <4>1. wait.view \in Views /\ wait.seen \in Nat
          BY <1>0 DEF StreamTypeOK, Position
      <4>2. wait.seen <= frontier[wait.view]
          BY DEF FrontiersLogged
      <4>3. /\ frontier[wait.view] \in Nat /\ frontier'[wait.view] \in Nat
            /\ frontier[wait.view] <= frontier'[wait.view]
          BY <1>1, <2>5, <4>1
      <4>. QED
          BY <4>1, <4>2, <4>3
    <3>. QED
        BY <1>2, <3>1, <3>2, <3>3 DEF FrontiersLogged
  <2>7. LiveIsPast'
    <3>1. ASSUME NEW v \in Views, status'[v] = "live"
          PROVE  frontier'[v] >= lastAdvance /\ frontier'[v] >= window.from
      <4>1. CASE EndBuild /\ v \in grp
          BY <1>1, <2>4, <4>1 DEF EndBuild
      <4>2. CASE ~ (EndBuild /\ v \in grp)
        <5>1. status[v] = "live" /\ frontier'[v] = frontier[v]
          <6>0. /\ status \in [Views -> Statuses] /\ frontier \in [Views -> Position]
                /\ status'[v] = "live"
              BY <1>0, <3>1 DEF StreamTypeOK
          <6>1. CASE BeginBuild
              BY <6>0, <6>1 DEF BeginBuild, catalogVars
          <6>2. CASE EndBuild
              BY <6>0, <6>2, <4>2 DEF EndBuild
          <6>3. CASE BuildFails
              BY <6>0, <6>3 DEF BuildFails
          <6>. QED
              BY <1>4, <6>1, <6>2, <6>3
        <5>. QED
            BY <5>1 DEF LiveIsPast
      <4>. QED
          BY <4>1, <4>2
    <3>. QED
        BY <1>2, <3>1 DEF LiveIsPast
  <2>8. QueueSeen'
    <3>1. pc' = "lag" => todo' = {}
        BY <1>4 DEF BeginBuild, EndBuild, BuildFails, NextBuild
    <3>. QED
        BY <1>2, <2>2, <3>1 DEF QueueSeen
  <2>9. AheadIsReadable'
    <3>1. \A v \in Views :
          (lastAdvance > 0 /\ Flushed = selfFlush /\ frontier[v] >= lastAdvance => Readable(v))'
        BY <1>1, <1>2, <2>2
    <3>. QED
        BY <1>2, <3>1 DEF AheadIsReadable
  <2>10. WindowSound'
    <3>1. \A v \in Views : window.from # 0 /\ frontier'[v] >= window.from =>
                  \/ frontier'[v] >= window.to
                  \/ frontier[v] >= window.from /\ frontier'[v] >= frontier[v]
        BY <1>1, <2>3, <2>4, <2>5
    <3>. QED
        BY <1>0, <1>2, <3>1, WindowStays
  <2>. QED
      BY <2>6, <2>7, <2>8, <2>9, <2>10
<1>. QED
    BY <1>3, <1>4

\* The drop of the slot leaves no view live.
LEMMA LagWindow ==
    ASSUME SlotInv, WindowPlaced, NoSlotYet \/ DropSlot \/ MarkStale
    PROVE  WindowPlaced'
<1>0. StreamTypeOK /\ StreamTypeOK' /\ WalKeeps /\ wal \in Seq(Entry)
    BY LagType DEF SlotInv, TypeInv, StreamTypeOK
<1>1. /\ UNCHANGED <<frontier, selfFlush, lastAdvance, window, wait>>
      /\ pc' \in {"poll", "dropping"}
      /\ \A v \in Views : status'[v] = "live" => status[v] = "live"
    BY DEF NoSlotYet, DropSlot, MarkStale, StatusAfterDrop, catalogVars, memoryVars
<1>2. Flushed' > Flushed \/ UNCHANGED status
  <2>1. UNCHANGED status \/ wal' = Append(wal, Bookkeeping)
      BY DEF NoSlotYet, DropSlot, MarkStale, catalogVars
  <2>2. \A n \in Nat : n + 1 > n
      OBVIOUS
  <2>. QED
      BY <1>0, <2>1, <2>2, AppendMoves
<1>. QED
    BY <1>0, <1>1, <1>2, WindowAtRest

\* A round starts or, with nothing logged since the idle advance, the window is
\* extended: every view at its start is live, and clear up to the slot and from
\* there to the end.
LEMMA PeekWindow ==
    ASSUME SlotInv, WindowPlaced, Peek \/ PeekNothing
    PROVE  WindowPlaced'
<1>. USE DEF WindowPlaced
<1>0. StreamTypeOK /\ StreamTypeOK' /\ WalKeeps /\ wal \in Seq(Entry) /\ QueueOK /\ SlotBacks
    BY PeekType DEF SlotInv, TypeInv, StreamTypeOK
<1>1. /\ pc = "lag" /\ todo = {} /\ grp = {} /\ pc' \in {"poll", "idle", "apply"}
      /\ UNCHANGED <<wal, slot, status, frontier, selfFlush, lastAdvance, wait>>
    BY <1>0 DEF Peek, PeekNothing, catalogVars, memoryVars, QueueSeen, QueueOK
<1>2. /\ Flushed' = Flushed
      /\ \A v \in Views : Readable(v)' <=> Readable(v)
      /\ Flushed \in Nat /\ window.from \in Nat /\ lastAdvance \in Nat
      /\ \A v \in Views : frontier[v] \in Nat
    BY <1>0, <1>1, PositionsAre DEF Flushed, Readable, Pending
<1>3. FrontiersLogged'
    BY <1>1, <1>2 DEF FrontiersLogged
<1>4. QueueSeen'
    BY <1>1 DEF QueueSeen
<1>5. CASE Peek
  <2>1. /\ window' = window
        /\ drained' => upto' = Flushed
        /\ pc' = "idle" => upto' = Flushed
        /\ pc' = "apply" => loaded' = {v \in Views : status[v] = "live"}
        /\ pc' # "poll"
      BY <1>5 DEF Peek
  <2>2. LiveIsPast'
      BY <1>1, <1>2, <2>1 DEF LiveIsPast, Readable
  <2>3. AheadIsReadable'
      BY <1>1, <1>2, <2>1 DEF AheadIsReadable, FrontiersLogged
  <2>4. WindowSound'
      BY <1>1, <2>1 DEF WindowSound, Clear, Lsns, Decoded
  <2>. QED
      BY <1>3, <1>4, <2>2, <2>3, <2>4
<1>6. CASE PeekNothing
  <2>1. /\ pc' = "poll" /\ slot.exists /\ Window(Flushed) = {} /\ Flushed = selfFlush
        /\ window' = IF lastAdvance > 0 THEN [from |-> lastAdvance, to |-> Flushed] ELSE window
      BY <1>6 DEF PeekNothing, IdleWindow
  <2>2. LiveIsPast' /\ AheadIsReadable'
    <3>1. window'.from \in {window.from, lastAdvance}
        BY <2>1
    <3>. QED
        BY <1>1, <1>2, <2>1, <3>1 DEF LiveIsPast, AheadIsReadable
  <2>3. WindowSound'
    <3>1. CASE lastAdvance > 0
      <4>1. window'.from = lastAdvance /\ window'.to = Flushed
          BY <2>1, <3>1
      <4>2. ASSUME NEW v \in Views, frontier[v] >= lastAdvance
            PROVE  Clear(frontier[v], Flushed)
        <5>1. Readable(v)
            BY <2>1, <3>1, <4>2 DEF AheadIsReadable
        <5>2. ~ Pending(v)
            BY <1>1, <1>2, <2>1 DEF QueueSeen
        <5>3. Clear(frontier[v], slot.at)
            BY <1>0, <1>1, <5>1, <5>2 DEF Readable, SlotBacks
        <5>4. slot.at \in Nat
            BY <1>0 DEF StreamTypeOK, Position
        <5>5. \A i \in Lsns : i <= slot.at \/ slot.at < i
            BY <5>4 DEF Lsns
        <5>. QED
            BY <2>1, <5>3, <5>5 DEF Clear, Window
      <4>3. \A v \in Views : frontier'[v] >= window'.from => Clear(frontier[v], window.to)'
          BY <1>1, <4>1, <4>2 DEF Clear, Lsns, Decoded
      <4>. QED
          BY <4>3 DEF WindowSound
    <3>2. CASE ~ (lastAdvance > 0)
        BY <1>1, <2>1, <3>2 DEF WindowSound, Clear, Lsns, Decoded
    <3>. QED
        BY <3>1, <3>2
  <2>. QED
      BY <1>3, <1>4, <2>2, <2>3
<1>. QED
    BY <1>5, <1>6

\* The round's transaction: frontiers move forward within the peek, and a view
\* that gives up stops before the commit it failed on.
LEMMA ApplyWindow ==
    ASSUME SlotInv, WindowPlaced, Apply
    PROVE  WindowPlaced'
<1>. USE DEF WindowPlaced
<1>0. StreamTypeOK /\ StreamTypeOK' /\ WalKeeps /\ wal \in Seq(Entry) /\ upto \in Position
    BY ApplyType DEF SlotInv, TypeInv, StreamTypeOK
<1>1. /\ pc = "apply" /\ pc' = "advance"
      /\ UNCHANGED <<upto, loaded, selfFlush, lastAdvance, window, wait>>
      /\ drained' => drained
      /\ \A v \in Views :
            /\ frontier'[v] = FrontierAfter(v)
            /\ status'[v] = IF v \in Failing /\ GivesUp(v) THEN "stale" ELSE status[v]
    BY <1>0 DEF Apply, memoryVars, StreamTypeOK
<1>2. /\ Flushed \in Nat /\ Flushed' \in Nat /\ Flushed <= Flushed'
      /\ upto \in Nat /\ upto <= Flushed /\ window.from \in Nat /\ lastAdvance \in Nat
      /\ \A v \in Views : frontier[v] \in Nat
    BY <1>0, PositionsAre
<1>3. Flushed' > Flushed \/ UNCHANGED <<status, frontier>>
  <2>1. UNCHANGED <<status, frontier>> \/ wal' = Append(wal, Bookkeeping)
      BY DEF Apply
  <2>2. \A n \in Nat : n + 1 > n
      OBVIOUS
  <2>. QED
      BY <1>0, <2>1, <2>2, AppendMoves
<1>4. ASSUME NEW v \in Views
      PROVE  \/ frontier'[v] = frontier[v]
             \/ /\ v \in loaded /\ frontier'[v] \in Absorbed(v)
                /\ frontier'[v] \in Nat /\ frontier'[v] > frontier[v] /\ frontier'[v] <= upto
  <2>1. CASE v \in loaded /\ Absorbed(v) # {}
    <3>1. frontier'[v] \in Absorbed(v)
        BY <1>0, <1>1, <2>1, AbsorbedIs DEF FrontierAfter
    <3>2. frontier'[v] \in Window(upto) /\ frontier'[v] > frontier[v]
        BY <3>1 DEF Absorbed
    <3>. QED
        BY <2>1, <3>1, <3>2 DEF Window, Lsns
  <2>2. CASE ~ (v \in loaded /\ Absorbed(v) # {})
      BY <1>1, <2>2 DEF FrontierAfter
  <2>. QED
      BY <2>1, <2>2
<1>5. \A v \in Views : frontier'[v] \in Nat /\ frontier[v] <= frontier'[v]
  <2>1. \A a, b \in Nat : (a = b \/ b > a) => a <= b
      OBVIOUS
  <2>. QED
      BY <1>2, <1>4, <2>1
<1>6. FrontiersLogged'
  <2>1. ASSUME NEW v \in Views PROVE frontier'[v] = 0 \/ frontier'[v] < Flushed'
    <3>1. CASE frontier'[v] = frontier[v]
        BY <1>2, <3>1 DEF FrontiersLogged
    <3>2. CASE frontier'[v] > frontier[v] /\ frontier'[v] <= upto
      <4>1. ~ UNCHANGED frontier
          BY <1>2, <1>5, <3>2
      <4>. QED
          BY <1>2, <1>3, <1>5, <3>2, <4>1
    <3>. QED
        BY <1>4, <3>1, <3>2
  <2>2. wait.pc = "check" => wait.seen <= frontier'[wait.view]
    <3>. SUFFICES ASSUME wait.pc = "check" PROVE wait.seen <= frontier'[wait.view]
        OBVIOUS
    <3>1. wait.view \in Views /\ wait.seen \in Nat /\ wait.seen <= frontier[wait.view]
        BY <1>0 DEF StreamTypeOK, Position, FrontiersLogged
    <3>2. /\ frontier[wait.view] \in Nat /\ frontier'[wait.view] \in Nat
          /\ frontier[wait.view] <= frontier'[wait.view]
        BY <1>2, <1>5, <3>1
    <3>. QED
        BY <3>1, <3>2
  <2>. QED
      BY <1>1, <2>1, <2>2 DEF FrontiersLogged
<1>7. LiveIsPast'
  <2>1. ASSUME NEW v \in Views, status'[v] = "live"
        PROVE  frontier'[v] >= lastAdvance /\ frontier'[v] >= window.from
    <3>1. status[v] = "live"
        BY <1>1, <2>1
    <3>2. frontier[v] >= lastAdvance /\ frontier[v] >= window.from
        BY <3>1 DEF LiveIsPast
    <3>. QED
        BY <1>2, <1>5, <3>2
  <2>. QED
      BY <1>1, <2>1 DEF LiveIsPast
<1>8. QueueSeen'
    BY <1>1 DEF QueueSeen
<1>9. AheadIsReadable'
  <2>1. \A v \in Views :
          (lastAdvance > 0 /\ Flushed = selfFlush /\ frontier[v] >= lastAdvance => Readable(v))'
      BY <1>0, <1>1, <1>3, MemoryKept DEF AheadIsReadable
  <2>2. ASSUME NEW v \in Views, drained
        PROVE  frontier'[v] = 0 \/ frontier'[v] < upto \/ Readable(v)'
    <3>1. frontier[v] = 0 \/ frontier[v] < upto
        BY <1>1, <2>2 DEF AheadIsReadable
    <3>2. CASE frontier'[v] = frontier[v]
        BY <3>1, <3>2
    <3>3. CASE v \in loaded /\ frontier'[v] \in Absorbed(v)
      <4>1. Readable(v)
          BY <1>1, <3>3 DEF LiveIsPast
      <4>2. CASE v \in Failing /\ GivesUp(v)
        <5>1. PICK j \in Fatal(v) : TRUE
            BY <4>2 DEF Failing
        <5>2. frontier'[v] < j /\ j \in Nat /\ j <= upto
            BY <3>3, <5>1 DEF Absorbed, Fatal, Window, Lsns
        <5>. QED
            BY <1>2, <1>5, <5>2
      <4>3. CASE ~ (v \in Failing /\ GivesUp(v))
          BY <1>1, <4>1, <4>3 DEF Readable, Pending
      <4>. QED
          BY <4>2, <4>3
    <3>. QED
        BY <1>4, <3>2, <3>3
  <2>. QED
      BY <1>1, <2>1, <2>2 DEF AheadIsReadable
<1>10. WindowSound'
  <2>1. ASSUME NEW v \in Views, window.from # 0, frontier'[v] >= window.from
        PROVE  frontier[v] >= window.from /\ frontier'[v] >= frontier[v]
    <3>1. CASE frontier'[v] = frontier[v]
        BY <1>2, <2>1, <3>1
    <3>2. CASE v \in loaded
        BY <1>1, <1>2, <1>5, <3>2 DEF LiveIsPast
    <3>. QED
        BY <1>4, <3>1, <3>2
  <2>. QED
      BY <1>0, <1>1, <2>1, WindowStays
<1>. QED
    BY <1>6, <1>7, <1>8, <1>9, <1>10

\* The slot moves, which no frontier, no window and no status notices.
LEMMA SlotMovesWindow ==
    ASSUME SlotInv, WindowPlaced, AdvanceSlot \/ IdleSlot
    PROVE  WindowPlaced'
<1>. USE DEF WindowPlaced
<1>0. StreamTypeOK /\ StreamTypeOK' /\ WalKeeps
    BY AdvanceType DEF SlotInv, TypeInv
<1>1. /\ UNCHANGED <<wal, status, frontier, selfFlush, lastAdvance, window, wait>>
      /\ pc' \in {"poll", "idle", "idleCommit"}
      /\ pc' # "poll" => /\ upto' = upto
                         /\ (pc = "advance" /\ drained) \/ pc = "idle"
    BY DEF AdvanceSlot, IdleSlot, catalogVars, roundVars, memoryVars
<1>2. Flushed' = Flushed /\ \A v \in Views : Readable(v)' <=> Readable(v)
    BY <1>1 DEF Flushed, Readable, Pending
<1>3. FrontiersLogged' /\ LiveIsPast' /\ QueueSeen'
    BY <1>1, <1>2 DEF FrontiersLogged, LiveIsPast, QueueSeen
<1>4. AheadIsReadable'
    BY <1>1, <1>2 DEF AheadIsReadable
<1>5. WindowSound'
    BY <1>1 DEF WindowSound, Clear, Lsns, Decoded
<1>. QED
    BY <1>3, <1>4, <1>5

\* The idle advance takes every live view to the end of the peek.
LEMMA IdleCommitWindow ==
    ASSUME SlotInv, WindowPlaced, IdleCommit
    PROVE  WindowPlaced'
<1>. USE DEF WindowPlaced
<1>0. StreamTypeOK /\ StreamTypeOK' /\ WalKeeps /\ wal \in Seq(Entry)
    BY AdvanceType DEF SlotInv, TypeInv, StreamTypeOK
<1>1. /\ pc = "idleCommit" /\ pc' = "note"
      /\ UNCHANGED <<status, upto, selfFlush, lastAdvance, window, wait>>
      /\ \A v \in Views : frontier'[v] = IF status[v] = "live" /\ frontier[v] < upto
                                         THEN upto ELSE frontier[v]
      /\ UNCHANGED frontier \/ wal' = Append(wal, Bookkeeping)
    BY DEF IdleCommit, roundVars, memoryVars
<1>2. /\ Flushed \in Nat /\ Flushed' \in Nat /\ Flushed <= Flushed'
      /\ upto \in Nat /\ upto <= Flushed /\ window.from \in Nat /\ lastAdvance \in Nat
      /\ \A v \in Views : frontier[v] \in Nat
    BY <1>0, PositionsAre
<1>3. /\ Flushed' > Flushed \/ UNCHANGED <<status, frontier>>
      /\ \A v \in Views : Readable(v)' <=> Readable(v)
  <2>1. \A n \in Nat : n + 1 > n
      OBVIOUS
  <2>. QED
      BY <1>0, <1>1, <2>1, AppendMoves DEF Readable, Pending
<1>4. \A v \in Views : /\ frontier'[v] \in Nat /\ frontier[v] <= frontier'[v]
                       /\ frontier'[v] = frontier[v] \/ (status[v] = "live" /\ frontier'[v] = upto)
                       /\ status[v] = "live" => frontier'[v] >= upto
    BY <1>1, <1>2
<1>5. FrontiersLogged'
  <2>1. ASSUME NEW v \in Views PROVE frontier'[v] = 0 \/ frontier'[v] < Flushed'
    <3>1. CASE frontier'[v] = frontier[v]
        BY <1>2, <3>1 DEF FrontiersLogged
    <3>2. CASE frontier'[v] # frontier[v] /\ frontier'[v] = upto
      <4>1. ~ UNCHANGED frontier
          BY <3>2
      <4>. QED
          BY <1>2, <1>3, <3>2, <4>1
    <3>. QED
        BY <1>4, <3>1, <3>2
  <2>2. wait.pc = "check" => wait.seen <= frontier'[wait.view]
    <3>. SUFFICES ASSUME wait.pc = "check" PROVE wait.seen <= frontier'[wait.view]
        OBVIOUS
    <3>1. wait.view \in Views /\ wait.seen \in Nat /\ wait.seen <= frontier[wait.view]
        BY <1>0 DEF StreamTypeOK, Position, FrontiersLogged
    <3>2. /\ frontier[wait.view] \in Nat /\ frontier'[wait.view] \in Nat
          /\ frontier[wait.view] <= frontier'[wait.view]
        BY <1>2, <1>4, <3>1
    <3>. QED
        BY <3>1, <3>2
  <2>. QED
      BY <1>1, <2>1, <2>2 DEF FrontiersLogged
<1>6. LiveIsPast'
  <2>1. ASSUME NEW v \in Views, status[v] = "live"
        PROVE  frontier'[v] >= lastAdvance /\ frontier'[v] >= window.from /\ frontier'[v] >= upto
    <3>1. frontier[v] >= lastAdvance /\ frontier[v] >= window.from
        BY <2>1 DEF LiveIsPast
    <3>. QED
        BY <1>2, <1>4, <2>1, <3>1
  <2>. QED
      BY <1>1, <2>1 DEF LiveIsPast
<1>7. QueueSeen'
    BY <1>1 DEF QueueSeen
<1>8. AheadIsReadable'
  <2>1. \A v \in Views :
          (lastAdvance > 0 /\ Flushed = selfFlush /\ frontier[v] >= lastAdvance => Readable(v))'
      BY <1>0, <1>1, <1>3, MemoryKept DEF AheadIsReadable
  <2>2. ASSUME NEW v \in Views
        PROVE  frontier'[v] = 0 \/ frontier'[v] < upto \/ Readable(v)'
    <3>1. CASE frontier'[v] = frontier[v]
        BY <1>1, <1>3, <3>1 DEF AheadIsReadable
    <3>2. CASE status[v] = "live"
        BY <1>3, <3>2 DEF Readable
    <3>. QED
        BY <1>4, <3>1, <3>2
  <2>. QED
      BY <1>1, <2>1, <2>2 DEF AheadIsReadable
<1>9. WindowSound'
  <2>1. ASSUME NEW v \in Views, window.from # 0, frontier'[v] >= window.from
        PROVE  frontier[v] >= window.from /\ frontier'[v] >= frontier[v]
    <3>1. CASE frontier'[v] = frontier[v]
        BY <1>2, <2>1, <3>1
    <3>2. CASE status[v] = "live"
        BY <1>2, <1>4, <3>2 DEF LiveIsPast
    <3>. QED
        BY <1>4, <3>1, <3>2
  <2>. QED
      BY <1>0, <1>1, <2>1, WindowStays
<1>. QED
    BY <1>5, <1>6, <1>7, <1>8, <1>9

\* The worker notes what it has seen and publishes the window; what other
\* sessions committed meanwhile is not in it.
LEMMA NoteWindow ==
    ASSUME SlotInv, WindowPlaced, NoteFlush
    PROVE  WindowPlaced'
<1>. USE DEF WindowPlaced
<1>0. StreamTypeOK /\ StreamTypeOK' /\ WalKeeps /\ wal \in Seq(Entry)
    BY AdvanceType DEF SlotInv, TypeInv, StreamTypeOK
<1>1. /\ pc = "note" /\ pc' = "poll" /\ UNCHANGED <<wal, status, frontier, wait>>
      /\ selfFlush' = Flushed /\ lastAdvance' = upto
      /\ window'.from = upto /\ window'.to = upto
    BY DEF NoteFlush, NotedWindow, catalogVars
<1>2. /\ Flushed' = Flushed /\ \A v \in Views : Readable(v)' <=> Readable(v)
      /\ upto \in Nat /\ \A v \in Views : frontier[v] \in Nat
    BY <1>0, <1>1, PositionsAre DEF Flushed, Readable, Pending
<1>3. FrontiersLogged'
    BY <1>1, <1>2 DEF FrontiersLogged
<1>4. LiveIsPast' /\ QueueSeen'
    BY <1>1 DEF LiveIsPast, QueueSeen
<1>5. AheadIsReadable'
  <2>1. ASSUME NEW v \in Views, upto > 0, frontier[v] >= upto PROVE Readable(v)
    <3>1. frontier[v] = 0 \/ frontier[v] < upto \/ Readable(v)
        BY <1>1 DEF AheadIsReadable
    <3>2. frontier[v] \in Nat /\ upto \in Nat
        BY <1>2
    <3>. QED
        BY <2>1, <3>1, <3>2
  <2>. QED
      BY <1>1, <1>2, <2>1 DEF AheadIsReadable
<1>6. WindowSound'
  <2>1. ASSUME NEW v \in Views, frontier[v] >= upto, NEW i \in Lsns, frontier[v] < i, i <= upto
        PROVE  FALSE
      BY <1>2, <2>1 DEF Lsns
  <2>. QED
      BY <1>1, <2>1 DEF WindowSound, Clear, Lsns
<1>. QED
    BY <1>3, <1>4, <1>5, <1>6

\* An error ends the round; a restart forgets the memory, a crash the window and
\* the waiting session.
LEMMA CrashWindow ==
    ASSUME SlotInv, WindowPlaced, RoundError \/ WorkerRestart \/ ServerCrash
    PROVE  WindowPlaced'
<1>. USE DEF WindowPlaced
<1>0. StreamTypeOK /\ StreamTypeOK' /\ WalKeeps
    BY CrashType DEF SlotInv, TypeInv
<1>1. /\ UNCHANGED <<wal, status, frontier>> /\ pc' = "poll"
      /\ UNCHANGED <<selfFlush, lastAdvance>> \/ lastAdvance' = 0
      /\ UNCHANGED <<window, wait>> \/ (window'.from = 0 /\ wait'.pc = "off")
    BY DEF RoundError, WorkerRestart, ServerCrash, CrashPoint, catalogVars, memoryVars, NoWindow,
       NoWait
<1>2. /\ Flushed' = Flushed /\ \A v \in Views : Readable(v)' <=> Readable(v)
      /\ \A v \in Views : frontier[v] \in Nat
    BY <1>0, <1>1, PositionsAre DEF Flushed, Readable, Pending
<1>3. FrontiersLogged' /\ LiveIsPast' /\ QueueSeen'
  <2>1. FrontiersLogged' /\ QueueSeen'
      BY <1>1, <1>2 DEF FrontiersLogged, QueueSeen
  <2>2. \A v \in Views : frontier[v] >= 0
      BY <1>2
  <2>. QED
      BY <1>1, <2>1, <2>2 DEF LiveIsPast
<1>4. AheadIsReadable'
    BY <1>1, <1>2 DEF AheadIsReadable
<1>5. WindowSound'
    BY <1>1 DEF WindowSound, Clear, Lsns, Decoded
<1>. QED
    BY <1>3, <1>4, <1>5

\* The inductive invariant of the idle window holds in every execution (worker.rs
\* run_round, idle.rs): whatever has reached the start of the published range
\* reflects its end.
THEOREM WindowIsPlaced == ASSUME CalmLag PROVE StreamSpec => [](SlotInv /\ WindowPlaced)
<1>1. ASSUME StreamInit PROVE SlotInv /\ WindowPlaced
  <2>1. TypeInv
      BY <1>1, InitType
  <2>2. /\ \A v \in Views : status[v] = "absent" /\ frontier[v] = 0
        /\ pc = "poll" /\ wait.pc = "off" /\ window.from = 0 /\ lastAdvance = 0
      BY <1>1 DEF StreamInit, NoWait, NoWindow
  <2>3. SlotInv
      BY <2>1, <2>2 DEF SlotInv, SlotBacks, AdvanceCovered, Pending
  <2>. QED
      BY <2>2, <2>3 DEF WindowPlaced, FrontiersLogged, LiveIsPast, QueueSeen, AheadIsReadable,
         WindowSound
<1>2. ASSUME SlotInv, WindowPlaced, [StreamNext]_streamVars PROVE SlotInv' /\ WindowPlaced'
  <2>1. SlotInv'
      BY <1>2, SlotInvKept
  <2>2. CASE Sessions \/ WaitStep
      BY <1>2, <2>1, <2>2, SessionsWindow
  <2>3. CASE LoadPending \/ BeginBuild \/ EndBuild \/ BuildFails
      BY <1>2, <2>1, <2>3, PopulationWindow
  <2>4. CASE NoSlotYet \/ DropSlot \/ MarkStale
      BY <1>2, <2>1, <2>4, LagWindow
  <2>5. CASE Peek \/ PeekNothing
      BY <1>2, <2>1, <2>5, PeekWindow
  <2>6. CASE Apply
      BY <1>2, <2>1, <2>6, ApplyWindow
  <2>7. CASE AdvanceSlot \/ IdleSlot
      BY <1>2, <2>1, <2>7, SlotMovesWindow
  <2>8. CASE IdleCommit
      BY <1>2, <2>1, <2>8, IdleCommitWindow
  <2>9. CASE NoteFlush
      BY <1>2, <2>1, <2>9, NoteWindow
  <2>10. CASE RoundError \/ WorkerRestart \/ ServerCrash
      BY <1>2, <2>1, <2>10, CrashWindow
  <2>11. CASE UNCHANGED streamVars
    <3>1. UNCHANGED <<wal, status, frontier, pc, todo, grp, point, upto, drained, loaded,
                      selfFlush, lastAdvance, window, wait>>
        BY <2>11 DEF streamVars, catalogVars, workerVars, buildVars, roundVars, memoryVars
    <3>2. FrontiersLogged' /\ LiveIsPast' /\ QueueSeen' /\ AheadIsReadable'
        BY <1>2, <3>1 DEF WindowPlaced, FrontiersLogged, LiveIsPast, QueueSeen, AheadIsReadable,
           Readable, Pending, Flushed
    <3>3. WindowSound'
        BY <1>2, <3>1 DEF WindowPlaced, WindowSound, Clear, Lsns, Decoded
    <3>. QED
        BY <2>1, <3>2, <3>3 DEF WindowPlaced
  <2>. QED
      BY <1>2, <2>2, <2>3, <2>4, <2>5, <2>6, <2>7, <2>8, <2>9, <2>10, <2>11
         DEF StreamNext, WorkerStep
<1>. QED
    BY <1>1, <1>2, PTL DEF StreamSpec

\* When nabla.wait_for(view, lsn) returns true, the view has absorbed every change
\* of its tables up to lsn (api.rs wait_for, idle.rs effective_frontier), although
\* it reads the frontier and the window one after the other.
THEOREM WaitsAreRight == ASSUME CalmLag PROVE StreamSpec => WaitIsRight
<1>1. ASSUME SlotInv, WindowPlaced, WaitChecks, wait'.pc = "off", NEW t \in Rels[wait.view]
      PROVE  Untouched(t, frontier[wait.view], wait.lsn)
  <2>. DEFINE v == wait.view
  <2>1. /\ wait.pc = "check" /\ v \in Views /\ wait.seen \in Nat /\ wait.lsn \in Nat
        /\ frontier[v] \in Nat /\ wait.seen <= frontier[v]
        /\ window.from \in Nat /\ window.to \in Nat
      BY <1>1 DEF WaitChecks, SlotInv, TypeInv, StreamTypeOK, Position, WindowPlaced,
         FrontiersLogged
  <2>2. Effective(wait.seen) >= wait.lsn
    <3>1. [wait EXCEPT !.pc = "read", !.seen = 0].pc = "read"
        BY <1>1 DEF SlotInv, TypeInv, StreamTypeOK
    <3>. QED
        BY <1>1, <3>1 DEF WaitChecks
  <2>3. SUFFICES ASSUME NEW i \in Lsns, frontier[v] < i, i <= wait.lsn PROVE ~ Decoded(i)
    <3>1. t # NoTable
        BY <2>1, StreamAssumption
    <3>. QED
        BY <2>3, <3>1 DEF Untouched, Decoded
  <2>4. i \in Nat
      BY DEF Lsns
  <2>5. /\ window.from # 0 /\ wait.seen >= window.from
        /\ window.to >= wait.lsn
      BY <2>1, <2>2, <2>3, <2>4 DEF Effective
  <2>6. frontier[v] >= window.from /\ i <= window.to
      BY <2>1, <2>3, <2>4, <2>5
  <2>7. Clear(frontier[v], window.to)
      BY <1>1, <2>1, <2>5, <2>6 DEF WindowPlaced, WindowSound
  <2>. QED
      BY <2>3, <2>6, <2>7 DEF Clear
<1>2. ASSUME SlotInv, WindowPlaced, [StreamNext]_streamVars
      PROVE  WaitChecks /\ wait'.pc = "off" =>
                \A t \in Rels[wait.view] : Untouched(t, frontier[wait.view], wait.lsn)
    BY <1>1, <1>2
<1>. QED
    BY <1>2, WindowIsPlaced, PTL DEF WaitIsRight, StreamSpec
=============================================================================
