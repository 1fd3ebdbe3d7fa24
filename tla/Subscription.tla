---------------------------- MODULE Subscription ----------------------------
(***************************************************************************)
(* The Rust client's Subscription (clients/rust/nabla-client): it reads    *)
(* the view and its cursor in one snapshot, then follows nabla.changes,    *)
(* groups the rows into source transactions, hands them out one per call   *)
(* of next(), and starts over whenever the server says its cursor is no    *)
(* longer continuable or the connection is lost.                           *)
(*                                                                         *)
(* NOTIFY only wakes the client up early: a fetch may happen at any time,  *)
(* as it does when the fallback timer fires.                               *)
(***************************************************************************)
EXTENDS DeltaLog

CONSTANTS
    Batch,       \* Options::batch
    MaxLosses    \* bound: lost connections

ASSUME SubscriptionAssumption ==
    /\ Batch \in Nat \ {0}
    /\ MaxLosses \in Nat

VARIABLES
    cstate,      \* conn and state: "down", "bootstrap", "reading", "following"
    cepoch, cursor,
    tail,        \* rows held back: their transaction may continue
    queue,       \* events ready to hand out (the field pending)
    snap,        \* what the bootstrap transaction under way has read
    copy,        \* the application's copy of the view, made of the events
    losses       \* connections lost so far

clientVars == <<cstate, cepoch, cursor, tail, queue, snap, copy, losses>>
subVars == <<serverVars, clientVars>>

NoRows == [x \in ShownRows |-> 0]
NoSnap == [epoch |-> 0, cursor |-> 0, rows |-> NoRows]
Kinds == {"snapshot", "transaction", "resync"}
Event == [kind : Kinds, epoch : Nat, cursor : Nat, rows : [ShownRows -> Nat],
          deltas : Seq({"D", "I"} \X ShownRows)]
Resync == [kind |-> "resync", epoch |-> 0, cursor |-> 0, rows |-> NoRows, deltas |-> <<>>]

\* open(): connected, LISTENing, nothing read yet.
SubInit ==
    /\ LogInit
    /\ cstate = "bootstrap"
    /\ cepoch = 0 /\ cursor = 0
    /\ tail = <<>> /\ queue = <<>>
    /\ snap = NoSnap
    /\ copy = [epoch |-> 0, seq |-> 0, rows |-> NoRows]
    /\ losses = 0

-----------------------------------------------------------------------------
(* next(): events that are ready go out first.                             *)

\* The application applies the deltas of one transaction to its copy.
ApplyDelta(rows, d) == [rows EXCEPT ![d[2]] = IF d[1] = "I" THEN @ + 1 ELSE @ - 1]

Applied(rows, deltas) == FoldLeft(ApplyDelta, rows, deltas)

Adopt(e) ==
    CASE e.kind = "snapshot" -> [epoch |-> e.epoch, seq |-> e.cursor, rows |-> e.rows]
      [] e.kind = "transaction" ->
            [copy EXCEPT !.seq = e.cursor, !.rows = Applied(@, e.deltas)]
      [] OTHER -> copy

HandOut ==
    /\ queue # <<>>
    /\ copy' = Adopt(Head(queue))
    /\ cursor' = IF Head(queue).kind = "resync" THEN cursor ELSE Head(queue).cursor
    /\ queue' = Tail(queue)
    /\ UNCHANGED <<cstate, cepoch, tail, snap, losses>>

-----------------------------------------------------------------------------
(* The connection.                                                         *)

\* A loss shows when the connection is next used, so with nothing to hand out.
LoseConnection ==
    /\ cstate # "down" /\ queue = <<>>
    /\ losses < MaxLosses
    /\ losses' = losses + 1
    /\ cstate' = "down"
    /\ tail' = <<>>
    /\ snap' = NoSnap
    /\ UNCHANGED <<cepoch, cursor, queue, copy>>

Reconnect ==
    /\ cstate = "down" /\ queue = <<>>
    /\ cstate' = "bootstrap"
    /\ tail' = <<>>
    /\ queue' = <<Resync>>
    /\ UNCHANGED <<cepoch, cursor, snap, copy, losses>>

-----------------------------------------------------------------------------
(* Bootstrap: one REPEATABLE READ transaction.                             *)

\* Its snapshot.  A view that is being built, or failed, changes nothing here:
\* the caller of next() waits, or gets the error and may call again.
BootstrapReads ==
    /\ cstate = "bootstrap" /\ queue = <<>>
    /\ \/ /\ status = "live"
          /\ snap' = [epoch |-> epoch, cursor |-> lastSeq, rows |-> ShownBag(content)]
          /\ cstate' = "reading"
          /\ UNCHANGED queue
       \/ /\ status = "stale"
          /\ queue' = <<Resync>>
          /\ UNCHANGED <<cstate, snap>>
       \/ /\ status \in {"initializing", "refreshing", "failed"}
          /\ UNCHANGED <<cstate, queue, snap>>
    /\ UNCHANGED <<cepoch, cursor, tail, copy, losses>>

SnapshotRows_Own == ShownBag(content)
SnapshotRows == snap.rows

\* The server may have moved on by the time its answer arrives.
BootstrapEnds ==
    /\ cstate = "reading"
    /\ cepoch' = snap.epoch
    /\ cursor' = snap.cursor
    /\ tail' = <<>>
    /\ queue' = <<[kind |-> "snapshot", epoch |-> snap.epoch, cursor |-> snap.cursor,
                   rows |-> SnapshotRows, deltas |-> <<>>]>>
    /\ cstate' = "following"
    /\ snap' = NoSnap
    /\ UNCHANGED <<copy, losses>>

-----------------------------------------------------------------------------
(* Following: one call of nabla.changes.                                   *)

FetchAfter == IF tail = <<>> THEN cursor ELSE Last(tail).seq

\* Possibly more after these rows?  (Always, for a batch that is not positive.)
Full_Always(rows) == TRUE
Full(rows) == Len(rows) >= Batch

\* Consecutive rows of one transaction, in order.
Groups(rows) ==
    LET ends == Ascending({rows[k].lsn : k \in DOMAIN rows})
    IN  [n \in DOMAIN ends |-> BySeq({r \in Range(rows) : r.lsn = ends[n]})]

TransactionEvent(g) ==
    [kind |-> "transaction", epoch |-> cepoch, cursor |-> Last(g).seq, rows |-> NoRows,
     deltas |-> [k \in DOMAIN g |-> <<g[k].op, Shown(g[k].row)>>]]

\* A gap in the numbers is reported as a protocol error and changes nothing.
Contiguous(rows) == \A k \in DOMAIN rows : rows[k].seq = FetchAfter + k

TakePage(rows) ==
    LET groups == Groups(tail \o rows)
        held == Full(rows) /\ groups # <<>>
        whole == IF held THEN Front(groups) ELSE groups
    IN  /\ tail' = IF held THEN Last(groups) ELSE <<>>
        /\ queue' = [n \in DOMAIN whole |-> TransactionEvent(whole[n])]
        /\ UNCHANGED cstate

StartOver ==
    /\ queue' = <<Resync>>
    /\ tail' = <<>>
    /\ cstate' = "bootstrap"

Fetch ==
    /\ cstate = "following" /\ queue = <<>>
    /\ \E verdict \in {Verdict(FetchAfter, cepoch)}, page \in {Page(FetchAfter, Batch)} :
        \/ /\ verdict = "ok" /\ Contiguous(page)
           /\ TakePage(page)
        \/ /\ verdict \in {"stale", "epoch_changed", "lagged"}
           /\ StartOver
        \/ /\ verdict = "failed" \/ (verdict = "ok" /\ ~Contiguous(page))
           /\ UNCHANGED <<tail, queue, cstate>>
    /\ UNCHANGED <<cepoch, cursor, snap, copy, losses>>

-----------------------------------------------------------------------------

ClientNext ==
    \/ HandOut
    \/ LoseConnection
    \/ Reconnect
    \/ BootstrapReads
    \/ BootstrapEnds
    \/ Fetch

SubNext ==
    \/ ServerNext /\ UNCHANGED clientVars
    \/ ClientNext /\ UNCHANGED serverVars

SubSpec == SubInit /\ [][SubNext]_subVars

\* The application keeps calling next(), whose timers fire and whose reconnect
\* eventually succeeds.  Nothing is asked of the server.
FairSubSpec ==
    /\ SubSpec
    /\ WF_subVars(HandOut /\ UNCHANGED serverVars)
    /\ WF_subVars(Reconnect /\ UNCHANGED serverVars)
    /\ WF_subVars(BootstrapReads /\ UNCHANGED serverVars)
    /\ WF_subVars(BootstrapEnds /\ UNCHANGED serverVars)
    /\ WF_subVars(Fetch /\ UNCHANGED serverVars)

-----------------------------------------------------------------------------
(* Properties.                                                             *)

\* Types.  The one that a bug could break: the copy never holds a negative
\* number of a row, so every D names a row the application has, and no more of
\* one than there are identities.
SubTypeOK ==
    /\ status \in LogStatuses /\ epoch \in Epochs
    /\ content \in Contents
    /\ log \subseteq LoggedRow
    /\ cstate \in {"down", "bootstrap", "reading", "following"}
    /\ cepoch \in Epochs \cup {0} /\ cursor \in 0..lastSeq
    /\ \A k \in DOMAIN tail : tail[k] \in LoggedRow
    /\ \A k \in DOMAIN queue : queue[k].kind \in Kinds /\ queue[k].cursor \in 0..lastSeq
    /\ copy.rows \in [ShownRows -> 0..Cardinality(Ids)]

\* The application's copy is what the view shows now.
InStep == copy.epoch = epoch /\ copy.seq = lastSeq /\ copy.rows = ShownBag(content)

\* README "Subscribing from a client", step 3 ("a lost notification cannot stall you"):
\* once nothing changes any more, the application has caught up, whatever was
\* lost, collected, rebuilt or refused before; unless the view is not live.
CopyCatchesUp == <>[](status = "live" => InStep)

\* The number of the state of epoch e that has the number n.
StateIndex(e, n) == CHOOSE k \in DOMAIN past[e] : past[e][k].seq = n

Followed == INSTANCE FollowedView WITH
    FirstCopy <- NoRows,
    shows <- [e \in Epochs |-> [k \in DOMAIN past[e] |-> ShownBag(past[e][k].content)]],
    at <- IF copy.epoch = 0 THEN <<0, 0>>
          ELSE <<copy.epoch, StateIndex(copy.epoch, copy.seq)>>,
    copyOf <- copy.rows

\* Following a view keeps its promise: the copy is always a state the view
\* showed, no transaction is skipped, split or applied twice, and starting over
\* never goes back.
ImplementsFollowedView == Followed!FVSpec

-----------------------------------------------------------------------------
(* The inductive invariant.                                                *)

Snap == [epoch : Nat, cursor : Nat, rows : [ShownRows -> Nat]]
Copy == [epoch : Nat, seq : Nat, rows : [ShownRows -> Nat]]

\* These rows are what the view showed at this number of epoch e.
WasShown(e, seq, rows) ==
    /\ e \in 1..epoch
    /\ \E k \in DOMAIN past[e] :
        past[e][k].seq = seq /\ ShownBag(past[e][k].content) = rows

\* Adopting the state with this number does not set the copy back.
NotBack(e, seq) == copy.epoch < e \/ (copy.epoch = e /\ copy.seq <= seq)

\* The event is the transaction that leads on from the k-th state of the
\* client's epoch.
LeadsOn(event, k) ==
    LET states == past[cepoch]
    IN  /\ event.kind = "transaction"
        /\ k + 1 \in DOMAIN states
        /\ event.cursor = states[k + 1].seq
        /\ Applied(ShownBag(states[k].content), event.deltas) = ShownBag(states[k + 1].content)

\* The rows held back are a whole transaction, the one that leads on from the
\* k-th state.
TailFits(k) ==
    tail # <<>> =>
        /\ LeadsOn(TransactionEvent(tail), k)
        /\ \A n \in DOMAIN tail :
            tail[n].seq = past[cepoch][k].seq + n /\ tail[n].lsn = Last(tail).lsn
        /\ cepoch = epoch =>
            /\ Last(tail).lsn <= frontier
            /\ \A r \in log : r.seq > Last(tail).seq => r.lsn > Last(tail).lsn

\* A snapshot is ready to be handed out.
HasSnapshot ==
    /\ tail = <<>> /\ Len(queue) = 1
    /\ queue[1].kind = "snapshot" /\ queue[1].epoch = cepoch /\ queue[1].cursor = cursor
    /\ WasShown(cepoch, cursor, queue[1].rows)
    /\ NotBack(cepoch, cursor)

\* The copy is the k-th state, and what is ready or held back leads on from it.
FollowsFrom(k) ==
    /\ copy.epoch = cepoch /\ copy.seq = cursor
    /\ past[cepoch][k].seq = cursor /\ ShownBag(past[cepoch][k].content) = copy.rows
    /\ \A n \in DOMAIN queue : LeadsOn(queue[n], k + n - 1)
    /\ TailFits(k + Len(queue))

ClientTypeOK ==
    /\ cstate \in {"down", "bootstrap", "reading", "following"}
    /\ cepoch \in 0..epoch /\ cursor \in 0..lastSeq
    /\ tail \in Seq(LoggedRow) /\ queue \in Seq(Event)
    /\ snap \in Snap /\ copy \in Copy

ClientInv ==
    /\ ClientTypeOK
    /\ copy.epoch # 0 => WasShown(copy.epoch, copy.seq, copy.rows)
    /\ copy.epoch = 0 => copy.rows = NoRows
    /\ cstate # "following" => tail = <<>> /\ queue \in {<<>>, <<Resync>>}
    /\ cstate = "reading" =>
        queue = <<>> /\ WasShown(snap.epoch, snap.cursor, snap.rows)
                     /\ NotBack(snap.epoch, snap.cursor)
    /\ cstate = "following" =>
        HasSnapshot \/ (cepoch # 0 /\ \E k \in DOMAIN past[cepoch] : FollowsFrom(k))

\* What the subscriber has, at every step, is what the view showed and the
\* transactions that followed; and the log it reads from fits what the view
\* showed.
SubInv == LogInv /\ ClientInv
=============================================================================
