------------------------------ MODULE DeltaLog ------------------------------
(***************************************************************************)
(* One view's delta log on the server: the rounds that number and append   *)
(* the net deltas of each source transaction (worker.rs apply_round), the  *)
(* retention, the rebuilds that clear the log and start a new epoch        *)
(* (populate.rs build), refresh(), and what nabla.status and nabla.changes *)
(* answer a subscriber (api.rs).  Worker decides WHAT a view contains and  *)
(* when it fails; here the content is arbitrary and the outcomes that      *)
(* Worker explains (stale, failed) are free choices.                       *)
(***************************************************************************)
EXTENDS Netting

CONSTANTS
    Retain,       \* nabla.retain_deltas
    MaxTxs,       \* bound: source transactions absorbed
    MaxWrites,    \* bound: rows one transaction writes
    MaxRefreshes  \* bound: calls of refresh()

ASSUME DeltaLogAssumption ==
    /\ Retain \in Nat \ {0}
    /\ MaxTxs \in Nat
    /\ MaxWrites \in Nat
    /\ MaxRefreshes \in Nat

VARIABLES
    \* the view's row of nabla.views, and its storage table
    status, populated, epoch, frontier, lastSeq, content,
    log,        \* its rows of nabla.deltas
    round,      \* the worker's uncommitted round, as far as this view goes
    refreshes,  \* calls of refresh() so far
    past        \* history, read by properties only: per epoch, the contents
                \* subscribers can tell apart and the seq each is known by

viewVars == <<status, populated, epoch, frontier, lastSeq, content>>
serverVars == <<viewVars, log, round, refreshes, past>>

LogStatuses == {"initializing", "refreshing", "live", "stale", "failed"}
Epochs == 1 .. MaxRefreshes + 1
LoggedRow == [seq : Nat, lsn : Nat, op : {"D", "I"}, id : Ids, row : Rows]
PastState == [seq : Nat, content : Contents]

Round == [on : BOOLEAN, frontier : Nat, seq : Nat, content : Contents,
          pending : SUBSET LoggedRow, states : Seq(PastState)]
NoRound == [on |-> FALSE, frontier |-> 0, seq |-> 0, content |-> [i \in Ids |-> NoRow],
            pending |-> {}, states |-> <<>>]

LogInit ==
    /\ status = "initializing" /\ populated = FALSE /\ epoch = 1
    /\ frontier = 0 /\ lastSeq = 0
    /\ content = [i \in Ids |-> NoRow]
    /\ log = {}
    /\ round = NoRound
    /\ refreshes = 0
    /\ past = [e \in Epochs |-> <<>>]

-----------------------------------------------------------------------------
(* A round of the worker.                                                  *)

\* load_live_views: only a live view takes part.
BeginRound ==
    /\ status = "live" /\ ~round.on
    /\ round' = [NoRound EXCEPT !.on = TRUE, !.frontier = frontier, !.seq = lastSeq,
                                !.content = content]
    /\ UNCHANGED <<viewVars, log, refreshes, past>>

\* The net deltas of the transaction that ends at lsn, numbered from seq + 1.
Numbered(net, seq, lsn) ==
    {[seq |-> seq + k, lsn |-> lsn, op |-> net[k].op, id |-> net[k].id, row |-> net[k].row] :
        k \in DOMAIN net}

\* The view executes its part of one source transaction.
Absorb(raw, after) ==
    LET net == Net(raw)
        lsn == round.frontier + 1
        seq == round.seq + Len(net)
    IN  round' = [round EXCEPT
            !.frontier = lsn,
            !.seq = seq,
            !.content = after,
            !.pending = @ \cup Numbered(net, round.seq, lsn),
            !.states = IF net = <<>> THEN @ ELSE Append(@, [seq |-> seq, content |-> after])]

\* The writes of one transaction, in order: pairs <<identity, new row>>.
Writes == UNION {[1..n -> Ids \X Cell] : n \in 1..MaxWrites}
Apply(state, w) ==
    [content |-> [state.content EXCEPT ![w[1]] = w[2]],
     raw |-> state.raw \o Write(state.content, w[1], w[2])]
Execute(before, ws) == FoldLeft(Apply, [content |-> before, raw |-> <<>>], ws)
RoundTx ==
    /\ round.on
    /\ round.frontier < MaxTxs
    /\ \E ws \in Writes :
        LET done == Execute(round.content, ws)
        IN  done.raw # <<>> /\ Absorb(done.raw, done.content)
    /\ UNCHANGED <<viewVars, log, refreshes, past>>

\* nabla.deltas after the round's rows are inserted and old ones collected:
\* retention is by number, and only a round that appended something collects.
Retained(rows, last) == {r \in rows : r.seq > last - Retain}
LogAfter == IF round.pending = {} THEN log ELSE Retained(log \cup round.pending, round.seq)

\* The round commits what the view absorbed; the view may have gone stale in
\* it, which overwrites whatever refresh() put there meanwhile.
EndRound ==
    /\ round.on
    /\ status' \in {status, "stale"}
    /\ frontier' = round.frontier
    /\ lastSeq' = round.seq
    /\ content' = round.content
    /\ log' = LogAfter
    /\ past' = [past EXCEPT ![epoch] = @ \o round.states]
    /\ round' = NoRound
    /\ UNCHANGED <<populated, epoch, refreshes>>

\* The round's transaction rolls back.
AbortRound ==
    /\ round.on
    /\ round' = NoRound
    /\ UNCHANGED <<viewVars, log, refreshes, past>>

-----------------------------------------------------------------------------
(* refresh() and the population.                                           *)

RequestRefresh ==
    /\ status \notin {"initializing", "refreshing"}
    /\ refreshes < MaxRefreshes
    /\ refreshes' = refreshes + 1
    /\ status' = "refreshing"
    /\ UNCHANGED <<populated, epoch, frontier, lastSeq, content, log, round, past>>

\* The first build keeps the epoch the view was created with.
EpochAfterBuild_Same == epoch
EpochAfterBuild == IF status = "refreshing" /\ populated THEN epoch + 1 ELSE epoch

\* The worker populates between rounds.  Numbers go on, the log starts empty.
BuildView ==
    /\ status \in {"initializing", "refreshing"} /\ ~round.on
    /\ \E c \in Contents :
        /\ content' = c
        /\ past' = [past EXCEPT ![EpochAfterBuild] = Append(@, [seq |-> lastSeq, content |-> c])]
    /\ epoch' = EpochAfterBuild
    /\ status' = "live"
    /\ populated' = TRUE
    /\ log' = {}
    /\ UNCHANGED <<frontier, lastSeq, round, refreshes>>

BuildGivesUp ==
    /\ status \in {"initializing", "refreshing"} /\ ~round.on
    /\ status' = "failed"
    /\ UNCHANGED <<populated, epoch, frontier, lastSeq, content, log, round, refreshes, past>>

ServerNext ==
    \/ BeginRound
    \/ RoundTx
    \/ EndRound
    \/ AbortRound
    \/ RequestRefresh
    \/ BuildView
    \/ BuildGivesUp

-----------------------------------------------------------------------------
(* nabla.changes(name, after, epoch, max_rows): every statement of one call *)
(* reads the same snapshot.                                                *)

\* The number the retained log reaches back to.
Oldest == IF log = {} THEN lastSeq + 1 ELSE Min({r.seq : r \in log})
Lagged_OffByOne(after) == after < Oldest - 2
Lagged(after) == after < Oldest - 1

\* Its verdict, in the order it is reached; "ok" comes with a page.
Verdict(after, e) ==
    IF status \in {"stale", "failed"} THEN status
    ELSE IF e # epoch THEN "epoch_changed"
    ELSE IF Lagged(after) THEN "lagged"
    ELSE "ok"

Newer(after) == {r \in log : r.seq > after}

\* ORDER BY seq LIMIT limit.
Limited(after, limit) ==
    {r \in Newer(after) : Cardinality({q \in Newer(after) : q.seq <= r.seq}) <= limit}

\* The rest of the transaction the limit cut through is returned as well.
Served(after, maxRows) ==
    LET limit == Max({maxRows, 1})
        page == Limited(after, limit)
        last == CHOOSE r \in page : \A q \in page : q.seq <= r.seq
    IN  IF Cardinality(page) < limit THEN page
        ELSE page \cup {r \in log : r.seq > last.seq /\ r.lsn = last.lsn}

\* Rows in the order of their numbers.
BySeq(rows) ==
    LET seqs == Ascending({r.seq : r \in rows})
    IN  [k \in DOMAIN seqs |-> CHOOSE r \in rows : r.seq = seqs[k]]

Page(after, maxRows) == BySeq(Served(after, maxRows))

-----------------------------------------------------------------------------
(* Properties of the log.                                                  *)

\* The numbers of transaction ends a subscriber of this epoch may be at.
Ends == {past[epoch][k].seq : k \in DOMAIN past[epoch]}

\* What a subscriber at number after is served: it is either told that it
\* lagged or gets the rows that follow its cursor, without a gap and up to the
\* end of a transaction.
ServesWhole(after, maxRows) ==
    Verdict(after, epoch) = "ok" =>
        LET page == Page(after, maxRows)
        IN  /\ \A k \in DOMAIN page : page[k].seq = after + k
            /\ page = <<>> => after = lastSeq
            /\ page # <<>> => Last(page).seq \in Ends

\* api.rs, changes: "whole source transactions only", at whatever transaction
\* end a subscriber stands and whatever page it asks for.
ServesWholeTransactions ==
    populated => \A after \in Ends, maxRows \in 0..3 : ServesWhole(after, maxRows)

\* The rows of identity i that lead from one state to a later one, and the
\* visible difference between the two states.
RowsOf(i, rows, from, to) == BySeq({r \in rows : r.id = i /\ r.seq \in from.seq + 1 .. to.seq})
ChangeOf(i, from, to) ==
    IF Shown(from.content[i]) = Shown(to.content[i]) THEN <<>>
    ELSE (IF from.content[i] = NoRow THEN <<>> ELSE <<<<"D", Shown(from.content[i])>>>>)
         \o (IF to.content[i] = NoRow THEN <<>> ELSE <<<<"I", Shown(to.content[i])>>>>)
Explains(rows, from, to) ==
    \A i \in Ids :
        LET mine == RowsOf(i, rows, from, to)
        IN  [n \in DOMAIN mine |-> <<mine[n].op, Shown(mine[n].row)>>] = ChangeOf(i, from, to)

\* README "What a delta is": the retained rows of one source transaction are,
\* per identity, the visible difference between the states around it: a D of
\* what was shown before, then an I of what is shown after, and nothing for an
\* identity that shows the same.
DeltasAreNetEffect ==
    populated => \A k \in 2..Len(past[epoch]) :
        past[epoch][k - 1].seq + 1 >= Oldest =>
            Explains(log, past[epoch][k - 1], past[epoch][k])

-----------------------------------------------------------------------------
(* The inductive invariant.                                                *)

\* Rows in the log, numbered without a gap and in commit order.
InCommitOrder(rows, first, last) ==
    /\ rows \subseteq LoggedRow
    /\ {r.seq : r \in rows} = first + 1 .. last
    /\ \A r, q \in rows : r.seq = q.seq => r = q
    /\ \A r, q \in rows : r.seq <= q.seq => r.lsn <= q.lsn

\* The rows of a transaction that are kept end at a state's number.
EndsAtStates(rows, states) ==
    \A r \in rows :
        (\A q \in rows : q.seq = r.seq + 1 => q.lsn # r.lsn) =>
            \E k \in DOMAIN states : states[k].seq = r.seq

\* States are numbered in order, and a number ends a transaction.
InOrder(states) == \A j, k \in DOMAIN states : j < k => states[j].seq < states[k].seq
CutAtStates(rows, states) ==
    \A k \in DOMAIN states, r, q \in rows :
        r.seq <= states[k].seq /\ q.seq > states[k].seq => r.lsn < q.lsn

\* What the rows, the states of this epoch, the last number, the frontier and
\* the content have to do with each other, committed or in the round.
LogFits(rows, states, last, front, now) ==
    /\ states \in Seq(PastState) /\ states # <<>>
    /\ InOrder(states)
    /\ \A k \in DOMAIN states : states[k].seq <= last
    /\ states[Len(states)].seq = last
    /\ \A i \in Ids : Shown(states[Len(states)].content[i]) = Shown(now[i])
    /\ \A r \in rows : r.lsn <= front
    /\ EndsAtStates(rows, states)
    /\ CutAtStates(rows, states)
    /\ \E first \in 0..last :
        /\ InCommitOrder(rows, first, last)
        /\ \A k \in 2..Len(states) :
            states[k - 1].seq >= first => Explains(rows, states[k - 1], states[k])

LogTypeOK ==
    /\ status \in LogStatuses /\ populated \in BOOLEAN
    /\ refreshes \in 0..MaxRefreshes
    /\ epoch \in 1 .. refreshes + 1
    /\ frontier \in Nat /\ lastSeq \in Nat
    /\ content \in Contents
    /\ log \subseteq LoggedRow
    /\ past \in [Epochs -> Seq(PastState)]
    /\ round \in Round

\* The log, the history and the round fit the view's row at every step.
LogInv ==
    /\ LogTypeOK
    /\ status = "initializing" => ~populated
    /\ status = "live" => populated
    /\ status = "refreshing" => epoch <= refreshes
    /\ \A e \in Epochs : e > epoch \/ ~populated => past[e] = <<>>
    /\ \A e \in Epochs :
        InOrder(past[e]) /\ \A k \in DOMAIN past[e] : past[e][k].seq <= lastSeq
    /\ ~populated => log = {} /\ ~round.on
    /\ populated => LogFits(log, past[epoch], lastSeq, frontier, content)
    /\ ~round.on => round = NoRound
    /\ round.on =>
        /\ LogFits(log \cup round.pending, past[epoch] \o round.states,
                   round.seq, round.frontier, round.content)
        /\ frontier <= round.frontier
        /\ \A r \in round.pending : r.lsn > frontier
=============================================================================
