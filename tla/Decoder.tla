------------------------------ MODULE Decoder -------------------------------
(***************************************************************************)
(* How the messages of a peek become source transactions: the Decoder of   *)
(* pgoutput.rs, fed and emptied by run_round (worker.rs), kept from one    *)
(* round to the next, and made anew by worker_main when a round fails.     *)
(*                                                                         *)
(* An LSN is a position in `committed`.  The bytes of a message are left   *)
(* out, and messages that feed ignores with them.  What a type is called   *)
(* (format_type) is as good as the type, and does not change.  An Option   *)
(* of the code is a set of at most one member.                             *)
(***************************************************************************)
EXTENDS Naturals, Sequences

CONSTANTS
    Tables, Names, Types,
    Definitions,   \* column lists a table may have
    Writes,        \* the transactions that sessions commit
    MaxLsn         \* bound: committed transactions

Column == [name : Names, type : Types]

\* A change, by the tables it concerns (TRUNCATE names several), each with the
\* column list it had when the change was made.
Change == UNION {[S -> Definitions] : S \in SUBSET Tables \ {{}}}

ASSUME DecoderAssumption ==
    /\ Definitions \subseteq Seq(Column)
    /\ Writes \subseteq Seq(Change)
    /\ MaxLsn \in Nat

VARIABLES
    committed, slot,
    pc,
    target, sending, sent,   \* the peek: up to `target`, now in transaction `sending`, of
                             \* which BEGIN (sent >= 1) and sent - 1 changes were fed
    told,                    \* [table -> the column list this peek described it by]
    relations,               \* the fields of the Decoder
    current, complete,
    batch                    \* `transactions` in run_round

peekVars == <<target, sending, sent, told>>
decoderVars == <<relations, current, complete>>
vars == <<committed, slot, pc, peekVars, decoderVars, batch>>

RelationColumn == [name : Names, type : Types, typeName : SUBSET Types]

Nothing == [t \in Tables |-> {}]

Init ==
    /\ committed = <<>> /\ slot = 0
    /\ pc = "peek" /\ batch = <<>>
    /\ target = 0 /\ sending = 0 /\ sent = 0 /\ told = Nothing
    /\ relations = Nothing /\ current = {} /\ complete = <<>>

-----------------------------------------------------------------------------

CommitTx ==
    /\ Len(committed) < MaxLsn
    /\ \E tx \in Writes : committed' = Append(committed, tx)
    /\ UNCHANGED <<slot, pc, peekVars, decoderVars, batch>>

RoundOver ==
    /\ pc' = "peek" /\ batch' = <<>>
    /\ target' = 0 /\ sending' = 0 /\ sent' = 0 /\ told' = Nothing
NewDecoder == relations' = Nothing /\ current' = {} /\ complete' = <<>>

\* An error of the round: worker_main retries with a new decoder.
RoundFails == RoundOver /\ NewDecoder /\ UNCHANGED <<committed, slot>>

\* Anything but the decoder may raise it: the population, a lock, SQL, the slot.
RoundError == pc \in {"peek", "apply", "advance"} /\ RoundFails

\* The slot is found where it was last made durable.
Crash == RoundOver /\ NewDecoder /\ slot' \in 0..slot /\ UNCHANGED committed

Peek ==
    /\ pc = "peek" /\ slot < Len(committed)
    /\ target' = Len(committed)
    /\ sending' = slot + 1 /\ sent' = 0 /\ told' = Nothing
    /\ pc' = "feed"
    /\ UNCHANGED <<committed, slot, decoderVars, batch>>

-----------------------------------------------------------------------------
(* feed, by message kind.                                                  *)

InTransaction == pc = "feed" /\ sending <= target /\ sent > 0
AtChange == InTransaction /\ sent <= Len(committed[sending])
NextChange == committed[sending][sent]

FeedBegin ==
    /\ pc = "feed" /\ sending <= target /\ sent = 0
    /\ IF current # {} THEN RoundFails
       ELSE /\ current' = {[xid |-> sending, end |-> 0, changes |-> <<>>]}
            /\ sent' = 1
            /\ UNCHANGED <<committed, slot, pc, target, sending, told, relations, complete, batch>>

\* Names of types that were resolved stay if the column is described as before.
Same(c, d) == c.name = d.name /\ c.type = d.type
Described_ByName(columns, prev) ==
    [i \in DOMAIN columns |->
        [name |-> columns[i].name, type |-> columns[i].type,
         typeName |-> UNION {p[i].typeName :
             p \in {q \in prev : i \in DOMAIN q /\ q[i].name = columns[i].name}}]]
Described(columns, prev) ==
    [i \in DOMAIN columns |->
        [name |-> columns[i].name, type |-> columns[i].type,
         typeName |-> UNION {p[i].typeName :
             p \in {q \in prev : i \in DOMAIN q /\ Same(q[i], columns[i])}}]]

\* pgoutput describes a table before the first change of it in a peek, and
\* again when its column list is no longer the one it sent.
FeedRelation(t) ==
    /\ AtChange /\ t \in DOMAIN NextChange /\ told[t] # {NextChange[t]}
    /\ told' = [told EXCEPT ![t] = {NextChange[t]}]
    /\ relations' = [relations EXCEPT ![t] = {Described(NextChange[t], @)}]
    /\ UNCHANGED <<committed, slot, pc, target, sending, sent, current, complete, batch>>

FeedChange ==
    /\ AtChange /\ \A t \in DOMAIN NextChange : told[t] = {NextChange[t]}
    /\ IF current = {} THEN RoundFails
       ELSE /\ current' = {[tx EXCEPT !.changes = Append(@, NextChange)] : tx \in current}
            /\ sent' = sent + 1
            /\ UNCHANGED <<committed, slot, pc, target, sending, told, relations, complete, batch>>

FeedCommit ==
    /\ InTransaction /\ sent > Len(committed[sending])
    /\ IF current = {} THEN RoundFails
       ELSE /\ \E tx \in current : complete' = Append(complete, [tx EXCEPT !.end = sending])
            /\ current' = {}
            /\ sending' = sending + 1 /\ sent' = 0
            /\ UNCHANGED <<committed, slot, pc, target, told, relations, batch>>

\* After the last message, wherever the peek ends: discard_incomplete, then
\* take_complete.  PostgreSQL ends a peek between transactions; the code does
\* not rely on it, and neither does this.  A peek that ends early has met its
\* limit: no idle advance follows it.
PeekEnds_NotTaken ==
    /\ pc = "feed"
    /\ current' = {}
    /\ batch' = complete /\ UNCHANGED complete
    /\ pc' = IF complete = <<>> THEN "peek" ELSE "apply"
    /\ UNCHANGED <<committed, slot, peekVars, relations>>
PeekEnds ==
    /\ pc = "feed"
    /\ current' = {}
    /\ batch' = complete /\ complete' = <<>>
    /\ pc' = IF complete = <<>> THEN "peek" ELSE "apply"
    /\ UNCHANGED <<committed, slot, peekVars, relations>>

-----------------------------------------------------------------------------
(* apply_round and advance_slot, as far as they use the decoder.  The idle  *)
(* advance passes no more transactions than the batch has.                 *)

Concerned == UNION {UNION {DOMAIN batch[k].changes[c] : c \in DOMAIN batch[k].changes} :
                       k \in DOMAIN batch}

\* resolve_types.
Resolved(columns) ==
    [i \in DOMAIN columns |->
        [columns[i] EXCEPT !.typeName = IF @ = {} THEN {columns[i].type} ELSE @]]

ApplyRound ==
    /\ pc = "apply"
    /\ IF \E t \in Concerned : relations[t] = {} THEN RoundFails
       ELSE /\ relations' = [t \in Tables |-> IF t \in Concerned
                                             THEN {Resolved(r) : r \in relations[t]}
                                             ELSE relations[t]]
            /\ pc' = "advance"
            /\ UNCHANGED <<committed, slot, peekVars, current, complete, batch>>

\* All are processed, or a view blocks transaction n + 1.
AdvanceSlot ==
    /\ pc = "advance"
    /\ \E n \in 0..Len(batch) :
         slot' = IF n > 0 /\ batch[n].end > slot THEN batch[n].end ELSE slot
    /\ RoundOver
    /\ UNCHANGED <<committed, decoderVars>>

WorkerStep ==
    \/ Peek \/ FeedBegin \/ FeedChange \/ FeedCommit \/ PeekEnds
    \/ \E t \in Tables : FeedRelation(t)
    \/ ApplyRound \/ AdvanceSlot \/ RoundError

Next == CommitTx \/ WorkerStep \/ Crash
Spec == Init /\ [][Next]_vars

-----------------------------------------------------------------------------
(* Properties.                                                             *)

\* worker.rs apply_round: "Apply every complete source transaction of a peek
\* ... in commit order"; README, "PostgreSQL never splits a transaction across
\* that limit", and if it did, run_round would read it again.  Whatever fails in
\* whatever round, a batch is whole transactions, from the slot on.
Abstract == INSTANCE CommitOrder
ImplementsCommitOrder == Abstract!COSpec

Whole(log, i) == [xid |-> i, end |-> i, changes |-> log[i]]
WholeFrom(log, after, n) == [k \in 1..n |-> Whole(log, after + k)]

DecoderTypeOK ==
    /\ committed \in Seq(Writes) /\ slot \in 0..Len(committed)
    /\ pc \in {"peek", "feed", "apply", "advance"}
    /\ target \in 0..Len(committed) /\ sending \in Nat /\ sent \in Nat
    /\ told \in [Tables -> SUBSET Definitions]
    /\ relations \in [Tables -> SUBSET Seq(RelationColumn)]

\* Between two peeks the decoder holds no transaction, and during one exactly
\* what was sent: nothing is left over from a round that failed, so no message
\* is ever refused.
Assembled ==
    /\ pc = "feed" =>
        /\ batch = <<>>
        /\ sending \in slot + 1..target + 1
        /\ sending > target => sent = 0
        /\ complete = WholeFrom(committed, slot, sending - slot - 1)
        /\ sent = 0 => current = {}
        /\ sent > 0 =>
            /\ sent - 1 <= Len(committed[sending])
            /\ current = {[xid |-> sending, end |-> 0,
                           changes |-> SubSeq(committed[sending], 1, sent - 1)]}
    /\ pc # "feed" =>
        /\ current = {} /\ complete = <<>>
        /\ \E n \in 0..Len(committed) - slot : batch = WholeFrom(committed, slot, n)
        /\ pc = "peek" <=> batch = <<>>

\* Every table of a transaction in the worker's hands was described in this very
\* peek: its changes are never "for unknown relation", nor read through a
\* description kept from an earlier one.
AllDescribed(tx) ==
    \A c \in DOMAIN tx.changes, t \in Tables : t \in DOMAIN tx.changes[c] => told[t] # {}
TablesAreDescribed ==
    /\ \A tx \in current : AllDescribed(tx)
    /\ \A k \in DOMAIN complete : AllDescribed(complete[k])
    /\ \A k \in DOMAIN batch : AllDescribed(batch[k])

\* The cache has each table as it was last described, and no column has the
\* name of another type.
CacheFits ==
    \A t \in Tables :
        /\ \A d \in told[t] : \E r \in relations[t] :
            DOMAIN r = DOMAIN d /\ \A i \in DOMAIN d : Same(r[i], d[i])
        /\ \A r, q \in relations[t] : r = q
        /\ \A d, e \in told[t] : d = e
        /\ \A r \in relations[t] : \A i \in DOMAIN r : r[i].typeName \subseteq {r[i].type}

\* The inductive invariant.
DecoderInv == DecoderTypeOK /\ Assembled /\ TablesAreDescribed /\ CacheFits
=============================================================================
