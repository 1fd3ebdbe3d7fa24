----------------------------- MODULE CommitOrder ----------------------------
(***************************************************************************)
(* What the other modules take from the peek, and nothing about how: each  *)
(* time the worker reads the slot it has whole committed transactions in   *)
(* its hands, in commit order, none left out, the first being the one      *)
(* after the slot; and the slot is moved past some of them, or set back.   *)
(***************************************************************************)
EXTENDS Naturals, Sequences

VARIABLES
    committed,   \* the transactions, in commit order
    slot,        \* the position read from
    batch        \* what the worker has in its hands

coVars == <<committed, slot, batch>>

Whole(i) == [xid |-> i, end |-> i, changes |-> committed[i]]

COInit == slot = 0 /\ batch = <<>>

Committing ==
    /\ Len(committed') = Len(committed) + 1
    /\ \A i \in DOMAIN committed : committed'[i] = committed[i]
    /\ UNCHANGED <<slot, batch>>

Reading ==
    /\ \E n \in 1..Len(committed) - slot : batch' = [k \in 1..n |-> Whole(slot + k)]
    /\ UNCHANGED <<committed, slot>>

Settling ==
    /\ slot' \in 0..slot + Len(batch)
    /\ batch' = <<>>
    /\ UNCHANGED committed

CONext == Committing \/ Reading \/ Settling
COSpec == COInit /\ [][CONext]_coVars
=============================================================================
