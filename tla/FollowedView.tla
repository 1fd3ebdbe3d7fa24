---------------------------- MODULE FollowedView ----------------------------
(***************************************************************************)
(* What following a view promises an application, and nothing about how:   *)
(* the view shows, epoch by epoch, a sequence of states, one more per      *)
(* source transaction that changes what it shows; the application's copy   *)
(* is always exactly one of them, and it moves either to the very next one *)
(* or, when it is told to start over, to a state that is no older.         *)
(***************************************************************************)
EXTENDS Integers, Sequences

CONSTANT FirstCopy   \* what the application holds before its first snapshot

VARIABLES
    shows,   \* [epoch -> the states shown in it so far]
    at,      \* the copy: the state it is, as <<epoch, index>> ...
    copyOf   \* ... and what the application holds

fvVars == <<shows, at, copyOf>>

FVInit ==
    /\ \A e \in DOMAIN shows : shows[e] = <<>>
    /\ at = <<0, 0>>
    /\ copyOf = FirstCopy

\* Transactions commit, or the view is rebuilt; the copy does not move.
Show ==
    /\ DOMAIN shows' = DOMAIN shows
    /\ \A e \in DOMAIN shows :
        /\ Len(shows[e]) <= Len(shows'[e])
        /\ \A k \in DOMAIN shows[e] : shows'[e][k] = shows[e][k]
    /\ UNCHANGED <<at, copyOf>>

IsState(e, k) == e \in DOMAIN shows /\ k \in DOMAIN shows[e] /\ copyOf' = shows[e][k]

\* One transaction is handed to the application.
Follow ==
    /\ at' = <<at[1], at[2] + 1>>
    /\ IsState(at'[1], at'[2])
    /\ UNCHANGED shows

\* A snapshot is handed to the application.
StartOver ==
    /\ at'[1] > at[1] \/ (at'[1] = at[1] /\ at'[2] >= at[2])
    /\ IsState(at'[1], at'[2])
    /\ UNCHANGED shows

FVNext == Show \/ Follow \/ StartOver
FVSpec == FVInit /\ [][FVNext]_fvVars
=============================================================================
