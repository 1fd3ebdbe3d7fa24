---------------------------- MODULE DeferredView ----------------------------
(***************************************************************************)
(* What nabla promises a reader, and nothing about how: each view is       *)
(* readable from some point on, always shows its query over one committed  *)
(* state of the base tables, and moves forward through the history of      *)
(* committed states, skipping some, never back.                            *)
(***************************************************************************)
EXTENDS SourceData

VARIABLES
    hist,      \* the committed transactions, in commit order
    readable,  \* the views a reader can query
    asOf,      \* the position each view reflects
    content    \* what a reader finds

dvVars == <<hist, readable, asOf, content>>

StateAt(h, i) == IF i = 0 THEN EmptyDb ELSE h[i].db

DVInit ==
    /\ hist = <<>>
    /\ readable = [v \in Views |-> FALSE]
    /\ asOf = [v \in Views |-> 0]
    /\ content = [v \in Views |-> EmptyStorage]

\* A source transaction commits; no view moves.
SourceCommit ==
    /\ Len(hist') = Len(hist) + 1
    /\ \A i \in DOMAIN hist : hist'[i] = hist[i]
    /\ UNCHANGED <<readable, asOf, content>>

\* Some views move to later committed states, or become readable at one.
Move ==
    /\ \A v \in Views :
        /\ readable[v] => readable'[v]
        /\ asOf'[v] >= asOf[v] /\ asOf'[v] <= Len(hist)
        /\ readable'[v] => content'[v] = Query(v, StateAt(hist, asOf'[v]))
        /\ ~readable'[v] => content'[v] = content[v]
    /\ UNCHANGED hist

DVNext == SourceCommit \/ Move
DVSpec == DVInit /\ [][DVNext]_dvVars
=============================================================================
