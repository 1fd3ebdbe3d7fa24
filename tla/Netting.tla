------------------------------ MODULE Netting ------------------------------
(***************************************************************************)
(* What one source transaction does to the rows of one view: the deltas    *)
(* the storage writes leave behind (apply.rs execute), and their net       *)
(* effect per identity key (apply.rs net), which is what subscribers get.  *)
(*                                                                         *)
(* A view holds at most one row per identity key; Shown is the part of a   *)
(* row readers see (the rest are hidden _nabla_ maintenance columns).      *)
(***************************************************************************)
EXTENDS Integers, SequencesExt, Order

CONSTANTS
    Ids,        \* identity keys
    Rows,       \* rows of the storage table
    NoRow,      \* "no row with this identity"
    ShownRow    \* [row -> its visible columns]

ASSUME NettingAssumption ==
    /\ IsFiniteSet(Ids)
    /\ NoRow \notin Rows
    /\ NoRow \notin {ShownRow[r] : r \in Rows}

Cell == Rows \cup {NoRow}
Contents == [Ids -> Cell]
Delta == [op : {"D", "I"}, id : Ids, row : Rows]

ShownRows == {ShownRow[r] : r \in Rows}
Shown(r) == IF r = NoRow THEN NoRow ELSE ShownRow[r]

\* What a reader of the VIEW sees: a bag, for two identities may show alike.
ShownBag(c) == [x \in ShownRows |-> Cardinality({i \in Ids : Shown(c[i]) = x})]

\* The deltas of "the row of identity i becomes r": the old row, if any, is
\* deleted, then the new one, if any, inserted.
Write(c, i, r) ==
    (IF c[i] = NoRow THEN <<>> ELSE <<[op |-> "D", id |-> i, row |-> c[i]]>>)
    \o (IF r = NoRow THEN <<>> ELSE <<[op |-> "I", id |-> i, row |-> r]>>)

-----------------------------------------------------------------------------

Touching(raw, i) == {k \in DOMAIN raw : raw[k].id = i}

Before_Last(raw, i) ==
    LET deletes == {k \in Touching(raw, i) : raw[k].op = "D"}
    IN  IF deletes = {} THEN NoRow ELSE raw[Max(deletes)].row

\* The row carried by the identity's first delta, absent if that is an I ...
Before(raw, i) ==
    LET d == raw[Min(Touching(raw, i))] IN IF d.op = "D" THEN d.row ELSE NoRow
\* ... and the row of its last delta, absent if that is a D.
After(raw, i) ==
    LET d == raw[Max(Touching(raw, i))] IN IF d.op = "I" THEN d.row ELSE NoRow

NetOf(raw, i) ==
    LET before == Before(raw, i)
        after == After(raw, i)
    IN  IF Shown(before) = Shown(after) THEN <<>>
        ELSE (IF before = NoRow THEN <<>> ELSE <<[op |-> "D", id |-> i, row |-> before]>>)
             \o (IF after = NoRow THEN <<>> ELSE <<[op |-> "I", id |-> i, row |-> after]>>)

\* Identities in the order of their first delta.
Order(raw) ==
    LET first == Ascending({Min(Touching(raw, raw[k].id)) : k \in DOMAIN raw})
    IN  [n \in DOMAIN first |-> raw[first[n]].id]

Net_Raw(raw) == raw
Net(raw) == FlattenSeq([n \in DOMAIN Order(raw) |-> NetOf(raw, Order(raw)[n])])
=============================================================================
