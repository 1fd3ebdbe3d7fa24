------------------------------- MODULE Order --------------------------------
(* Least and greatest elements, and what is reached over links.            *)
EXTENDS Naturals, FiniteSets

Least(S) == CHOOSE m \in S : \A n \in S : m <= n
Greatest(S) == CHOOSE m \in S : \A n \in S : m >= n

\* The members of a finite set of numbers as an increasing sequence.  (SortSeq
\* gives the same, but has no definition a proof can open.)
Ascending(S) ==
    [k \in 1..Cardinality(S) |-> CHOOSE n \in S : Cardinality({m \in S : m <= n}) = k]

\* The least subset of V that holds v and is closed under the links.
Reach(V, v, Link(_, _)) ==
    {w \in V : \A S \in SUBSET V :
        (v \in S /\ \A a \in S, b \in V : Link(a, b) => b \in S) => w \in S}
=============================================================================
