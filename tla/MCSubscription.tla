--------------------------- MODULE MCSubscription ---------------------------
(* An instance of Subscription for TLC.                                    *)
EXTENDS Subscription

\* One identity, whose row can change without showing (a1, a2 show "a").
OneId == {"i"}
MCRows == {"a1", "a2", "b"}
MCShown == [r \in MCRows |-> IF r = "b" THEN "b" ELSE "a"]
=============================================================================
