----------------------------- MODULE MCCatalog ------------------------------
(* Instances of Catalog for TLC.                                           *)
EXTENDS Catalog

CONSTANTS A, B

\* Join views on the same tables, and a single-table view on one of them.
JoinsAndSingle == <<{A, B}, {A}, {A, B}, {A, B}>>
Single == <<{A}>>
=============================================================================
