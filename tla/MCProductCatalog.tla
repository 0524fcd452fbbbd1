-------------------------- MODULE MCProductCatalog --------------------------
(* Instances of ProductCatalog for TLC. *)
EXTENDS ProductCatalog, TLC

CONSTANTS p1, p2, r1, r2

\* Products and requests are interchangeable.
Symmetry == Permutations(Products) \cup Permutations(Readers)
=============================================================================
