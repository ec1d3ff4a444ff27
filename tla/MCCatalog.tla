----------------------------- MODULE MCCatalog -----------------------------
(* Model checking of Catalog: halls with whole and broken rows and sections. *)
EXTENDS Catalog, TLC

Symmetry == Permutations(Requests)
=============================================================================
