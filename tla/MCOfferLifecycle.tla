-------------------------- MODULE MCOfferLifecycle --------------------------
(* Model-checking instances of OfferLifecycle.                             *)
EXTENDS OfferLifecycle, TLC

CONSTANTS o1, o2, s1, s2, c1, c2

Symmetry == Permutations(Staff) \union Permutations(Clicks)
=============================================================================
