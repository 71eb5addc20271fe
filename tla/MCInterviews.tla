---------------------------- MODULE MCInterviews ----------------------------
(* The rounds of one application, on small sets, for TLC.                  *)
EXTENDS Interviews, TLC

CONSTANTS s1, s2, p1, p2

Symmetry == Permutations(Sessions) \union Permutations(Panelists)

=============================================================================
