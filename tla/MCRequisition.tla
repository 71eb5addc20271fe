--------------------------- MODULE MCRequisition ---------------------------
(* Model-checking instances of Requisition.                                *)
EXTENDS Requisition, TLC

CONSTANTS u1, u2

Symmetry == Permutations(Users)
=============================================================================
