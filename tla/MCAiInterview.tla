---------------------------- MODULE MCAiInterview ----------------------------
(* Model-checking instances of AiInterview.                                *)
EXTENDS AiInterview, TLC

CONSTANTS t1, t2

Symmetry == Permutations(Tabs)
=============================================================================
