---------------------------- MODULE MCClaimSweep ----------------------------
(* Model-checking instances of ClaimSweep.                                 *)
EXTENDS ClaimSweep

CONSTANTS p1, p2, s1, w1, w2, c1, c2, r1

OnePerson == {[email |-> "a", phone |-> "1"]}
=============================================================================
