-------------------------- MODULE MCPartnerClaims --------------------------
(* Model-checking instances of PartnerClaims.                              *)
EXTENDS PartnerClaims, TLC

CONSTANTS p1, p2, s1, s2, r1, r2

\* Two people, and a third contact that mixes them up.
TwoPeople == {[email |-> "a", phone |-> "1"], [email |-> "b", phone |-> "2"],
              [email |-> "a", phone |-> "2"]}

Symmetry ==
    Permutations(Partners) \union Permutations(Sessions)
        \union Permutations(Requisitions)
=============================================================================
