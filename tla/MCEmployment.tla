---------------------------- MODULE MCEmployment ----------------------------
(* The two ends of one employment, on small sets, for TLC.                 *)
EXTENDS Employment

CONSTANTS s1, s2

=============================================================================
