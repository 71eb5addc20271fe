---------------------------- MODULE MCNotetaker ----------------------------
(* Model-checking instances of Notetaker.                                  *)
EXTENDS Notetaker, TLC

CONSTANTS s1, s2, webm, mp4

Symmetry == Permutations(Sessions) \union Permutations(Keys)
=============================================================================
