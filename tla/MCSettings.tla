------------------------------- MODULE MCSettings -------------------------------
(* Instances of Settings for TLC.                                          *)
EXTENDS Settings, TLC

CONSTANTS k1, k2, r1, r2, h1, h2, a1, a2

Symmetric == Permutations(Keys) \cup Permutations(Replicas) \cup
             Permutations(Readers) \cup Permutations(Admins)
=================================================================================
