-------------------------------- MODULE MCLogin --------------------------------
(* Instances of Login for TLC.                                             *)
EXTENDS Login, TLC

CONSTANTS k1, k2, a1, a2, a3, h1, h2, h3, stored, upper

Symmetric == Permutations(Pending) \cup Permutations(Challenges) \cup
             Permutations(Handlers)
================================================================================
