-------------------------------- MODULE MCAccess --------------------------------
(* Instances of Access for TLC.                                            *)
EXTENDS Access, TLC

CONSTANTS g1, t1, s1, s2, s3, h1, h2

Symmetric == Permutations(Tokens) \cup Permutations(Secrets) \cup
             Permutations(Handlers)
=================================================================================
