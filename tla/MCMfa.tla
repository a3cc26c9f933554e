--------------------------------- MODULE MCMfa ---------------------------------
(* Instances of Mfa for TLC.                                               *)
EXTENDS Mfa, TLC

CONSTANTS s1, s2, r1, r2, r3, r4, plain, spaced, h1, h2

Symmetric == Permutations(Secrets) \cup Permutations(Recovery) \cup
             Permutations(Handlers)
================================================================================
