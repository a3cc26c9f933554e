------------------------------- MODULE MCAccounts -------------------------------
(* Instances of Accounts for TLC.                                          *)
EXTENDS Accounts, TLC

CONSTANTS u1, u2, u3, h1, h2, r1, r2, admin, basic

Symmetric == Permutations(Users \ {Seed}) \cup Permutations(Handlers) \cup
             Permutations(Replicas)
=================================================================================
