------------------------------ MODULE MCSessions ------------------------------
(* Instances of Sessions for TLC.                                          *)
EXTENDS Sessions, TLC

CONSTANTS u1, d1, d2, h1, h2, t1, t2, t3, t4

\* The idle timeout of the configured role.
IdleDefault == [u \in Users |-> 2]

Symmetric == Permutations(Tokens) \cup Permutations(Handlers) \cup
             Permutations(Devices)
=============================================================================
