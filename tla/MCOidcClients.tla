------------------------------ MODULE MCOidcClients ------------------------------
(* Instances of OidcClients for TLC.                                       *)
EXTENDS OidcClients, TLC

CONSTANTS c1, c2, a1, a2, x1, k1, t1, h1, h2

Symmetric == Permutations(Clients) \cup Permutations(Uris) \cup
             Permutations(Handlers)
==================================================================================
