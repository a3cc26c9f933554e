----------------------------- MODULE MCOidcGrants -----------------------------
(* Instances of OidcGrants for TLC.                                        *)
EXTENDS OidcGrants, TLC

CONSTANTS u1, c1, c2, k1, t1, t2, t3, offline, email, h1, h2

\* Both clients are registered for offline_access only; requests may still ask
\* for the other scope.
OfflineOnly == [c \in Clients |-> {offline}]

Symmetric == Permutations(Tokens) \cup Permutations(Handlers) \cup
             Permutations(Codes) \cup Permutations(Clients)
=============================================================================
