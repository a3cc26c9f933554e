------------------------------ MODULE OidcGrants ------------------------------
(***************************************************************************)
(* OAuth2 authorization codes and refresh tokens of the OIDC provider      *)
(* (backend/internal/oidc): AuthCodeStore and RefreshTokenStore in Redis,  *)
(* and the service methods that drive them: CreateAuthCodeSession,         *)
(* ExchangeCode, ExchangeRefreshToken, RevokeRefreshToken and              *)
(* RevokeAllForUser.                                                       *)
(*                                                                         *)
(* One action is one Redis command.  A go-redis Pipeline is not a          *)
(* transaction: its commands travel together, but those of other           *)
(* connections run between them and a failure can cut it short.            *)
(*                                                                         *)
(* Client authentication of a refresh or a revocation happens before the   *)
(* first command; a request that fails it changes nothing and has no       *)
(* action.                                                                 *)
(***************************************************************************)
EXTENDS Naturals, FiniteSets

CONSTANTS
  Users,
  Clients,
  Codes,          \* authorization codes; each is issued at most once
  Tokens,         \* refresh-token hashes; each is issued at most once
  Scopes,
  Offline,        \* the scope offline_access
  AllowedScopes,  \* [Clients -> SUBSET Scopes]: oauth2_clients.allowed_scopes
  Handlers,       \* request goroutines
  None,           \* redis.Nil / no value
  RedisErrors     \* TRUE: any command may fail or lose its answer

\* A grant: AuthCodeSession, or OIDCRefreshSession with the FamilyID.  A family
\* is named by the first refresh token of its chain; a code has none yet.
Grant == [user : Users, client : Clients, scopes : SUBSET Scopes,
          pkce : BOOLEAN, family : Tokens \cup {None}]

ASSUME GrantsAssumption ==
  /\ Offline \in Scopes
  /\ AllowedScopes \in [Clients -> SUBSET Scopes]
  /\ RedisErrors \in BOOLEAN
  /\ Codes \cap Tokens = {}
ASSUME NoneAssumption ==
  None \notin Users \cup Clients \cup Codes \cup Tokens \cup Grant

PCs == {"idle", "tombstone", "unindex_user", "unindex_family", "check", "set",
        "index_user", "index_family", "miss", "members", "del_tokens",
        "srem_user", "del_family", "delete", "drop_user",
        "drop_family", "del_all"}

Request == [pc : PCs, from : Codes \cup Tokens \cup {None},
            client : Clients \cup {None}, grant : Grant \cup {None},
            scopes : SUBSET Scopes, user : Users \cup {None},
            snap : SUBSET Tokens]

VARIABLES
  code,      \* oauth2:code:<code>
  tok,       \* oauth2:refresh:<hash>
  used,      \* oauth2:refresh:used:<hash>, the tombstones
  uidx,      \* oauth2:refresh:user:<uid>
  fidx,      \* oauth2:refresh:family:<fid>
  active,    \* users.is_active
  req,       \* what each goroutine is doing
  issued,    \* history: the grant behind a code or token
  parent,    \* history: the code or token a token was exchanged for
  held,      \* history: tokens whose token response was sent
  deleted    \* history: tokens ended by RevokeRefreshToken

store == <<code, tok, used, uidx, fidx>>
history == <<issued, parent, held, deleted>>
vars == <<code, tok, used, uidx, fidx, active, req,
          issued, parent, held, deleted>>

Done == [pc |-> "idle", from |-> None, client |-> None, grant |-> None,
         scopes |-> {}, user |-> None, snap |-> {}]

Init ==
  /\ code = [c \in Codes |-> None]
  /\ tok = [t \in Tokens |-> None]
  /\ used = [t \in Tokens |-> None]
  /\ uidx = [u \in Users |-> {}]
  /\ fidx = [f \in Tokens |-> {}]
  /\ active = [u \in Users |-> TRUE]
  /\ req = [p \in Handlers |-> Done]
  /\ issued = [x \in Codes \cup Tokens |-> None]
  /\ parent = [t \in Tokens |-> None]
  /\ held = {}
  /\ deleted = {}

At(p, pc) == req[p].pc = pc
Goto(p, pc) == req' = [req EXCEPT ![p].pc = pc]
Finish(p) == req' = [req EXCEPT ![p] = Done]

Fresh == {t \in Tokens : issued[t] = None}

\* Bound: an exchange starts only while a new token is left for it.
Budget ==
  Cardinality(Fresh) > Cardinality({p \in Handlers : req[p].pc \in
    {"tombstone", "unindex_user", "unindex_family", "check", "set"}})

-----------------------------------------------------------------------------
(* Authorization codes.                                                    *)

\* Consent by a logged-in user; redirect URI and scopes are the client's own.
CreateAuthCodeSession(c, u, cl, S, pkce) ==
  LET g == [user |-> u, client |-> cl, scopes |-> S, pkce |-> pkce,
            family |-> None]
  IN
  /\ issued[c] = None
  /\ S \subseteq AllowedScopes[cl]
  /\ code' = [code EXCEPT ![c] = g]
  /\ issued' = [issued EXCEPT ![c] = g]
  /\ UNCHANGED <<tok, used, uidx, fidx, active, req, parent, held, deleted>>

\* What a code exchange shows: redirect_uri as in the consent, client_secret
\* absent, right or wrong, code_verifier that hashes to the challenge.
Proofs == [redirect : BOOLEAN, secret : {"none", "valid", "wrong"},
           verifier : BOOLEAN]

Accepts(g, cl, proof) ==
  /\ g.client = cl
  /\ proof.redirect
  /\ proof.secret = "valid" \/ (proof.secret = "none" /\ g.pkce)
  /\ g.pkce => proof.verifier

\* GETDEL of the code comes first: a request that is then refused burns it.
ExchangeCodeKept(p, c, cl, proof) ==  \* mutant: GET instead of GETDEL
  LET g == code[c] IN
  /\ At(p, "idle") /\ g # None /\ Budget
  /\ IF Accepts(g, cl, proof)
       THEN req' = [req EXCEPT ![p] =
                      [Done EXCEPT !.pc = "check", !.from = c, !.client = cl,
                                   !.grant = g, !.scopes = g.scopes]]
       ELSE UNCHANGED req
  /\ UNCHANGED <<store, active, history>>
ExchangeCode(p, c, cl, proof) ==
  LET g == code[c] IN
  /\ At(p, "idle") /\ g # None /\ Budget
  /\ code' = [code EXCEPT ![c] = None]
  /\ IF Accepts(g, cl, proof)
       THEN req' = [req EXCEPT ![p] =
                      [Done EXCEPT !.pc = "check", !.from = c, !.client = cl,
                                   !.grant = g, !.scopes = g.scopes]]
       ELSE UNCHANGED req
  /\ UNCHANGED <<tok, used, uidx, fidx, active, history>>

-----------------------------------------------------------------------------
(* Refresh: ExchangeRefreshToken and GetAndConsume.                        *)

\* The requested scopes that were granted, or all that were granted.
NarrowedTrusting(granted, wanted) ==  \* mutant: one granted scope vouches
  IF wanted \cap granted = {} THEN granted ELSE wanted
Narrowed(granted, wanted) ==
  IF wanted \cap granted = {} THEN granted ELSE wanted \cap granted

\* GETDEL of the token: exactly one request gets the grant.
ConsumeKept(p, t, cl, wanted) ==  \* mutant: GET instead of GETDEL
  LET g == tok[t] IN
  /\ At(p, "idle") /\ t \in held
  /\ g # None => Budget
  /\ req' = [req EXCEPT ![p] =
       IF g = None
         THEN [Done EXCEPT !.pc = "miss", !.from = t]
         ELSE [Done EXCEPT !.pc = "tombstone", !.from = t, !.client = cl,
                           !.grant = g,
                           !.scopes = Narrowed(g.scopes, wanted)]]
  /\ UNCHANGED <<store, active, history>>
Consume(p, t, cl, wanted) ==
  LET g == tok[t] IN
  /\ At(p, "idle") /\ t \in held
  /\ g # None => Budget
  /\ tok' = [tok EXCEPT ![t] = None]
  /\ req' = [req EXCEPT ![p] =
       IF g = None
         THEN [Done EXCEPT !.pc = "miss", !.from = t]
         ELSE [Done EXCEPT !.pc = "tombstone", !.from = t, !.client = cl,
                           !.grant = g,
                           !.scopes = Narrowed(g.scopes, wanted)]]
  /\ UNCHANGED <<code, used, uidx, fidx, active, history>>

Tombstone(p) ==
  LET q == req[p] IN
  /\ At(p, "tombstone")
  /\ used' = [used EXCEPT ![q.from] = q.grant]
  /\ Goto(p, "unindex_user")
  /\ UNCHANGED <<code, tok, uidx, fidx, active, history>>

UnindexUser(p) ==
  LET q == req[p] IN
  /\ At(p, "unindex_user")
  /\ uidx' = [uidx EXCEPT ![q.grant.user] = @ \ {q.from}]
  /\ Goto(p, "unindex_family")
  /\ UNCHANGED <<code, tok, used, fidx, active, history>>

UnindexFamily(p) ==
  LET q == req[p] IN
  /\ At(p, "unindex_family")
  /\ fidx' = [fidx EXCEPT ![q.grant.family] = @ \ {q.from}]
  /\ Goto(p, "check")
  /\ UNCHANGED <<code, tok, used, uidx, active, history>>

\* A token of another client, or of an inactive account, is burned.  A code
\* grants a refresh token only with offline_access.
MayIssue(q) ==
  /\ q.grant.client = q.client
  /\ active[q.grant.user]
  /\ q.from \in Codes => Offline \in q.scopes

Check(p) ==
  /\ At(p, "check")
  /\ IF MayIssue(req[p]) THEN Goto(p, "set") ELSE Finish(p)
  /\ UNCHANGED <<store, active, history>>

\* The session Save stores: the family goes on, or starts with this token.
Successor(q, t) ==
  [q.grant EXCEPT !.client = q.client, !.scopes = q.scopes, !.pkce = FALSE,
                  !.family = IF @ = None THEN t ELSE @]

SaveSet(p) ==
  LET q == req[p] IN
  /\ At(p, "set")
  /\ \E t \in Fresh :
       LET g == Successor(q, t) IN
       /\ tok' = [tok EXCEPT ![t] = g]
       /\ issued' = [issued EXCEPT ![t] = g]
       /\ parent' = [parent EXCEPT ![t] = q.from]
       /\ req' = [req EXCEPT ![p] = [Done EXCEPT !.pc = "index_user",
                                                 !.from = t, !.grant = g]]
  /\ UNCHANGED <<code, used, uidx, fidx, active, held, deleted>>

IndexUser(p) ==
  LET q == req[p] IN
  /\ At(p, "index_user")
  /\ uidx' = [uidx EXCEPT ![q.grant.user] = @ \cup {q.from}]
  /\ Goto(p, "index_family")
  /\ UNCHANGED <<code, tok, used, fidx, active, history>>

IndexFamily(p) ==
  LET q == req[p] IN
  /\ At(p, "index_family")
  /\ fidx' = [fidx EXCEPT ![q.grant.family] = @ \cup {q.from}]
  /\ held' = held \cup {q.from}
  /\ Finish(p)
  /\ UNCHANGED <<code, tok, used, uidx, active, issued, parent, deleted>>

-----------------------------------------------------------------------------
(* An unknown token: handleMiss and revokeFamily.                          *)

HandleMiss(p) ==
  LET g == used[req[p].from] IN
  /\ At(p, "miss")
  /\ IF g = None
       THEN Finish(p)
       ELSE req' = [req EXCEPT ![p].pc = "members", ![p].grant = g]
  /\ UNCHANGED <<store, active, history>>

Members(p) ==
  LET S == fidx[req[p].grant.family] IN
  /\ At(p, "members")
  /\ req' = [req EXCEPT ![p].snap = S,
                        ![p].pc = IF S = {} THEN "del_family"
                                            ELSE "del_tokens"]
  /\ UNCHANGED <<store, active, history>>

Without(S) == [t \in Tokens |-> IF t \in S THEN None ELSE tok[t]]

DelTokens(p) ==
  /\ At(p, "del_tokens")
  /\ tok' = Without(req[p].snap)
  /\ Goto(p, "srem_user")
  /\ UNCHANGED <<code, used, uidx, fidx, active, history>>

SremUser(p) ==
  LET q == req[p] IN
  /\ At(p, "srem_user")
  /\ uidx' = [uidx EXCEPT ![q.grant.user] = @ \ q.snap]
  /\ Goto(p, "del_family")
  /\ UNCHANGED <<code, tok, used, fidx, active, history>>

\* The last command; the caller is told of the reuse.
DelFamily(p) ==
  LET f == req[p].grant.family IN
  /\ At(p, "del_family")
  /\ \/ fidx' = [fidx EXCEPT ![f] = {}]
     \/ RedisErrors /\ UNCHANGED fidx
  /\ Finish(p)
  /\ UNCHANGED <<code, tok, used, uidx, active, history>>

-----------------------------------------------------------------------------
(* Revocation by the client, and of all grants of a user.                  *)

\* RevokeRefreshToken: Peek, and only the owner goes on.
Peek(p, t, cl) ==
  /\ At(p, "idle") /\ t \in held /\ tok[t] # None
  /\ tok[t].client = cl
  /\ req' = [req EXCEPT ![p] = [Done EXCEPT !.pc = "delete", !.from = t]]
  /\ UNCHANGED <<store, active, history>>

\* GETDEL without a tombstone.
DeleteAsConsume(p) ==  \* mutant: revocation through GetAndConsume
  LET t == req[p].from
      g == tok[t]
  IN
  /\ At(p, "delete")
  /\ tok' = [tok EXCEPT ![t] = None]
  /\ IF g = None
       THEN Finish(p) /\ UNCHANGED deleted
       ELSE /\ req' = [req EXCEPT ![p].pc = "drop_user", ![p].grant = g]
            /\ deleted' = deleted \cup {t}
  /\ used' = [used EXCEPT ![t] = g]
  /\ UNCHANGED <<code, uidx, fidx, active, issued, parent, held>>
Delete(p) ==
  LET t == req[p].from
      g == tok[t]
  IN
  /\ At(p, "delete")
  /\ tok' = [tok EXCEPT ![t] = None]
  /\ IF g = None
       THEN Finish(p) /\ UNCHANGED deleted
       ELSE /\ req' = [req EXCEPT ![p].pc = "drop_user", ![p].grant = g]
            /\ deleted' = deleted \cup {t}
  /\ UNCHANGED <<code, used, uidx, fidx, active, issued, parent, held>>

DropUser(p) ==
  LET q == req[p] IN
  /\ At(p, "drop_user")
  /\ uidx' = [uidx EXCEPT ![q.grant.user] = @ \ {q.from}]
  /\ Goto(p, "drop_family")
  /\ UNCHANGED <<code, tok, used, fidx, active, history>>

DropFamily(p) ==
  LET q == req[p] IN
  /\ At(p, "drop_family")
  /\ fidx' = [fidx EXCEPT ![q.grant.family] = @ \ {q.from}]
  /\ Finish(p)
  /\ UNCHANGED <<code, tok, used, uidx, active, history>>

\* SMEMBERS of the user's index ...
BeginRevokeAll(p, u) ==
  /\ At(p, "idle")
  /\ req' = [req EXCEPT ![p] = [Done EXCEPT !.pc = "del_all", !.user = u,
                                            !.snap = uidx[u]]]
  /\ UNCHANGED <<store, active, history>>

\* ... then one DEL of the tokens found and of the index itself.
RevokeAllForUser(p) ==
  LET q == req[p] IN
  /\ At(p, "del_all")
  /\ tok' = Without(q.snap)
  /\ uidx' = [uidx EXCEPT ![q.user] = {}]
  /\ Finish(p)
  /\ UNCHANGED <<code, used, fidx, active, history>>

SetActive(u) ==
  /\ active' = [active EXCEPT ![u] = ~active[u]]
  /\ UNCHANGED <<store, req, history>>

-----------------------------------------------------------------------------
(* Expiry and failures.                                                    *)

\* TTLs: codes 5 minutes, tokens and tombstones 30 days.
Expire ==
  /\ \/ \E c \in Codes : /\ code[c] # None
                         /\ code' = [code EXCEPT ![c] = None]
                         /\ UNCHANGED <<tok, used>>
     \/ \E t \in Tokens : /\ tok[t] # None
                          /\ tok' = [tok EXCEPT ![t] = None]
                          /\ UNCHANGED <<code, used>>
     \/ \E t \in Tokens : /\ used[t] # None
                          /\ used' = [used EXCEPT ![t] = None]
                          /\ UNCHANGED <<code, tok>>
  /\ UNCHANGED <<uidx, fidx, active, req, history>>

\* Every Save renews the TTL of both indexes after that of the token, so an
\* index outlives the tokens it lists.
ExpireIndex ==
  /\ \/ \E u \in Users : /\ uidx[u] # {}
                         /\ \A t \in uidx[u] : tok[t] = None
                         /\ uidx' = [uidx EXCEPT ![u] = {}]
                         /\ UNCHANGED fidx
     \/ \E f \in Tokens : /\ fidx[f] # {}
                          /\ \A t \in fidx[f] : tok[t] = None
                          /\ fidx' = [fidx EXCEPT ![f] = {}]
                          /\ UNCHANGED uidx
  /\ UNCHANGED <<code, tok, used, active, req, history>>

\* A command fails.  The pipeline of GetAndConsume and the commands of
\* revokeFamily ignore errors; every other one ends the request.
CommandFails(p) ==
  /\ RedisErrors
  /\ \/ /\ req[p].pc \in {"tombstone", "unindex_user", "unindex_family"}
        /\ Goto(p, "check")
     \/ At(p, "del_tokens") /\ Goto(p, "srem_user")
     \/ req[p].pc \in {"members", "srem_user"} /\ Goto(p, "del_family")
     \/ /\ req[p].pc \in {"check", "set", "index_user", "index_family", "miss",
                          "delete", "drop_user", "drop_family", "del_all"}
        /\ Finish(p)
  /\ UNCHANGED <<store, active, history>>

\* A GETDEL whose answer is lost: the token is gone, the request ends (a retry
\* by the Redis client finds nothing, and no tombstone).
ConsumeAnswerLost(p, t) ==
  /\ RedisErrors
  /\ At(p, "idle") /\ t \in held /\ tok[t] # None
  /\ tok' = [tok EXCEPT ![t] = None]
  /\ UNCHANGED <<code, used, uidx, fidx, active, req, history>>

\* POST /oauth2/token
TokenRequest(p) ==
  \/ \E c \in Codes, cl \in Clients, proof \in Proofs :
       ExchangeCode(p, c, cl, proof)
  \/ \E t \in Tokens, cl \in Clients, S \in SUBSET Scopes : Consume(p, t, cl, S)
  \/ \E t \in Tokens : ConsumeAnswerLost(p, t)

\* POST /oauth2/revoke
RevokeRequest(p) == \E t \in Tokens, cl \in Clients : Peek(p, t, cl)

Start(p) ==
  \/ TokenRequest(p) \/ RevokeRequest(p)
  \/ \E u \in Users : BeginRevokeAll(p, u)

Step(p) ==
  \/ Tombstone(p) \/ UnindexUser(p) \/ UnindexFamily(p) \/ Check(p)
  \/ SaveSet(p) \/ IndexUser(p) \/ IndexFamily(p)
  \/ HandleMiss(p) \/ Members(p) \/ DelTokens(p) \/ SremUser(p) \/ DelFamily(p)
  \/ Delete(p) \/ DropUser(p) \/ DropFamily(p) \/ RevokeAllForUser(p)

Next ==
  \/ \E c \in Codes, u \in Users, cl \in Clients, S \in SUBSET Scopes,
        pkce \in BOOLEAN : CreateAuthCodeSession(c, u, cl, S, pkce)
  \/ \E p \in Handlers : Start(p) \/ Step(p) \/ CommandFails(p)
  \/ \E u \in Users : SetActive(u)
  \/ Expire
  \/ ExpireIndex

Spec == Init /\ [][Next]_vars

-----------------------------------------------------------------------------
(* Properties.                                                             *)

\* The keys, indexes and locals keep the types the code marshals.
TypeOK ==
  /\ code \in [Codes -> Grant \cup {None}]
  /\ tok \in [Tokens -> Grant \cup {None}]
  /\ used \in [Tokens -> Grant \cup {None}]
  /\ uidx \in [Users -> SUBSET Tokens]
  /\ fidx \in [Tokens -> SUBSET Tokens]
  /\ active \in [Users -> BOOLEAN]
  /\ req \in [Handlers -> Request]
  /\ issued \in [Codes \cup Tokens -> Grant \cup {None}]
  /\ parent \in [Tokens -> Codes \cup Tokens \cup {None}]
  /\ held \subseteq Tokens
  /\ deleted \subseteq Tokens

\* "Each token is single-use (consumed on read)", and so is each code: however
\* requests race, no two tokens were issued for the same code or token.
SingleUse ==
  \A s, t \in Tokens : parent[s] # None /\ parent[s] = parent[t] => s = t

\* A refresh never widens a grant: along a chain the user, the client and the
\* family stay and the scopes only shrink, back to what the user consented to.
GrantNeverWidens ==
  \A t \in Tokens :
    parent[t] # None =>
      LET g == issued[t]
          old == issued[parent[t]]
      IN
      /\ g.user = old.user /\ g.client = old.client
      /\ g.scopes \subseteq old.scopes
      /\ g.family = IF old.family = None THEN t ELSE old.family

\* "All tokens derived from one authorization-code exchange share" a family:
\* at most one token of a family is live.
OneLivePerFamily ==
  \A s, t \in Tokens :
    tok[s] # None /\ tok[t] # None /\ tok[s].family = tok[t].family => s = t

\* Delete: explicit revocation "must not later be mistaken for token-theft
\* reuse", whatever raced with it.
RevokedIsNotReused == \A t \in deleted : used[t] = None

\* A client that revoked its live token has ended the grant: no refresh that
\* was under way brings the family back.
RevokedGrantStaysRevoked ==
  \A t \in Tokens, d \in deleted :
    tok[t] # None => tok[t].family # issued[d].family
=============================================================================
