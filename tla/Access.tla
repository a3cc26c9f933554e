--------------------------------- MODULE Access ---------------------------------
(***************************************************************************)
(* Access tokens and who they admit: service accounts and their secrets    *)
(* (package serviceaccount), POST /auth/token, the middleware Authenticate *)
(* with EvaluateAccess, the blocklist of token ids and the replay store of *)
(* DPoP proofs in Redis.                                                   *)
(*                                                                         *)
(* A subject is a user or a service account; its grants are its roles or   *)
(* its scopes.  Subjects share nothing, so a behaviour follows one, chosen *)
(* at the start; and of the DPoP proofs it follows one, with any iat.  How *)
(* users are changed and signed in is the matter of modules Accounts,      *)
(* Login and Sessions; here it takes one step.                             *)
(* FindByClientID and FindByID read the row and the grants in two          *)
(* statements; other requests run in between.  A check of times is one     *)
(* step with the command that follows it.                                  *)
(***************************************************************************)
EXTENDS Integers

CONSTANTS
  Kinds,         \* the kinds of subject followed: "user", "service"
  Grants,        \* roles or scopes
  Tokens,        \* token ids; each is issued at most once
  Secrets,       \* client secrets; each is generated at most once
  Handlers,
  None,
  TokenTTL,      \* lifetime of an access token
  Skew,          \* how far a proof's iat may be from the clock (2 minutes)
  ReplayWindow,  \* dpopReplayWindow (5 minutes)
  Overlap,       \* how long a replaced secret is accepted (1 hour)
  Outages,       \* TRUE: Redis may be unreachable for a command
  MaxTime        \* bound on the clock

ASSUME AccessAssumption ==
  /\ {TokenTTL, Skew, ReplayWindow, Overlap, MaxTime} \subseteq Nat
  /\ Outages \in BOOLEAN
  /\ Kinds \subseteq {"user", "service"}
  /\ ReplayWindow > 2 * Skew  \* "must comfortably exceed the skew window"
  /\ None \notin Tokens \cup Secrets \cup Nat

Times == 0..MaxTime

Row == [active : BOOLEAN, grants : SUBSET Grants, expired : BOOLEAN]
Token == [grants : SUBSET Grants, exp : Nat, bound : BOOLEAN]
Keys == [cur : Secrets, old : Secrets \cup {None}, oldUntil : Nat]

ASSUME NoneAssumption == None \notin Row \cup Token \cup Keys

PCs == {"idle", "token_scopes", "blocklist", "row", "grants", "proof",
        "admitted", "rotate"}

\* barred and lacks are history: the token was logged out before the request
\* began and Redis answered it; what the subject has lacked since the request
\* began, to be admitted with the token.
Request == [pc : PCs, token : Tokens \cup {None}, bound : BOOLEAN,
            secret : Secrets \cup {None}, at : Times,
            barred : BOOLEAN, lacks : SUBSET {"status", "grants"}]

VARIABLES
  clock,
  kind,      \* the kind of the subject followed
  row,       \* its row and grants, None when deleted
  keys,      \* the secrets, when it is a service account
  tok,       \* the tokens issued to it
  blocked,   \* jti:blocked:<jti>: when the key expires
  iat,       \* the proof followed: when it says it was made
  used,      \* dpop:jti:<its jti>: when the key expires
  req,
  accepted,  \* history: how often the replay store let the proof pass
  retired,   \* history: when a secret was replaced
  restored   \* history: secrets written back as old by an overtaken rotation

fixed == <<kind, iat>>
redis == <<blocked, used>>
hist == <<accepted, retired, restored>>
vars == <<clock, fixed, row, keys, tok, redis, req, hist>>

Idle == [pc |-> "idle", token |-> None, bound |-> FALSE, secret |-> None,
         at |-> 0, barred |-> FALSE, lacks |-> {}]

Init ==
  /\ clock = 0
  /\ kind \in Kinds /\ iat \in Times
  /\ row = IF kind = "service" THEN None
           ELSE [active |-> TRUE, grants |-> {}, expired |-> FALSE]
  /\ keys = None
  /\ tok = [t \in Tokens |-> None]
  /\ blocked = [t \in Tokens |-> 0] /\ used = 0
  /\ req = [p \in Handlers |-> Idle]
  /\ accepted = 0
  /\ retired = [s \in Secrets |-> None] /\ restored = {}

At(p, pc) == req[p].pc = pc
Goto(p, pc) == req' = [req EXCEPT ![p].pc = pc]
Finish(p) == req' = [req EXCEPT ![p] = Idle]

Tick ==
  /\ clock < MaxTime
  /\ clock' = clock + 1
  /\ UNCHANGED <<fixed, row, keys, tok, redis, req, hist>>

\* What a subject with row r lacks to be admitted with t: the status, the
\* grants of the token.  A token without grants permits nothing.
Lacks(r, t) ==
  (IF r # None /\ r.active THEN {} ELSE {"status"}) \cup
  (IF r # None /\ tok[t].grants \in {{}, r.grants} THEN {} ELSE {"grants"})

\* The row changes; requests under way no longer lack what it now has.
SetRow(r) ==
  /\ row' = r
  /\ req' = [p \in Handlers |-> [req[p] EXCEPT
                !.lacks = IF @ = {} THEN {} ELSE @ \cap Lacks(r, req[p].token)]]

-----------------------------------------------------------------------------
(* Service accounts.                                                       *)

\* Secrets that never were in the row.
FreshSecrets ==
  {s \in Secrets : retired[s] = None /\ (keys = None \/ keys.cur # s)}

\* Create: the row, its scopes and the first secret in one transaction.
Create ==
  /\ kind = "service" /\ keys = None
  /\ \E G \in SUBSET Grants, s \in FreshSecrets :
       /\ row' = [active |-> TRUE, grants |-> G, expired |-> FALSE]
       /\ keys' = [cur |-> s, old |-> None, oldUntil |-> 0]
  /\ UNCHANGED <<clock, fixed, tok, redis, req, hist>>

\* Update: its first statement locks the row until the commit.  SetActive
\* changes the status alone, and time brings the expiry.
Update ==
  /\ keys # None /\ row # None
  /\ \E r \in Row : SetRow(r)
  /\ UNCHANGED <<clock, fixed, keys, tok, redis, hist>>

SetActive(active) ==
  /\ keys # None /\ row # None
  /\ SetRow([row EXCEPT !.active = active])
  /\ UNCHANGED <<clock, fixed, keys, tok, redis, hist>>

Expires ==
  /\ keys # None /\ row # None
  /\ SetRow([row EXCEPT !.expired = TRUE])
  /\ UNCHANGED <<clock, fixed, keys, tok, redis, hist>>

\* Revoke deletes the row; a client id is never given out again.
Revoke ==
  /\ keys # None /\ row # None
  /\ row' = None
  /\ UNCHANGED <<clock, fixed, keys, tok, redis, req, hist>>

\* RotateSecret, Begin and SELECT: the current secret, without a lock.
RotateSelect(p) ==
  /\ At(p, "idle") /\ keys # None /\ row # None
  /\ req' = [req EXCEPT ![p].pc = "rotate", ![p].secret = keys.cur,
                        ![p].at = clock]
  /\ UNCHANGED <<clock, fixed, row, keys, tok, redis, hist>>

\* RotateSecret, UPDATE and commit: what it read becomes the old secret, for
\* an hour from the start of the transaction, NOW().
Rotated(q, s) == [cur |-> s, old |-> q.secret, oldUntil |-> q.at + Overlap]
RotateUpdate(p) ==
  /\ At(p, "rotate")
  /\ IF row = None THEN UNCHANGED <<keys, retired, restored>>
     ELSE \E s \in FreshSecrets :
            /\ keys' = Rotated(req[p], s)
            /\ retired' = [retired EXCEPT ![keys.cur] = clock]
            /\ restored' = restored \cup ({req[p].secret} \ {keys.cur})
  /\ Finish(p)
  /\ UNCHANGED <<clock, fixed, row, tok, redis, accepted>>

-----------------------------------------------------------------------------
(* DPoP proofs.                                                            *)

\* ValidateDPoPProofWithJTI: iat within the skew on either side.
InTime == clock - iat \in -Skew..Skew

\* ConsumeDPoPProof: one SETNX; without Redis the proof passes.
UsedUntilSkew(now) == now + Skew  \* mutant: remembered for the skew only
UsedUntil(now) == now + ReplayWindow
AcceptProof ==
  \/ /\ InTime /\ used <= clock
     /\ used' = UsedUntil(clock)
     /\ accepted' = IF accepted = 0 THEN 1 ELSE 2
  \/ InTime /\ Outages /\ UNCHANGED <<used, accepted>>
  \/ UNCHANGED <<used, accepted>>  \* another proof

-----------------------------------------------------------------------------
(* POST /auth/token: ClientCredentials.                                    *)

\* The current secret, or the one it replaced while the overlap lasts.
SecretValidBoth(s) == s \in {keys.cur, keys.old}  \* mutant: without end
SecretValid(s) == s = keys.cur \/ (s = keys.old /\ clock < keys.oldUntil)

\* A proof, when there is one, is checked and consumed first, and a refused
\* one ends the request; then the row is read.
TokenRow(p, s) ==
  /\ At(p, "idle") /\ keys # None
  /\ \E bound \in BOOLEAN :
       /\ IF bound THEN AcceptProof ELSE UNCHANGED <<used, accepted>>
       /\ IF row # None /\ row.active /\ ~row.expired /\ SecretValid(s)
            THEN req' = [req EXCEPT ![p].pc = "token_scopes", ![p].bound = bound]
            ELSE UNCHANGED req
  /\ UNCHANGED <<clock, fixed, row, keys, tok, blocked, retired, restored>>

\* Signed with what the subject holds now, for TokenTTL.
Issued(G, bound) == [grants |-> G, exp |-> clock + TokenTTL, bound |-> bound]

\* getScopes: the rows of the moment, none once the account is deleted, and
\* none when the statement fails.
ScopesRead == {IF row = None THEN {} ELSE row.grants} \cup
              (IF Outages THEN {{}} ELSE {})

TokenIssue(p) ==
  /\ At(p, "token_scopes")
  /\ \E t \in Tokens, G \in ScopesRead :
       /\ tok[t] = None
       /\ tok' = [tok EXCEPT ![t] = Issued(G, req[p].bound)]
  /\ Finish(p)
  /\ UNCHANGED <<clock, fixed, row, keys, redis, hist>>

-----------------------------------------------------------------------------
(* Requests with a token: Authenticate and EvaluateAccess.                 *)

\* ValidateAccessToken: signature, use and expiry.
Valid(t) == tok[t] # None /\ clock < tok[t].exp

\* The token is validated first.
Authenticate(p, t) ==
  /\ At(p, "idle") /\ Valid(t)
  /\ req' = [req EXCEPT ![p].pc = "blocklist", ![p].token = t,
                        ![p].barred = blocked[t] # 0,
                        ![p].lacks = Lacks(row, t)]
  /\ UNCHANGED <<clock, fixed, row, keys, tok, redis, hist>>

\* IsRevoked fails open.
IsRevoked(p) ==
  /\ At(p, "blocklist")
  /\ \/ IF blocked[req[p].token] > clock THEN Finish(p) ELSE Goto(p, "row")
     \/ Outages /\ req' = [req EXCEPT ![p].pc = "row", ![p].barred = FALSE]
  /\ UNCHANGED <<clock, fixed, row, keys, tok, redis, hist>>

\* The subject has to be there and active; its expiry is not looked at.
EvaluateRow(p) ==
  /\ At(p, "row")
  /\ IF row # None /\ row.active THEN Goto(p, "grants") ELSE Finish(p)
  /\ UNCHANGED <<clock, fixed, row, keys, tok, redis, hist>>

\* The token's roles or scopes have to be the subject's.  A failed read of a
\* user's roles is refused, of a service account's scopes taken for none.
GrantsMatchAny(G, k) == TRUE  \* mutant: the grants are not compared
GrantsMatch(G, k) == G = k.grants
EvaluateGrants(p) ==
  LET k == tok[req[p].token] IN
  /\ At(p, "grants")
  /\ \E G \in IF kind = "service" THEN ScopesRead ELSE {row.grants} :
       IF ~GrantsMatch(G, k) THEN Finish(p)
       ELSE Goto(p, IF k.bound THEN "proof" ELSE "admitted")
  /\ UNCHANGED <<clock, fixed, row, keys, tok, redis, hist>>

\* A bound token needs a proof in time that was not used before.
ConsumeDPoPProof(p) ==
  /\ At(p, "proof")
  /\ \/ AcceptProof /\ Goto(p, "admitted")
     \/ Finish(p) /\ UNCHANGED <<used, accepted>>
  /\ UNCHANGED <<clock, fixed, row, keys, tok, blocked, retired, restored>>

\* The handler behind the middleware answers.
Answer(p) ==
  /\ At(p, "admitted")
  /\ Finish(p)
  /\ UNCHANGED <<clock, fixed, row, keys, tok, redis, hist>>

-----------------------------------------------------------------------------
(* Users: a login or refresh issues a token, an administrator changes the  *)
(* row, a logout blocks the token for the rest of its life.                *)

IssueUserToken(t) ==
  /\ kind = "user" /\ row.active /\ tok[t] = None
  /\ tok' = [tok EXCEPT ![t] = Issued(row.grants, FALSE)]
  /\ UNCHANGED <<clock, fixed, row, keys, redis, req, hist>>

ChangeUser ==
  /\ kind = "user"
  /\ \E a \in BOOLEAN, G \in SUBSET Grants :
       SetRow([row EXCEPT !.active = a, !.grants = G])
  /\ UNCHANGED <<clock, fixed, keys, tok, redis, hist>>

\* revokeJTI: the key lives as long as the token.
BlockedUntilShort(t) == clock + 1  \* mutant: a fixed time
BlockedUntil(t) == tok[t].exp
Logout(t) ==
  /\ kind = "user" /\ Valid(t)
  /\ blocked' = [blocked EXCEPT ![t] = BlockedUntil(t)]
  /\ UNCHANGED <<clock, fixed, row, keys, tok, used, req, hist>>

Next ==
  \/ Tick \/ Create \/ Update \/ Revoke \/ Expires \/ ChangeUser
  \/ \E b \in BOOLEAN : SetActive(b)
  \/ \E t \in Tokens : IssueUserToken(t) \/ Logout(t)
  \/ \E p \in Handlers :
       \/ RotateSelect(p) \/ RotateUpdate(p)
       \/ \E s \in Secrets : TokenRow(p, s)
       \/ TokenIssue(p)
       \/ \E t \in Tokens : Authenticate(p, t)
       \/ IsRevoked(p) \/ EvaluateRow(p) \/ EvaluateGrants(p)
       \/ ConsumeDPoPProof(p) \/ Answer(p)

Spec == Init /\ [][Next]_vars

-----------------------------------------------------------------------------
(* Properties.                                                             *)

\* Every variable has its type.
TypeOK ==
  /\ clock \in Times /\ kind \in Kinds /\ iat \in Times
  /\ row \in Row \cup {None} /\ (kind = "user" => row # None)
  /\ keys \in Keys \cup {None}
  /\ tok \in [Tokens -> Token \cup {None}]
  /\ blocked \in [Tokens -> Nat] /\ used \in Nat
  /\ req \in [Handlers -> Request]
  /\ accepted \in 0..2
  /\ retired \in [Secrets -> Times \cup {None}] /\ restored \subseteq Secrets

\* EvaluateAccess, which reads the status and the grants in two statements: a
\* request is admitted only if since it began the subject was active at some
\* moment, and at some moment had the token's grants.  One moment need not do
\* for both.
AdmittedWasEntitled ==
  \A p \in Handlers : At(p, "admitted") => req[p].lacks = {}

\* revokeJTI and IsRevoked: once a logout has blocked a token, no request that
\* begins later is admitted with it, up to the moment the token expires, as
\* long as Redis answers.
BlockedTokenRefused ==
  \A p \in Handlers :
    At(p, "admitted") /\ req[p].barred => clock >= tok[req[p].token].exp

\* dpopReplayWindow, "must comfortably exceed the skew window": the replay
\* store lets no proof pass twice while its iat is still accepted, whether at
\* the token endpoint or in Authenticate.
ProofAcceptedOnce == accepted <= 1

\* RotateSecret and ClientCredentials: a replaced secret is accepted until
\* the end of the overlap that began when it was replaced, unless a rotation
\* that had read it before another one committed has written it back.
ReplacedSecretRetires ==
  keys # None =>
    \A s \in Secrets :
      SecretValid(s) /\ retired[s] # None =>
        clock < retired[s] + Overlap \/ s \in restored
=================================================================================
