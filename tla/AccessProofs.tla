------------------------------ MODULE AccessProofs ------------------------------
(***************************************************************************)
(* Proofs about Access for every set of grants, tokens, secrets and        *)
(* handlers, every lifetime and every length of time.                      *)
(***************************************************************************)
EXTENDS Access, TLAPS

(***************************************************************************)
(* The strengthening says what a request knows after each of its checks.   *)
(* What it has lacked since it began it lacks still (lacks is never more   *)
(* than the row of the moment would give), so a check that succeeds now    *)
(* has emptied it; the exception is a token without grants, which a        *)
(* deleted row still matches, and which lacked nothing when the row was    *)
(* found.                                                                  *)
(***************************************************************************)

\* The request has a token to be admitted with.
TokenPCs == {"blocklist", "row", "grants", "proof", "admitted"}
HasToken(p) ==
  req[p].pc \in TokenPCs => req[p].token \in Tokens /\ tok[req[p].token] # None

\* EvaluateAccess: what each statement has established.
Entitled(p) ==
  LET q == req[p] IN
  /\ q.pc \in TokenPCs => q.lacks \subseteq Lacks(row, q.token)
  /\ q.pc = "grants" => /\ "status" \notin q.lacks
                        /\ tok[q.token].grants = {} => "grants" \notin q.lacks
  /\ q.pc \in {"proof", "admitted"} => q.lacks = {}

\* A request that was barred gets past IsRevoked only after the expiry.
Barred(p) ==
  LET q == req[p] IN
  /\ q.pc = "blocklist" /\ q.barred => blocked[q.token] # 0
  /\ q.pc \in {"row", "grants", "proof", "admitted"} /\ q.barred =>
       clock >= tok[q.token].exp

\* There is nothing to rotate or to sign with before Create, and a rotation
\* began before now.
WithKeys(p) ==
  /\ req[p].pc \in {"token_scopes", "rotate"} => keys # None
  /\ req[p].pc = "rotate" => req[p].secret \in Secrets /\ req[p].at <= clock

Known(p) == HasToken(p) /\ Entitled(p) /\ Barred(p) /\ WithKeys(p)

\* No token is issued to a service account before Create.
NoneBefore == kind = "service" /\ keys = None => \A t \in Tokens : tok[t] = None

\* A user has no client secrets.
UserHasNoKeys == kind = "user" => keys = None

\* revokeJTI: the key holds the token's own expiry.
BlockedInv ==
  \A t \in Tokens : blocked[t] # 0 => tok[t] # None /\ blocked[t] = tok[t].exp

\* The key of an accepted proof outlives the proof.
Remembered == accepted # 0 => used > iat + Skew

\* RotateSecret: the current secret was never replaced, the old one when its
\* overlap began or later.
Rotation ==
  keys # None =>
    /\ retired[keys.cur] = None
    /\ keys.old # None =>
         \/ keys.old \in restored
         \/ /\ retired[keys.old] # None
            /\ keys.oldUntil <= retired[keys.old] + Overlap

Inv ==
  /\ TypeOK
  /\ \A p \in Handlers : Known(p)
  /\ NoneBefore
  /\ UserHasNoKeys
  /\ BlockedInv
  /\ Remembered
  /\ ProofAcceptedOnce
  /\ Rotation

USE DEF At

-----------------------------------------------------------------------------
(* Types, and what a step does to the request that takes it.               *)

\* The constants and the values that are not None.
LEMMA ConstantTypes ==
  /\ TokenTTL \in Nat /\ Skew \in Nat /\ ReplayWindow \in Nat
  /\ Overlap \in Nat /\ MaxTime \in Nat /\ ReplayWindow > 2 * Skew
  /\ None \notin Row /\ None \notin Token /\ None \notin Keys
  /\ None \notin Tokens /\ None \notin Secrets /\ None \notin Nat
BY AccessAssumption, NoneAssumption

\* A request given as a whole.
LEMMA BeginEffect ==
  ASSUME TypeOK, NEW p \in Handlers, NEW r \in Request,
         req' = [req EXCEPT ![p] = r]
  PROVE  /\ req' \in [Handlers -> Request]
         /\ \A q \in Handlers \ {p} : req'[q] = req[q]
         /\ req'[p] = r
BY DEF TypeOK

\* A goroutine without a request.
LEMMA IdleType == Idle \in Request /\ Idle.pc = "idle"
BY ConstantTypes DEF Idle, Request, PCs, Times

\* A finished request is an idle one.
LEMMA FinishEffect ==
  ASSUME TypeOK, NEW p \in Handlers, Finish(p)
  PROVE  /\ req' \in [Handlers -> Request]
         /\ \A q \in Handlers \ {p} : req'[q] = req[q]
         /\ req'[p].pc = "idle"
BY IdleType, BeginEffect DEF Finish

\* Goto changes nothing but the next step.
LEMMA GotoEffect ==
  ASSUME TypeOK, NEW p \in Handlers, NEW pc \in PCs, Goto(p, pc)
  PROVE  /\ req' \in [Handlers -> Request]
         /\ \A q \in Handlers \ {p} : req'[q] = req[q]
         /\ req'[p].pc = pc
         /\ req'[p].token = req[p].token /\ req'[p].barred = req[p].barred
         /\ req'[p].lacks = req[p].lacks
BY DEF TypeOK, Request, Goto

\* An idle request knows nothing and needs nothing.
LEMMA IdleKnown ==
  ASSUME NEW p \in Handlers, req'[p].pc = "idle"
  PROVE  Known(p)'
BY DEF Known, HasToken, Entitled, Barred, WithKeys, TokenPCs

-----------------------------------------------------------------------------
(* DPoP proofs.                                                            *)

\* ConsumeDPoPProof: a proof that is in time finds the key of its first use,
\* since the window is longer than twice the skew.
LEMMA AcceptProofEffect ==
  ASSUME Inv, AcceptProof \/ UNCHANGED <<used, accepted>>, UNCHANGED <<clock, iat>>
  PROVE  used' \in Nat /\ accepted' \in 0..2 /\ Remembered' /\ ProofAcceptedOnce'
<1>1. /\ clock \in Nat /\ iat \in Nat /\ used \in Nat /\ accepted \in 0..2
      /\ Remembered /\ accepted <= 1
  BY ConstantTypes DEF Inv, TypeOK, Times, ProofAcceptedOnce
<1>2. CASE UNCHANGED <<used, accepted>>
  BY <1>1, <1>2 DEF Remembered, ProofAcceptedOnce
<1>3. CASE /\ InTime /\ used <= clock
           /\ used' = UsedUntil(clock)
           /\ accepted' = IF accepted = 0 THEN 1 ELSE 2
  <2>1. clock - iat >= -Skew /\ clock - iat <= Skew
    BY <1>1, <1>3, ConstantTypes DEF InTime
  <2>2. accepted = 0
    BY <1>1, <1>3, <2>1, ConstantTypes DEF Remembered
  <2>3. used' = clock + ReplayWindow /\ accepted' = 1
    BY <1>3, <2>2 DEF UsedUntil
  <2> QED BY <1>1, <2>1, <2>3, ConstantTypes DEF Remembered, ProofAcceptedOnce
<1> QED BY <1>2, <1>3 DEF AcceptProof

-----------------------------------------------------------------------------
(* Steps of one request.                                                   *)

\* The request that moves knows what it must; nothing else changes, but the
\* replay store.
LEMMA MoveStep ==
  ASSUME Inv, NEW p \in Handlers,
         req' \in [Handlers -> Request],
         \A q \in Handlers \ {p} : req'[q] = req[q],
         Known(p)',
         UNCHANGED <<clock, kind, iat, row, keys, tok, blocked, retired, restored>>,
         AcceptProof \/ UNCHANGED <<used, accepted>>
  PROVE  Inv'
<1>1. used' \in Nat /\ accepted' \in 0..2 /\ Remembered' /\ ProofAcceptedOnce'
  BY AcceptProofEffect
<1>2. TypeOK'
  BY <1>1 DEF Inv, TypeOK
<1>3. ASSUME NEW q \in Handlers PROVE Known(q)'
  <2>1. CASE q = p
    BY <2>1
  <2>2. CASE q # p
    BY <2>2 DEF Inv, Known, HasToken, Entitled, Barred, WithKeys, Lacks
  <2> QED BY <2>1, <2>2
<1>4. NoneBefore' /\ UserHasNoKeys' /\ BlockedInv' /\ Rotation'
  BY DEF Inv, NoneBefore, UserHasNoKeys, BlockedInv, Rotation
<1> QED BY <1>1, <1>2, <1>3, <1>4 DEF Inv

\* A request ends.
LEMMA EndStep ==
  ASSUME Inv, NEW p \in Handlers, Finish(p),
         UNCHANGED <<clock, kind, iat, row, keys, tok, blocked, retired, restored>>,
         AcceptProof \/ UNCHANGED <<used, accepted>>
  PROVE  Inv'
<1>1. TypeOK
  BY DEF Inv
<1> QED BY <1>1, FinishEffect, IdleKnown, MoveStep

\* Authenticate notes what the subject lacks now.
LEMMA AuthenticateStep ==
  ASSUME Inv, NEW p \in Handlers, NEW t \in Tokens, Authenticate(p, t)
  PROVE  Inv'
<1> DEFINE b == blocked[t] # 0
           L == Lacks(row, t)
           r == [req[p] EXCEPT !.pc = "blocklist", !.token = t, !.barred = b, !.lacks = L]
<1>1. TypeOK /\ req[p] \in Request /\ tok[t] # None
  BY DEF Inv, TypeOK, Authenticate, Valid
<1>2. L \in SUBSET {"status", "grants"} /\ b \in BOOLEAN
  BY DEF Lacks
<1>3. req' = [req EXCEPT ![p].pc = "blocklist", ![p].token = t,
                         ![p].barred = b, ![p].lacks = L]
  BY DEF Authenticate
<1>4. b => blocked[t] # 0
  OBVIOUS
<1>5. L \subseteq Lacks(row, t)
  OBVIOUS
<1> HIDE DEF b, L
<1>6. req' = [req EXCEPT ![p] = r]
  BY <1>1, <1>3 DEF TypeOK
<1>7. r \in Request /\ r.pc = "blocklist" /\ r.token = t /\ r.barred = b /\ r.lacks = L
  BY <1>1, <1>2 DEF Request, PCs
<1> HIDE DEF r
<1>8. /\ req' \in [Handlers -> Request] /\ req'[p] = r
      /\ \A q \in Handlers \ {p} : req'[q] = req[q]
  BY <1>1, <1>6, <1>7, BeginEffect
<1>9. UNCHANGED <<clock, kind, iat, row, keys, tok, blocked, retired, restored,
                  used, accepted>>
  BY DEF Authenticate, fixed, redis, hist
<1>10. L \subseteq Lacks(row, t)'
  BY <1>5, <1>9 DEF Lacks
<1>11. Known(p)'
  BY <1>1, <1>4, <1>7, <1>8, <1>9, <1>10
     DEF Known, HasToken, Entitled, Barred, WithKeys, TokenPCs
<1> QED BY <1>8, <1>9, <1>11, MoveStep

\* IsRevoked: a key that is there stops a request until the token expires.
LEMMA IsRevokedStep ==
  ASSUME Inv, NEW p \in Handlers, IsRevoked(p)
  PROVE  Inv'
<1>0. PICK t : t = req[p].token
  OBVIOUS
<1> USE <1>0
<1>1. /\ TypeOK /\ req[p] \in Request /\ req[p].pc = "blocklist"
      /\ t \in Tokens /\ tok[t] # None /\ req[p].lacks \subseteq Lacks(row, t)
      /\ req[p].barred => blocked[t] # 0
  BY DEF Inv, TypeOK, IsRevoked, Known, HasToken, Entitled, Barred, TokenPCs
<1>2. UNCHANGED <<clock, kind, iat, row, keys, tok, blocked, retired, restored,
                  used, accepted>>
  BY DEF IsRevoked, fixed, redis, hist
<1>3. req[p].lacks \subseteq Lacks(row, t)'
  BY <1>1, <1>2 DEF Lacks
<1>4. CASE blocked[t] > clock /\ Finish(p)
  BY <1>2, <1>4, EndStep
<1>5. CASE ~(blocked[t] > clock) /\ Goto(p, "row")
  <2>1. "row" \in PCs
    BY DEF PCs
  <2>2. /\ req' \in [Handlers -> Request]
        /\ \A q \in Handlers \ {p} : req'[q] = req[q]
        /\ req'[p].pc = "row" /\ req'[p].token = t
        /\ req'[p].barred = req[p].barred /\ req'[p].lacks = req[p].lacks
    BY <1>1, <1>5, <2>1, GotoEffect
  <2>3. req[p].barred => clock >= tok[t].exp
    <3>1. clock \in Nat /\ blocked[t] \in Nat
      BY <1>1, ConstantTypes DEF TypeOK, Times
    <3>2. req[p].barred => blocked[t] = tok[t].exp
      BY <1>1 DEF Inv, BlockedInv
    <3> QED BY <1>5, <3>1, <3>2
  <2>4. Known(p)'
    BY <1>1, <1>2, <1>3, <2>2, <2>3
       DEF Known, HasToken, Entitled, Barred, WithKeys, TokenPCs
  <2> QED BY <1>2, <2>2, <2>4, MoveStep
<1>6. CASE req' = [req EXCEPT ![p].pc = "row", ![p].barred = FALSE]
  <2> DEFINE r == [req[p] EXCEPT !.pc = "row", !.barred = FALSE]
  <2>1. req' = [req EXCEPT ![p] = r]
    BY <1>1, <1>6 DEF TypeOK
  <2>2. /\ r \in Request /\ r.pc = "row" /\ r.token = t /\ r.barred = FALSE
        /\ r.lacks = req[p].lacks
    BY <1>1 DEF Request, PCs
  <2> HIDE DEF r
  <2>3. /\ req' \in [Handlers -> Request] /\ req'[p] = r
        /\ \A q \in Handlers \ {p} : req'[q] = req[q]
    BY <1>1, <2>1, <2>2, BeginEffect
  <2>4. Known(p)'
    BY <1>1, <1>2, <1>3, <2>2, <2>3
       DEF Known, HasToken, Entitled, Barred, WithKeys, TokenPCs
  <2> QED BY <1>2, <2>3, <2>4, MoveStep
<1> QED BY <1>4, <1>5, <1>6 DEF IsRevoked

\* EvaluateAccess, the row: it is there and active, so the status is not
\* lacking, nor are the grants of a token that has none.
LEMMA EvaluateRowStep ==
  ASSUME Inv, NEW p \in Handlers, EvaluateRow(p)
  PROVE  Inv'
<1>0. PICK t : t = req[p].token
  OBVIOUS
<1> USE <1>0
<1>1. /\ TypeOK /\ req[p].pc = "row"
      /\ t \in Tokens /\ tok[t] # None /\ req[p].lacks \subseteq Lacks(row, t)
      /\ req[p].barred => clock >= tok[t].exp
  BY DEF Inv, EvaluateRow, Known, HasToken, Entitled, Barred, TokenPCs
<1>2. UNCHANGED <<clock, kind, iat, row, keys, tok, blocked, retired, restored,
                  used, accepted>>
  BY DEF EvaluateRow, fixed, redis, hist
<1>3. CASE ~(row # None /\ row.active)
  BY <1>2, <1>3, EndStep DEF EvaluateRow
<1>4. CASE row # None /\ row.active
  <2>1. Goto(p, "grants") /\ "grants" \in PCs
    BY <1>4 DEF EvaluateRow, PCs
  <2>2. /\ req' \in [Handlers -> Request]
        /\ \A q \in Handlers \ {p} : req'[q] = req[q]
        /\ req'[p].pc = "grants" /\ req'[p].token = t
        /\ req'[p].barred = req[p].barred /\ req'[p].lacks = req[p].lacks
    BY <1>1, <2>1, GotoEffect
  <2>3. /\ "status" \notin req[p].lacks
        /\ tok[t].grants = {} => "grants" \notin req[p].lacks
        /\ req[p].lacks \subseteq Lacks(row, t)'
    BY <1>1, <1>2, <1>4 DEF Lacks
  <2>4. Known(p)'
    BY <1>1, <1>2, <2>2, <2>3
       DEF Known, HasToken, Entitled, Barred, WithKeys, TokenPCs
  <2> QED BY <1>2, <2>2, <2>4, MoveStep
<1> QED BY <1>3, <1>4

\* EvaluateAccess, the grants: they are the row's, or there are none.
LEMMA EvaluateGrantsStep ==
  ASSUME Inv, NEW p \in Handlers, EvaluateGrants(p)
  PROVE  Inv'
<1> DEFINE t == req[p].token
<1>1. /\ TypeOK /\ req[p].pc = "grants"
      /\ t \in Tokens /\ tok[t] # None /\ req[p].lacks \subseteq Lacks(row, t)
      /\ "status" \notin req[p].lacks
      /\ tok[t].grants = {} => "grants" \notin req[p].lacks
      /\ req[p].barred => clock >= tok[t].exp
  BY DEF Inv, EvaluateGrants, Known, HasToken, Entitled, Barred, TokenPCs
<1>2. UNCHANGED <<clock, kind, iat, row, keys, tok, blocked, retired, restored,
                  used, accepted>>
  BY DEF EvaluateGrants, fixed, redis, hist
<1>3. PICK G \in IF kind = "service" THEN ScopesRead ELSE {row.grants} :
        IF ~GrantsMatch(G, tok[t]) THEN Finish(p)
        ELSE Goto(p, IF tok[t].bound THEN "proof" ELSE "admitted")
  BY DEF EvaluateGrants
<1>4. CASE ~GrantsMatch(G, tok[t])
  BY <1>2, <1>3, <1>4, EndStep
<1>5. CASE GrantsMatch(G, tok[t])
  <2>1. PICK pc \in {"proof", "admitted"} : Goto(p, pc)
    BY <1>3, <1>5
  <2>2. pc \in PCs
    BY DEF PCs
  <2>3. /\ req' \in [Handlers -> Request]
        /\ \A q \in Handlers \ {p} : req'[q] = req[q]
        /\ req'[p].pc = pc /\ req'[p].token = t
        /\ req'[p].barred = req[p].barred /\ req'[p].lacks = req[p].lacks
    BY <1>1, <2>1, <2>2, GotoEffect
  <2>4. "grants" \notin req[p].lacks
    <3>1. G = tok[t].grants
      BY <1>5 DEF GrantsMatch
    <3>2. kind = "service" \/ kind = "user"
      BY <1>1, AccessAssumption DEF TypeOK
    <3>3. G = {} \/ (row # None /\ G = row.grants)
      BY <1>1, <3>2 DEF ScopesRead, TypeOK
    <3> QED BY <1>1, <3>1, <3>3 DEF Lacks
  <2>5. req[p].lacks = {}
    <3>1. req[p].lacks \in SUBSET {"status", "grants"}
      BY <1>1 DEF TypeOK, Request
    <3> QED BY <1>1, <2>4, <3>1
  <2>6. Known(p)'
    BY <1>1, <1>2, <2>3, <2>5
       DEF Known, HasToken, Entitled, Barred, WithKeys, TokenPCs
  <2> QED BY <1>2, <2>3, <2>6, MoveStep
<1> QED BY <1>4, <1>5

\* Authenticate, the proof of a bound token; and the handler's answer.
LEMMA ConsumeStep ==
  ASSUME Inv, NEW p \in Handlers, ConsumeDPoPProof(p) \/ Answer(p)
  PROVE  Inv'
<1>1. UNCHANGED <<clock, kind, iat, row, keys, tok, blocked, retired, restored>>
  BY DEF ConsumeDPoPProof, Answer, fixed, redis, hist
<1>2. CASE Finish(p) /\ UNCHANGED <<used, accepted>>
  BY <1>1, <1>2, EndStep
<1>3. CASE ConsumeDPoPProof(p) /\ AcceptProof /\ Goto(p, "admitted")
  <2> DEFINE t == req[p].token
  <2>1. /\ TypeOK /\ req[p].pc = "proof" /\ t \in Tokens /\ tok[t] # None
        /\ req[p].lacks = {} /\ (req[p].barred => clock >= tok[t].exp)
    BY <1>3 DEF Inv, ConsumeDPoPProof, Known, HasToken, Entitled, Barred, TokenPCs
  <2>2. "admitted" \in PCs
    BY DEF PCs
  <2>3. /\ req' \in [Handlers -> Request]
        /\ \A q \in Handlers \ {p} : req'[q] = req[q]
        /\ req'[p].pc = "admitted" /\ req'[p].token = t
        /\ req'[p].barred = req[p].barred /\ req'[p].lacks = req[p].lacks
    BY <1>3, <2>1, <2>2, GotoEffect
  <2>4. Known(p)'
    BY <1>1, <2>1, <2>3
       DEF Known, HasToken, Entitled, Barred, WithKeys, TokenPCs
  <2> QED BY <1>1, <1>3, <2>3, <2>4, MoveStep
<1> QED BY <1>2, <1>3 DEF ConsumeDPoPProof, Answer, redis, hist

\* ClientCredentials reads the row; RotateSecret reads the secret.
LEMMA ServiceStep ==
  ASSUME Inv, NEW p \in Handlers, (\E s \in Secrets : TokenRow(p, s)) \/ RotateSelect(p)
  PROVE  Inv'
<1>1. TypeOK /\ req[p] \in Request /\ req[p].pc = "idle" /\ keys # None /\ keys \in Keys
  BY DEF Inv, TypeOK, TokenRow, RotateSelect
<1>2. UNCHANGED <<clock, kind, iat, row, keys, tok, blocked, retired, restored>>
  BY DEF TokenRow, RotateSelect, fixed, redis, hist
<1>3. ASSUME NEW s \in Secrets, TokenRow(p, s) PROVE Inv'
  <2>1. PICK bound \in BOOLEAN :
          /\ IF bound THEN AcceptProof ELSE UNCHANGED <<used, accepted>>
          /\ \/ req' = [req EXCEPT ![p].pc = "token_scopes", ![p].bound = bound]
             \/ UNCHANGED req
    BY <1>3 DEF TokenRow
  <2>2. CASE UNCHANGED req
    <3>1. req' \in [Handlers -> Request] /\ \A q \in Handlers : req'[q] = req[q]
      BY <1>1, <2>2 DEF TypeOK
    <3>2. Known(p)'
      BY <1>1, <3>1, IdleKnown
    <3> QED BY <1>2, <2>1, <3>1, <3>2, MoveStep
  <2>3. CASE req' = [req EXCEPT ![p].pc = "token_scopes", ![p].bound = bound]
    <3> DEFINE r == [req[p] EXCEPT !.pc = "token_scopes", !.bound = bound]
    <3>1. req' = [req EXCEPT ![p] = r]
      BY <1>1, <2>3 DEF TypeOK
    <3>2. r \in Request /\ r.pc = "token_scopes"
      BY <1>1 DEF Request, PCs
    <3> HIDE DEF r
    <3>3. /\ req' \in [Handlers -> Request] /\ req'[p] = r
          /\ \A q \in Handlers \ {p} : req'[q] = req[q]
      BY <1>1, <3>1, <3>2, BeginEffect
    <3>4. Known(p)'
      BY <1>1, <1>2, <3>2, <3>3
         DEF Known, HasToken, Entitled, Barred, WithKeys, TokenPCs
    <3> QED BY <1>2, <2>1, <3>3, <3>4, MoveStep
  <2> QED BY <2>1, <2>2, <2>3
<1>4. CASE RotateSelect(p)
  <2> DEFINE r == [req[p] EXCEPT !.pc = "rotate", !.secret = keys.cur, !.at = clock]
  <2>1. req' = [req EXCEPT ![p].pc = "rotate", ![p].secret = keys.cur, ![p].at = clock]
    BY <1>4 DEF RotateSelect
  <2>2. req' = [req EXCEPT ![p] = r]
    BY <1>1, <2>1 DEF TypeOK
  <2>3. keys.cur \in Secrets /\ clock \in Times /\ clock \in Nat
    BY <1>1, ConstantTypes DEF Keys, TypeOK, Times
  <2>4. r \in Request /\ r.pc = "rotate" /\ r.secret \in Secrets /\ r.at = clock
    BY <1>1, <2>3 DEF Request, PCs
  <2> HIDE DEF r
  <2>5. /\ req' \in [Handlers -> Request] /\ req'[p] = r
        /\ \A q \in Handlers \ {p} : req'[q] = req[q]
    BY <1>1, <2>2, <2>4, BeginEffect
  <2>6. Known(p)'
    BY <1>1, <1>2, <2>3, <2>4, <2>5
       DEF Known, HasToken, Entitled, Barred, WithKeys, TokenPCs
  <2> QED BY <1>2, <1>4, <2>5, <2>6, MoveStep DEF RotateSelect, redis, hist
<1> QED BY <1>3, <1>4

-----------------------------------------------------------------------------
(* Changes of the row.                                                     *)

\* A change of the row only shortens what requests under way lack.
LEMMA SetRowEffect ==
  ASSUME TypeOK, NEW r \in Row, SetRow(r), UNCHANGED tok
  PROVE  /\ req' \in [Handlers -> Request] /\ row' = r
         /\ \A p \in Handlers :
              /\ req'[p].pc = req[p].pc /\ req'[p].token = req[p].token
              /\ req'[p].secret = req[p].secret /\ req'[p].at = req[p].at
              /\ req'[p].barred = req[p].barred
              /\ req'[p].lacks \subseteq req[p].lacks
              /\ req'[p].lacks \subseteq Lacks(row, req[p].token)'
<1>1. ASSUME NEW p \in Handlers
      PROVE  /\ req'[p] \in Request
             /\ req'[p].pc = req[p].pc /\ req'[p].token = req[p].token
             /\ req'[p].secret = req[p].secret /\ req'[p].at = req[p].at
             /\ req'[p].barred = req[p].barred
             /\ req'[p].lacks \subseteq req[p].lacks
             /\ req'[p].lacks \subseteq Lacks(r, req[p].token)
  <2> DEFINE L == IF req[p].lacks = {} THEN {}
                  ELSE req[p].lacks \cap Lacks(r, req[p].token)
  <2>1. req'[p] = [req[p] EXCEPT !.lacks = L]
    BY DEF SetRow
  <2>2. L \subseteq req[p].lacks /\ L \subseteq Lacks(r, req[p].token)
    OBVIOUS
  <2> HIDE DEF L
  <2>3. req[p] \in Request /\ req[p].lacks \in SUBSET {"status", "grants"}
    BY DEF TypeOK, Request
  <2>4. /\ req'[p] \in Request /\ req'[p].lacks = L
        /\ req'[p].pc = req[p].pc /\ req'[p].token = req[p].token
        /\ req'[p].secret = req[p].secret /\ req'[p].at = req[p].at
        /\ req'[p].barred = req[p].barred
    BY <2>1, <2>2, <2>3 DEF Request
  <2> QED BY <2>2, <2>4
<1>2. row' = r
  BY DEF SetRow
<1>3. req' \in [Handlers -> Request]
  BY <1>1 DEF SetRow
<1>4. \A p \in Handlers : Lacks(row, req[p].token)' = Lacks(r, req'[p].token)
  BY <1>2 DEF Lacks
<1>5. ASSUME NEW p \in Handlers
      PROVE  req'[p].lacks \subseteq Lacks(row, req[p].token)'
  BY <1>1, <1>4
<1> QED BY <1>1, <1>2, <1>3, <1>5

\* So every request knows after it what it knew before.
LEMMA SetRowStep ==
  ASSUME Inv, NEW r \in Row, SetRow(r),
         UNCHANGED <<clock, kind, iat, keys, tok, blocked, used, accepted, retired,
                     restored>>
  PROVE  Inv'
<1>1. TypeOK
  BY DEF Inv
<1>2. /\ req' \in [Handlers -> Request] /\ row' = r
      /\ \A p \in Handlers :
           /\ req'[p].pc = req[p].pc /\ req'[p].token = req[p].token
           /\ req'[p].secret = req[p].secret /\ req'[p].at = req[p].at
           /\ req'[p].barred = req[p].barred
           /\ req'[p].lacks \subseteq req[p].lacks
           /\ req'[p].lacks \subseteq Lacks(row, req[p].token)'
  BY <1>1, SetRowEffect
<1>3. TypeOK'
  BY <1>1, <1>2, ConstantTypes DEF TypeOK
<1>4. ASSUME NEW p \in Handlers PROVE Known(p)'
  <2>1. HasToken(p)' /\ Barred(p)' /\ WithKeys(p)'
    BY <1>2 DEF Inv, Known, HasToken, Barred, WithKeys
  <2>2. Entitled(p)'
    BY <1>2 DEF Inv, Known, Entitled
  <2> QED BY <2>1, <2>2 DEF Known
<1>5. /\ NoneBefore' /\ UserHasNoKeys' /\ BlockedInv' /\ Remembered'
      /\ ProofAcceptedOnce' /\ Rotation'
  BY DEF Inv, NoneBefore, UserHasNoKeys, BlockedInv, Remembered, ProofAcceptedOnce,
         Rotation
<1> QED BY <1>3, <1>4, <1>5 DEF Inv

\* Update, SetActive, the expiry and an administrator's change of a user.
LEMMA ChangeStep ==
  ASSUME Inv, Update \/ Expires \/ ChangeUser \/ \E b \in BOOLEAN : SetActive(b)
  PROVE  Inv'
<1>1. /\ row \in Row
      /\ UNCHANGED <<clock, kind, iat, keys, tok, blocked, used, accepted, retired,
                     restored>>
  BY DEF Inv, TypeOK, Update, Expires, ChangeUser, SetActive, fixed, redis, hist
<1>2. PICK r \in Row : SetRow(r)
  <2>1. CASE Update
    BY <2>1 DEF Update
  <2>2. CASE Expires
    <3>1. [row EXCEPT !.expired = TRUE] \in Row
      BY <1>1 DEF Row
    <3> QED BY <2>2, <3>1 DEF Expires
  <2>3. CASE ChangeUser
    <3>1. PICK a \in BOOLEAN, G \in SUBSET Grants :
            SetRow([row EXCEPT !.active = a, !.grants = G])
      BY <2>3 DEF ChangeUser
    <3>2. [row EXCEPT !.active = a, !.grants = G] \in Row
      BY <1>1 DEF Row
    <3> QED BY <3>1, <3>2
  <2>4. ASSUME NEW b \in BOOLEAN, SetActive(b)
        PROVE  \E r \in Row : SetRow(r)
    <3>1. [row EXCEPT !.active = b] \in Row
      BY <1>1 DEF Row
    <3> QED BY <2>4, <3>1 DEF SetActive
  <2> QED BY <2>1, <2>2, <2>3, <2>4
<1> QED BY <1>1, <1>2, SetRowStep

\* Create comes before every token, so no request is under way with one.
LEMMA CreateStep ==
  ASSUME Inv, Create
  PROVE  Inv'
<1>1. /\ TypeOK /\ kind = "service" /\ keys = None
      /\ UNCHANGED <<clock, kind, iat, tok, blocked, used, req, accepted, retired,
                     restored>>
  BY DEF Inv, Create, fixed, redis, hist
<1>2. PICK G \in SUBSET Grants, s \in FreshSecrets :
        /\ row' = [active |-> TRUE, grants |-> G, expired |-> FALSE]
        /\ keys' = [cur |-> s, old |-> None, oldUntil |-> 0]
  BY DEF Create
<1>3. /\ row' \in Row /\ keys' \in Keys /\ keys'.cur = s /\ keys'.old = None
      /\ retired[s] = None
  BY <1>2 DEF Row, Keys, FreshSecrets
<1>4. TypeOK'
  BY <1>1, <1>3, ConstantTypes DEF TypeOK
<1>5. \A t \in Tokens : tok[t] = None
  BY <1>1 DEF Inv, NoneBefore
<1>6. ASSUME NEW p \in Handlers PROVE Known(p)'
  BY <1>1, <1>3, <1>5, ConstantTypes
     DEF Inv, Known, HasToken, Entitled, Barred, WithKeys, TokenPCs
<1>7. NoneBefore' /\ UserHasNoKeys' /\ Rotation'
  BY <1>1, <1>3, <1>5 DEF NoneBefore, UserHasNoKeys, Rotation
<1>8. BlockedInv' /\ Remembered' /\ ProofAcceptedOnce'
  BY <1>1 DEF Inv, BlockedInv, Remembered, ProofAcceptedOnce
<1> QED BY <1>4, <1>6, <1>7, <1>8 DEF Inv

\* Revoke: the subject lacks everything from now on.
LEMMA RevokeStep ==
  ASSUME Inv, Revoke
  PROVE  Inv'
<1>1. /\ TypeOK /\ keys # None /\ row' = None
      /\ UNCHANGED <<clock, kind, iat, keys, tok, blocked, used, req, accepted,
                     retired, restored>>
  BY DEF Inv, Revoke, fixed, redis, hist
<1>2. TypeOK'
  <2>1. kind # "user"
    BY <1>1 DEF Inv, UserHasNoKeys
  <2> QED BY <1>1, <2>1 DEF TypeOK
<1>3. ASSUME NEW p \in Handlers PROVE Known(p)'
  <2>1. req[p].lacks \subseteq {"status", "grants"}
    BY <1>1 DEF TypeOK, Request
  <2>2. \A t : Lacks(row, t)' = {"status", "grants"}
    BY <1>1 DEF Lacks
  <2>3. req'[p].lacks \subseteq Lacks(row, req[p].token)'
    BY <1>1, <2>1, <2>2
  <2>4. Entitled(p)'
    BY <1>1, <2>3 DEF Inv, Known, Entitled
  <2>5. HasToken(p)' /\ Barred(p)' /\ WithKeys(p)'
    BY <1>1 DEF Inv, Known, HasToken, Barred, WithKeys
  <2> QED BY <2>4, <2>5 DEF Known
<1>4. /\ NoneBefore' /\ UserHasNoKeys' /\ BlockedInv' /\ Remembered'
      /\ ProofAcceptedOnce' /\ Rotation'
  BY <1>1 DEF Inv, NoneBefore, UserHasNoKeys, BlockedInv, Remembered,
              ProofAcceptedOnce, Rotation
<1> QED BY <1>2, <1>3, <1>4 DEF Inv

-----------------------------------------------------------------------------
(* Secrets, tokens, time.                                                  *)

\* RotateSecret's UPDATE: the secret it read is being replaced now, or is
\* written back.
LEMMA RotateStep ==
  ASSUME Inv, NEW p \in Handlers, RotateUpdate(p)
  PROVE  Inv'
<1>1. /\ TypeOK /\ keys # None /\ keys \in Keys /\ keys.cur \in Secrets
      /\ req[p].secret \in Secrets /\ req[p].at \in Nat /\ req[p].at <= clock
      /\ clock \in Nat /\ clock \in Times
  BY ConstantTypes
     DEF Inv, TypeOK, RotateUpdate, Known, WithKeys, Keys, Times, Request
<1>2. UNCHANGED <<clock, kind, iat, row, tok, blocked, used, accepted>>
  BY DEF RotateUpdate, fixed, redis
<1>3. CASE row = None
  BY <1>2, <1>3, EndStep DEF RotateUpdate
<1>4. CASE row # None
  <2>1. PICK s \in FreshSecrets :
          /\ keys' = Rotated(req[p], s)
          /\ retired' = [retired EXCEPT ![keys.cur] = clock]
          /\ restored' = restored \cup ({req[p].secret} \ {keys.cur})
    BY <1>4 DEF RotateUpdate
  <2>2. s \in Secrets /\ s # keys.cur /\ retired[s] = None
    BY <1>1 DEF FreshSecrets
  <2>3. /\ keys' \in Keys /\ keys'.cur = s /\ keys'.old = req[p].secret
        /\ keys'.oldUntil = req[p].at + Overlap
    BY <1>1, <2>1, <2>2, ConstantTypes DEF Rotated, Keys
  <2>4. /\ retired' \in [Secrets -> Times \cup {None}] /\ restored' \subseteq Secrets
        /\ retired'[s] = None /\ retired'[keys.cur] = clock
    BY <1>1, <2>1, <2>2 DEF TypeOK
  <2>5. /\ req' \in [Handlers -> Request]
        /\ \A q \in Handlers \ {p} : req'[q] = req[q]
        /\ req'[p].pc = "idle"
    BY <1>1, FinishEffect DEF RotateUpdate
  <2>6. TypeOK'
    BY <1>1, <1>2, <2>3, <2>4, <2>5 DEF TypeOK
  <2>7. ASSUME NEW q \in Handlers PROVE Known(q)'
    <3>1. CASE q = p
      BY <2>5, <3>1, IdleKnown
    <3>2. CASE q # p
      <4>1. keys' # None
        BY <2>3, ConstantTypes
      <4> QED BY <1>2, <2>5, <3>2, <4>1
              DEF Inv, Known, HasToken, Entitled, Barred, WithKeys, Lacks
    <3> QED BY <3>1, <3>2
  <2>8. Rotation'
    <3>1. CASE req[p].secret = keys.cur
      BY <1>1, <2>3, <2>4, <3>1, ConstantTypes DEF Rotation
    <3>2. CASE req[p].secret # keys.cur
      BY <2>1, <2>3, <2>4, <3>2 DEF Rotation
    <3> QED BY <3>1, <3>2
  <2>9. NoneBefore' /\ UserHasNoKeys'
    BY <1>1, <1>2, <2>3, ConstantTypes DEF Inv, NoneBefore, UserHasNoKeys
  <2>10. BlockedInv' /\ Remembered' /\ ProofAcceptedOnce'
    BY <1>2 DEF Inv, BlockedInv, Remembered, ProofAcceptedOnce
  <2> QED BY <2>6, <2>7, <2>8, <2>9, <2>10 DEF Inv
<1> QED BY <1>3, <1>4

\* A new token: nobody uses or has blocked it yet.
LEMMA NewTokenStep ==
  ASSUME Inv, NEW t \in Tokens, tok[t] = None, NEW k \in Token,
         tok' = [tok EXCEPT ![t] = k],
         req' \in [Handlers -> Request],
         \A q \in Handlers : req'[q] = req[q] \/ req'[q].pc = "idle",
         kind = "user" \/ keys # None,
         UNCHANGED <<clock, kind, iat, row, keys, blocked, used, accepted, retired,
                     restored>>
  PROVE  Inv'
<1>1. TypeOK /\ tok' \in [Tokens -> Token \cup {None}]
      /\ \A s \in Tokens : s # t => tok'[s] = tok[s]
  BY DEF Inv, TypeOK
<1>2. TypeOK'
  BY <1>1 DEF TypeOK
<1>3. ASSUME NEW q \in Handlers PROVE Known(q)'
  <2>1. CASE req'[q].pc = "idle"
    BY <2>1, IdleKnown
  <2>2. CASE req'[q] = req[q]
    <3>1. req[q].pc \in TokenPCs => tok'[req[q].token] = tok[req[q].token]
      BY <1>1 DEF Inv, Known, HasToken
    <3>2. HasToken(q)' /\ WithKeys(q)'
      BY <2>2, <3>1 DEF Inv, Known, HasToken, WithKeys
    <3>3. Barred(q)'
      BY <2>2, <3>1 DEF Inv, Known, Barred, TokenPCs
    <3>4. Entitled(q)'
      BY <2>2, <3>1 DEF Inv, Known, Entitled, TokenPCs, Lacks
    <3> QED BY <3>2, <3>3, <3>4 DEF Known
  <2> QED BY <2>1, <2>2
<1>4. BlockedInv'
  BY <1>1 DEF Inv, BlockedInv
<1>5. NoneBefore' /\ UserHasNoKeys' /\ Remembered' /\ ProofAcceptedOnce' /\ Rotation'
  BY DEF Inv, NoneBefore, UserHasNoKeys, Remembered, ProofAcceptedOnce, Rotation
<1> QED BY <1>2, <1>3, <1>4, <1>5 DEF Inv

\* ClientCredentials and a user's login or refresh issue one.
LEMMA IssueStep ==
  ASSUME Inv, (\E p \in Handlers : TokenIssue(p)) \/ \E t \in Tokens : IssueUserToken(t)
  PROVE  Inv'
<1>1. TypeOK /\ clock \in Nat
  BY ConstantTypes DEF Inv, TypeOK, Times
<1>2. ASSUME NEW p \in Handlers, TokenIssue(p) PROVE Inv'
  <2>1. PICK t \in Tokens, G \in ScopesRead :
          tok[t] = None /\ tok' = [tok EXCEPT ![t] = Issued(G, req[p].bound)]
    BY <1>2 DEF TokenIssue
  <2>2. G \subseteq Grants
    BY <1>1 DEF ScopesRead, TypeOK, Row
  <2>3. req[p].bound \in BOOLEAN
    BY <1>1 DEF TypeOK, Request
  <2>4. Issued(G, req[p].bound) \in Token
    BY <1>1, <2>2, <2>3, ConstantTypes DEF Issued, Token
  <2>5. /\ req' \in [Handlers -> Request]
        /\ \A q \in Handlers : req'[q] = req[q] \/ req'[q].pc = "idle"
    BY <1>1, <1>2, FinishEffect DEF TokenIssue
  <2>6. keys # None
    BY <1>2 DEF Inv, Known, WithKeys, TokenIssue
  <2>7. UNCHANGED <<clock, kind, iat, row, keys, blocked, used, accepted, retired,
                    restored>>
    BY <1>2 DEF TokenIssue, fixed, redis, hist
  <2> QED BY <2>1, <2>4, <2>5, <2>6, <2>7, NewTokenStep
<1>3. ASSUME NEW t \in Tokens, IssueUserToken(t) PROVE Inv'
  <2>1. /\ kind = "user" /\ tok[t] = None
        /\ tok' = [tok EXCEPT ![t] = Issued(row.grants, FALSE)]
        /\ UNCHANGED <<clock, kind, iat, row, keys, blocked, used, req, accepted,
                       retired, restored>>
    BY <1>3 DEF IssueUserToken, fixed, redis, hist
  <2>2. row.grants \subseteq Grants
    BY <1>1, <2>1 DEF TypeOK, Row
  <2>3. Issued(row.grants, FALSE) \in Token
    BY <1>1, <2>2, ConstantTypes DEF Issued, Token
  <2>4. req' \in [Handlers -> Request] /\ \A q \in Handlers : req'[q] = req[q]
    BY <1>1, <2>1 DEF TypeOK
  <2> QED BY <2>1, <2>3, <2>4, NewTokenStep
<1> QED BY <1>2, <1>3

\* revokeJTI.
LEMMA LogoutStep ==
  ASSUME Inv, NEW t \in Tokens, Logout(t)
  PROVE  Inv'
<1>1. /\ TypeOK /\ tok[t] # None /\ tok[t] \in Token /\ clock < tok[t].exp
      /\ blocked' = [blocked EXCEPT ![t] = tok[t].exp]
      /\ UNCHANGED <<clock, kind, iat, row, keys, tok, used, req, accepted, retired,
                     restored>>
  BY DEF Inv, TypeOK, Logout, Valid, BlockedUntil, fixed, hist
<1>2. tok[t].exp \in Nat /\ clock \in Nat /\ tok[t].exp # 0
  BY <1>1, ConstantTypes DEF TypeOK, Times, Token
<1>3. /\ blocked' \in [Tokens -> Nat] /\ blocked'[t] = tok[t].exp
      /\ \A s \in Tokens : s # t => blocked'[s] = blocked[s]
  BY <1>1, <1>2 DEF TypeOK
<1>4. TypeOK'
  BY <1>1, <1>3 DEF TypeOK
<1>5. ASSUME NEW p \in Handlers PROVE Known(p)'
  <2>1. HasToken(p)' /\ Entitled(p)' /\ WithKeys(p)'
    BY <1>1 DEF Inv, Known, HasToken, Entitled, WithKeys, Lacks
  <2>2. Barred(p)'
    BY <1>1, <1>2, <1>3 DEF Inv, Known, HasToken, Barred, TokenPCs
  <2> QED BY <2>1, <2>2 DEF Known
<1>6. BlockedInv'
  BY <1>1, <1>3 DEF Inv, BlockedInv
<1>7. NoneBefore' /\ UserHasNoKeys' /\ Remembered' /\ ProofAcceptedOnce' /\ Rotation'
  BY <1>1 DEF Inv, NoneBefore, UserHasNoKeys, Remembered, ProofAcceptedOnce, Rotation
<1> QED BY <1>4, <1>5, <1>6, <1>7 DEF Inv

\* Time passes.
LEMMA TickStep ==
  ASSUME Inv, Tick
  PROVE  Inv'
<1>1. /\ TypeOK /\ clock \in Nat /\ clock' = clock + 1 /\ clock' \in Times
      /\ UNCHANGED <<kind, iat, row, keys, tok, blocked, used, req, accepted,
                     retired, restored>>
  BY ConstantTypes DEF Inv, TypeOK, Tick, Times, fixed, redis, hist
<1>2. TypeOK'
  BY <1>1 DEF TypeOK
<1>3. ASSUME NEW p \in Handlers PROVE Known(p)'
  <2>1. HasToken(p)' /\ Entitled(p)'
    BY <1>1 DEF Inv, Known, HasToken, Entitled, Lacks
  <2>2. WithKeys(p)'
    <3>1. req[p].at \in Nat
      BY <1>1, ConstantTypes DEF TypeOK, Request, Times
    <3> QED BY <1>1, <3>1 DEF Inv, Known, WithKeys
  <2>3. Barred(p)'
    <3>1. req[p].pc \in TokenPCs => tok[req[p].token].exp \in Nat
      BY <1>1 DEF Inv, Known, HasToken, TypeOK, Token
    <3> QED BY <1>1, <3>1 DEF Inv, Known, Barred, TokenPCs
  <2> QED BY <2>1, <2>2, <2>3 DEF Known
<1>4. /\ NoneBefore' /\ UserHasNoKeys' /\ BlockedInv' /\ Remembered'
      /\ ProofAcceptedOnce' /\ Rotation'
  BY <1>1 DEF Inv, NoneBefore, UserHasNoKeys, BlockedInv, Remembered,
              ProofAcceptedOnce, Rotation
<1> QED BY <1>2, <1>3, <1>4 DEF Inv

-----------------------------------------------------------------------------
(* The theorems.                                                           *)

\* No token, no key, no request.
LEMMA InitInv == Init => Inv
<1> SUFFICES ASSUME Init PROVE Inv
  OBVIOUS
<1>1. \A p \in Handlers : req[p].pc = "idle"
  BY IdleType DEF Init
<1>2. TypeOK
  <2>1. [active |-> TRUE, grants |-> {}, expired |-> FALSE] \in Row
    BY DEF Row
  <2>2. row \in Row \cup {None} /\ (kind = "user" => row # None)
    BY <2>1, ConstantTypes DEF Init
  <2>3. clock \in Times
    BY ConstantTypes DEF Init, Times
  <2> QED BY <2>2, <2>3, IdleType DEF Init, TypeOK
<1>3. ASSUME NEW p \in Handlers PROVE Known(p)
  BY <1>1 DEF Known, HasToken, Entitled, Barred, WithKeys, TokenPCs
<1> QED BY <1>2, <1>3 DEF Inv, Init, NoneBefore, UserHasNoKeys, BlockedInv, Remembered,
             ProofAcceptedOnce, Rotation

\* Every step keeps the invariant.
LEMMA NextInv ==
  ASSUME Inv, [Next]_vars
  PROVE  Inv'
<1>1. CASE UNCHANGED vars
  BY <1>1 DEF vars, fixed, redis, hist, Inv, TypeOK, Known, HasToken, Entitled, Barred,
              WithKeys, NoneBefore, UserHasNoKeys, BlockedInv, Remembered,
              ProofAcceptedOnce, Rotation, Lacks
<1>2. ASSUME NEW p \in Handlers,
             \/ RotateSelect(p) \/ RotateUpdate(p)
             \/ \E s \in Secrets : TokenRow(p, s)
             \/ TokenIssue(p)
             \/ \E t \in Tokens : Authenticate(p, t)
             \/ IsRevoked(p) \/ EvaluateRow(p) \/ EvaluateGrants(p)
             \/ ConsumeDPoPProof(p) \/ Answer(p)
      PROVE  Inv'
  BY <1>2, ServiceStep, RotateStep, IssueStep, AuthenticateStep, IsRevokedStep,
     EvaluateRowStep, EvaluateGrantsStep, ConsumeStep
<1>3. ASSUME NEW t \in Tokens, IssueUserToken(t) \/ Logout(t)
      PROVE  Inv'
  BY <1>3, IssueStep, LogoutStep
<1>4. CASE Update \/ Expires \/ ChangeUser \/ \E b \in BOOLEAN : SetActive(b)
  BY <1>4, ChangeStep
<1> QED BY <1>1, <1>2, <1>3, <1>4, TickStep, CreateStep, RevokeStep DEF Next

\* What requests know after each check, and what the keys in Redis and the
\* secrets hold, for every interleaving.
THEOREM Invariance == Spec => []Inv
<1>1. Init => Inv
  BY InitInv
<1>2. Inv /\ [Next]_vars => Inv'
  BY NextInv
<1> QED BY <1>1, <1>2, PTL DEF Spec

\* EvaluateAccess: whoever is admitted was active, and had the token's grants,
\* each at some moment since the request began.
THEOREM OnlyTheEntitledAreAdmitted == Spec => []AdmittedWasEntitled
<1>1. Inv => AdmittedWasEntitled
  BY DEF Inv, Known, Entitled, AdmittedWasEntitled
<1> QED BY <1>1, Invariance, PTL

\* revokeJTI and IsRevoked: a token blocked by a logout admits no request that
\* begins later, as long as Redis answers.
THEOREM LogoutIsEffective == Spec => []BlockedTokenRefused
<1>1. Inv => BlockedTokenRefused
  BY DEF Inv, Known, Barred, BlockedTokenRefused
<1> QED BY <1>1, Invariance, PTL

\* ConsumeDPoPProof: with a window of more than twice the skew the replay
\* store lets no proof pass twice.
THEOREM ProofsAreSingleUse == Spec => []ProofAcceptedOnce
<1>1. Inv => ProofAcceptedOnce
  BY DEF Inv
<1> QED BY <1>1, Invariance, PTL

\* RotateSecret: a replaced secret dies with its overlap, unless an overtaken
\* rotation has written it back.
THEOREM ReplacedSecretsDie == Spec => []ReplacedSecretRetires
<1>1. Inv => ReplacedSecretRetires
  <2> SUFFICES ASSUME Inv, keys # None, NEW s \in Secrets, SecretValid(s),
                      retired[s] # None, s \notin restored
               PROVE  clock < retired[s] + Overlap
    BY DEF ReplacedSecretRetires
  <2>1. keys \in Keys /\ clock \in Nat /\ retired[s] \in Nat
    BY ConstantTypes DEF Inv, TypeOK, Times
  <2>2. s = keys.old /\ clock < keys.oldUntil /\ keys.oldUntil \in Nat
    BY <2>1 DEF SecretValid, Inv, Rotation, Keys
  <2>3. keys.oldUntil <= retired[s] + Overlap
    BY <2>2, ConstantTypes DEF Inv, Rotation
  <2> QED BY <2>1, <2>2, <2>3, ConstantTypes
<1> QED BY <1>1, Invariance, PTL
=================================================================================
