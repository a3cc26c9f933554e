--------------------------- MODULE OidcGrantsProofs ---------------------------
(***************************************************************************)
(* Proofs about OidcGrants for every set of users, clients, codes, tokens, *)
(* scopes and handlers, and every interleaving and failure of the Redis    *)
(* commands.                                                               *)
(***************************************************************************)
EXTENDS OidcGrants, TLAPS

(***************************************************************************)
(* The strengthening.  Between the GETDEL that consumes a code or token    *)
(* and the SET that stores its successor the grant is in no key: a request *)
(* carries it.  What is single is therefore not the key, but the holder of *)
(* a grant, be it a key or a request.                                      *)
(***************************************************************************)

CarryPCs == {"tombstone", "unindex_user", "unindex_family", "check", "set"}
Carries(p) == req[p].pc \in CarryPCs

\* A key of Redis holds the grant of code or token x.
Live(x) == \/ x \in Codes /\ code[x] # None
           \/ x \in Tokens /\ tok[x] # None

Holds(x) == Live(x) \/ \E p \in Handlers : Carries(p) /\ req[p].from = x

\* What is stored, remembered or named was issued as it stands, a code without
\* a family, a token with one that is named by an issued token.
IssuedInv ==
  /\ \A c \in Codes :
       /\ code[c] # None => issued[c] = code[c]
       /\ issued[c] # None => issued[c].family = None
  /\ \A t \in Tokens :
       /\ tok[t] # None => issued[t] = tok[t] /\ used[t] = None
       /\ used[t] # None => issued[t] = used[t]
       /\ issued[t] # None => /\ issued[t].family \in Tokens
                              /\ issued[issued[t].family] # None
       /\ parent[t] # None => issued[t] # None /\ issued[parent[t]] # None
       /\ t \in deleted => issued[t] # None

\* The grant a request q carries is the one it consumed, for scopes that were
\* granted, and once checked by the grant's own client.
Carried(q) ==
  /\ q.from \in Codes \cup Tokens
  /\ q.grant # None /\ q.grant = issued[q.from]
  /\ q.client \in Clients
  /\ q.scopes \subseteq q.grant.scopes
  /\ q.pc \in {"tombstone", "unindex_user", "unindex_family"} => q.from \in Tokens
  /\ q.pc = "set" => q.client = q.grant.client

\* The locals of the other requests.
Local(q) ==
  /\ q.pc \in {"index_user", "index_family", "members", "del_tokens", "srem_user",
               "del_family", "drop_user", "drop_family"} =>
       q.grant # None /\ q.grant.family \in Tokens
  /\ q.pc \in {"index_user", "index_family", "miss", "delete", "drop_user",
               "drop_family"} => q.from \in Tokens
  /\ q.pc = "del_all" => q.user \in Users

RequestInv ==
  \A p \in Handlers : (Carries(p) => Carried(req[p])) /\ Local(req[p])

\* A grant that is carried is in no key, and nobody else carries it.
OneCarrier ==
  \A p \in Handlers :
    Carries(p) =>
      /\ ~Live(req[p].from)
      /\ \A q \in Handlers : Carries(q) /\ req[q].from = req[p].from => q = p

\* What was exchanged holds no grant any more.
ParentHoldsNot == \A t \in Tokens : parent[t] # None => ~Holds(parent[t])

\* A family has one holder, and none once a client has revoked it.
OneHolder ==
  \A s, t \in Tokens :
    Holds(s) /\ Holds(t) /\ issued[s].family = issued[t].family => s = t

RevokedHoldsNot ==
  \A t \in Tokens, d \in deleted : Holds(t) => issued[t].family # issued[d].family

\* The invariant: the parts above and the three properties that are inductive
\* beside them.
Inv ==
  /\ TypeOK
  /\ IssuedInv
  /\ RequestInv
  /\ OneCarrier
  /\ ParentHoldsNot
  /\ OneHolder
  /\ RevokedHoldsNot
  /\ SingleUse
  /\ GrantNeverWidens
  /\ RevokedIsNotReused

USE DEF At

-----------------------------------------------------------------------------
(* Types.                                                                  *)

\* None, the redis.Nil, is a value of no set.
LEMMA NoneTypes ==
  /\ None \notin Users /\ None \notin Clients /\ None \notin Codes
  /\ None \notin Tokens /\ None \notin Grant
BY NoneAssumption

\* A goroutine without a request is of the type of one.
LEMMA DoneType == Done \in Request /\ Done.pc = "idle"
BY DEF Done, Request, PCs

\* A finished request is an idle one.
LEMMA FinishEffect ==
  ASSUME TypeOK, NEW p \in Handlers, Finish(p)
  PROVE  /\ req' \in [Handlers -> Request]
         /\ \A q \in Handlers \ {p} : req'[q] = req[q]
         /\ req'[p].pc = "idle"
BY DoneType DEF TypeOK, Finish

\* Goto changes nothing but the next command.
LEMMA GotoEffect ==
  ASSUME TypeOK, NEW p \in Handlers, NEW pc \in PCs, Goto(p, pc)
  PROVE  /\ req' \in [Handlers -> Request]
         /\ \A q \in Handlers \ {p} : req'[q] = req[q]
         /\ req'[p].pc = pc
         /\ req'[p].from = req[p].from
         /\ req'[p].client = req[p].client
         /\ req'[p].grant = req[p].grant
         /\ req'[p].scopes = req[p].scopes
         /\ req'[p].user = req[p].user
         /\ req'[p].snap = req[p].snap
BY DEF TypeOK, Request, Goto

\* A request given as a whole.
LEMMA BeginEffect ==
  ASSUME TypeOK, NEW p \in Handlers, NEW r \in Request,
         req' = [req EXCEPT ![p] = r]
  PROVE  /\ req' \in [Handlers -> Request]
         /\ \A q \in Handlers \ {p} : req'[q] = req[q]
         /\ req'[p] = r
BY DEF TypeOK

\* The fields of a request and of a grant.
LEMMA FieldTypes ==
  ASSUME TypeOK
  PROVE  /\ \A p \in Handlers :
              /\ req[p].from \in Codes \cup Tokens \cup {None}
              /\ req[p].client \in Clients \cup {None}
              /\ req[p].grant \in Grant \cup {None}
              /\ req[p].scopes \in SUBSET Scopes
              /\ req[p].user \in Users \cup {None}
              /\ req[p].snap \in SUBSET Tokens
         /\ \A g \in Grant : /\ g.user \in Users /\ g.client \in Clients
                             /\ g.scopes \in SUBSET Scopes
                             /\ g.family \in Tokens \cup {None}
BY DEF TypeOK, Request, Grant

-----------------------------------------------------------------------------
(* Steps that create no holder.                                            *)

\* What a request does in such a step: nothing, go on with what it carries, or
\* something that carries nothing.
Keeps(p) ==
  \/ req'[p] = req[p]
  \/ /\ Local(req'[p])
     /\ req'[p].pc \in CarryPCs =>
          /\ Carries(p)
          /\ req'[p].from = req[p].from /\ req'[p].client = req[p].client
          /\ req'[p].grant = req[p].grant /\ req'[p].scopes = req[p].scopes
          /\ req'[p].pc # "tombstone"
          /\ req'[p].pc \in {"unindex_user", "unindex_family"} =>
               req[p].from \in Tokens
          /\ req'[p].pc = "set" => req[p].client = req[p].grant.client

\* Keys go or stay, tombstones are those of carried tokens, and requests keep
\* what they carry or drop it.
ShrinkStep ==
  /\ UNCHANGED <<issued, parent, deleted>>
  /\ \A c \in Codes : code'[c] = code[c] \/ code'[c] = None
  /\ \A t \in Tokens : tok'[t] = tok[t] \/ tok'[t] = None
  /\ \A t \in Tokens :
       \/ used'[t] = used[t] \/ used'[t] = None
       \/ \E p \in Handlers : /\ Carries(p) /\ req[p].from = t
                              /\ used'[t] = req[p].grant
  /\ \A p \in Handlers : Keeps(p)

\* A step that makes no holder keeps every part of the invariant.
LEMMA ShrinkKeepsInv ==
  ASSUME Inv, TypeOK', ShrinkStep
  PROVE  Inv'
<1>1. ASSUME NEW p \in Handlers, Carries(p)'
      PROVE  /\ Carries(p) /\ req'[p].from = req[p].from
             /\ Carried(req[p])'
  BY <1>1 DEF ShrinkStep, Keeps, Carries, Carried, Inv, RequestInv, CarryPCs
<1>2. ASSUME NEW x, Live(x)' PROVE Live(x)
  BY <1>2 DEF ShrinkStep, Live
<1>3. ASSUME NEW x, Holds(x)' PROVE Holds(x)
  BY <1>1, <1>2, <1>3 DEF Holds
<1>4. \A p \in Handlers : Local(req'[p])
  BY DEF ShrinkStep, Keeps, Inv, RequestInv
<1>5. RequestInv'
  BY <1>1, <1>4 DEF RequestInv, Local
<1>6. OneCarrier'
  BY <1>1, <1>2 DEF OneCarrier, Inv
<1>7. ParentHoldsNot' /\ OneHolder' /\ RevokedHoldsNot'
  BY <1>3 DEF ParentHoldsNot, OneHolder, RevokedHoldsNot, Inv, ShrinkStep
<1>8. SingleUse' /\ GrantNeverWidens'
  BY DEF SingleUse, GrantNeverWidens, Inv, ShrinkStep
<1>9. ASSUME NEW p \in Handlers, NEW t \in Tokens, Carries(p), req[p].from = t
      PROVE  tok[t] = None /\ issued[t] = req[p].grant /\ t \notin deleted
  <2>1. tok[t] = None /\ issued[t] = req[p].grant
    BY <1>9 DEF Inv, OneCarrier, Live, RequestInv, Carried
  <2>2. t \notin deleted
    BY <1>9 DEF Inv, RevokedHoldsNot, Holds
  <2> QED BY <2>1, <2>2
<1>10. IssuedInv'
  <2>1. \A c \in Codes : /\ code'[c] # None => issued'[c] = code'[c]
                         /\ issued'[c] # None => issued'[c].family = None
    BY DEF Inv, IssuedInv, ShrinkStep
  <2>2. ASSUME NEW t \in Tokens
        PROVE  /\ tok'[t] # None => issued'[t] = tok'[t] /\ used'[t] = None
               /\ used'[t] # None => issued'[t] = used'[t]
    BY <1>9 DEF Inv, IssuedInv, ShrinkStep
  <2>3. \A t \in Tokens :
          /\ issued'[t] # None => /\ issued'[t].family \in Tokens
                                  /\ issued'[issued'[t].family] # None
          /\ parent'[t] # None => issued'[t] # None /\ issued'[parent'[t]] # None
          /\ t \in deleted' => issued'[t] # None
    BY DEF Inv, IssuedInv, ShrinkStep
  <2> QED BY <2>1, <2>2, <2>3 DEF IssuedInv
<1>11. RevokedIsNotReused'
  BY <1>9 DEF RevokedIsNotReused, Inv, ShrinkStep, TypeOK
<1> QED BY <1>5, <1>6, <1>7, <1>8, <1>10, <1>11 DEF Inv

\* The common case: one request goes on, and the keys are dropped at most.
LEMMA QuietStep ==
  ASSUME Inv, TypeOK', NEW p \in Handlers,
         UNCHANGED <<code, used, issued, parent, deleted>>,
         \A t \in Tokens : tok'[t] = tok[t] \/ tok'[t] = None,
         \A q \in Handlers \ {p} : req'[q] = req[q],
         Local(req'[p]), req'[p].pc \notin CarryPCs
  PROVE  Inv'
BY ShrinkKeepsInv DEF ShrinkStep, Keeps

-----------------------------------------------------------------------------
(* Steps that move or make a grant.                                        *)

\* A consent issues a code nobody has heard of.
LEMMA CreateStep ==
  ASSUME Inv, NEW c \in Codes, NEW u \in Users, NEW cl \in Clients,
         NEW S \in SUBSET Scopes, NEW pkce \in BOOLEAN,
         CreateAuthCodeSession(c, u, cl, S, pkce)
  PROVE  Inv'
<1> DEFINE g == [user |-> u, client |-> cl, scopes |-> S, pkce |-> pkce,
                 family |-> None]
<1>1. g \in Grant /\ g # None /\ g.family = None
  BY NoneTypes DEF Grant
<1>2. /\ issued[c] = None
      /\ code' = [code EXCEPT ![c] = g] /\ issued' = [issued EXCEPT ![c] = g]
      /\ UNCHANGED <<tok, used, uidx, fidx, active, req, parent, held, deleted>>
  BY DEF CreateAuthCodeSession
<1> HIDE DEF g
<1>3. TypeOK /\ Codes \cap Tokens = {}
  BY GrantsAssumption DEF Inv
<1>4. TypeOK'
  BY <1>1, <1>2, <1>3 DEF TypeOK
<1>5. /\ \A x \in Codes \cup Tokens : x # c => issued'[x] = issued[x]
      /\ \A x \in Codes : x # c => code'[x] = code[x]
      /\ issued'[c] = g /\ code'[c] = g
  BY <1>2, <1>3 DEF TypeOK
<1>6. \A p \in Handlers : Carries(p) => req[p].from \in Codes \cup Tokens /\ req[p].from # c
  BY <1>2 DEF Inv, RequestInv, Carried
<1>7. \A t \in Tokens : parent[t] # c /\ t # c
  BY <1>1, <1>2, <1>3, NoneTypes DEF Inv, IssuedInv
<1>8. ASSUME NEW x \in Codes \cup Tokens, x # c, Holds(x)' PROVE Holds(x)
  BY <1>2, <1>5, <1>8 DEF Holds, Live, Carries
<1>9. IssuedInv'
  <2>1. \A x \in Codes : /\ code'[x] # None => issued'[x] = code'[x]
                         /\ issued'[x] # None => issued'[x].family = None
    BY <1>1, <1>5 DEF Inv, IssuedInv
  <2>2. ASSUME NEW t \in Tokens
        PROVE  /\ tok'[t] # None => issued'[t] = tok'[t] /\ used'[t] = None
               /\ used'[t] # None => issued'[t] = used'[t]
               /\ t \in deleted' => issued'[t] # None
    BY <1>2, <1>5, <1>7 DEF Inv, IssuedInv
  <2>3. ASSUME NEW t \in Tokens, issued'[t] # None
        PROVE  issued'[t].family \in Tokens /\ issued'[issued'[t].family] # None
    BY <1>5, <1>7, <2>3 DEF Inv, IssuedInv
  <2>4. ASSUME NEW t \in Tokens, parent'[t] # None
        PROVE  issued'[t] # None /\ issued'[parent'[t]] # None
    <3>1. issued[t] # None /\ issued[parent[t]] # None /\ parent[t] \in Codes \cup Tokens
      BY <1>2, <1>3, <2>4 DEF Inv, IssuedInv, TypeOK
    <3> QED BY <1>2, <1>5, <1>7, <3>1
  <2> QED BY <2>1, <2>2, <2>3, <2>4 DEF IssuedInv
<1>10. RequestInv'
  BY <1>2, <1>5, <1>6 DEF Inv, RequestInv, Carries, Carried, Local
<1>11. OneCarrier'
  BY <1>2, <1>5, <1>6 DEF Inv, OneCarrier, Carries, Live
<1>12. ParentHoldsNot'
  <2> SUFFICES ASSUME NEW t \in Tokens, NEW x, x = parent[t], x # None, Holds(x)'
               PROVE  FALSE
    BY <1>2 DEF ParentHoldsNot, Holds, Live, Carries
  <2>1. x \in Codes \cup Tokens /\ x # c
    BY <1>3, <1>7 DEF TypeOK
  <2>2. Holds(x)
    BY <1>8, <2>1
  <2> QED BY <2>2 DEF Inv, ParentHoldsNot
<1>13. OneHolder' /\ RevokedHoldsNot'
  <2>1. \A t \in Tokens : issued'[t] = issued[t] /\ (Holds(t)' => Holds(t))
    BY <1>5, <1>7, <1>8
  <2>2. OneHolder'
    BY <2>1 DEF Inv, OneHolder
  <2>3. deleted \subseteq Tokens /\ deleted' = deleted
    BY <1>2, <1>3 DEF TypeOK
  <2>4. RevokedHoldsNot'
    BY <2>1, <2>3 DEF Inv, RevokedHoldsNot
  <2> QED BY <2>2, <2>4
<1>14. SingleUse' /\ RevokedIsNotReused'
  BY <1>2 DEF Inv, SingleUse, RevokedIsNotReused
<1>15. GrantNeverWidens'
  <2>1. \A t \in Tokens : issued'[t] = issued[t]
    BY <1>5, <1>7
  <2>2. \A t \in Tokens : parent[t] # None => issued'[parent[t]] = issued[parent[t]]
    BY <1>3, <1>5, <1>7 DEF TypeOK
  <2> QED BY <1>2, <2>1, <2>2 DEF Inv, GrantNeverWidens
<1> QED BY <1>4, <1>9, <1>10, <1>11, <1>12, <1>13, <1>14, <1>15 DEF Inv

\* A GETDEL: the grant of x moves from its key to request p.
LEMMA TakeStep ==
  ASSUME Inv, TypeOK', NEW p \in Handlers, NEW x \in Codes \cup Tokens,
         Live(x), ~Live(x)', ~Carries(p),
         \A c \in Codes : c # x => code'[c] = code[c],
         \A t \in Tokens : t # x => tok'[t] = tok[t],
         UNCHANGED <<used, issued, parent, deleted>>,
         \A q \in Handlers \ {p} : req'[q] = req[q],
         req'[p].from = x, req'[p].grant = issued[x], req'[p].client \in Clients,
         req'[p].scopes \subseteq issued[x].scopes,
         \/ req'[p].pc = "check"
         \/ req'[p].pc = "tombstone" /\ x \in Tokens
  PROVE  Inv'
<1>1. issued[x] # None
  BY DEF Inv, IssuedInv, Live
<1>2. ASSUME NEW y, Live(y)' PROVE Live(y) /\ y # x
  BY <1>2 DEF Live
<1>3. Carries(p)' /\ \A q \in Handlers : q # p => (Carries(q)' <=> Carries(q))
  BY DEF Carries, CarryPCs
<1>4. ASSUME NEW y, Holds(y)' PROVE Holds(y)
  BY <1>2, <1>3, <1>4 DEF Holds
<1>5. \A q \in Handlers : Carries(q) => req[q].from # x
  BY DEF Inv, OneCarrier
<1>6. IssuedInv'
  <2>1. \A c \in Codes : code'[c] # None => code'[c] = code[c]
    BY <1>2 DEF Live
  <2>2. \A t \in Tokens : tok'[t] # None => tok'[t] = tok[t]
    BY <1>2 DEF Live
  <2> QED BY <2>1, <2>2 DEF Inv, IssuedInv
<1>7. RequestInv'
  <2>1. Carried(req[p])'
    BY <1>1 DEF Carried
  <2>2. Local(req[p])'
    BY DEF Local
  <2>3. ASSUME NEW q \in Handlers, q # p PROVE (Carries(q)' => Carried(req[q])') /\ Local(req[q])'
    BY <1>3, <2>3 DEF Inv, RequestInv, Carried, Local
  <2> QED BY <2>1, <2>2, <2>3 DEF RequestInv
<1>8. OneCarrier'
  BY <1>2, <1>3, <1>5 DEF Inv, OneCarrier
<1>9. ParentHoldsNot' /\ OneHolder' /\ RevokedHoldsNot'
  BY <1>4 DEF Inv, ParentHoldsNot, OneHolder, RevokedHoldsNot
<1>10. SingleUse' /\ GrantNeverWidens' /\ RevokedIsNotReused'
  BY DEF Inv, SingleUse, GrantNeverWidens, RevokedIsNotReused
<1> QED BY <1>6, <1>7, <1>8, <1>9, <1>10 DEF Inv

\* Save's SET: the request hands what it carries to a token that was never
\* issued, so the family keeps one holder, and the consumed code or token gets
\* its one successor.
LEMMA SaveSetStep ==
  ASSUME Inv, NEW p \in Handlers, SaveSet(p)
  PROVE  Inv'
<1> DEFINE q == req[p]
           x == req[p].from
           old == issued[x]
<1>1. TypeOK /\ Codes \cap Tokens = {} /\ Carries(p) /\ q.pc = "set"
  BY GrantsAssumption DEF Inv, SaveSet, Carries, CarryPCs
<1>2. /\ x \in Codes \cup Tokens /\ q.grant = old /\ old # None
      /\ q.client = old.client /\ q.scopes \subseteq old.scopes
      /\ q.scopes \in SUBSET Scopes /\ old \in Grant
  <2>1. Carried(q)
    BY <1>1 DEF Inv, RequestInv
  <2> QED BY <1>1, <2>1 DEF Carried, TypeOK, Request
<1>3. PICK t \in Tokens :
        /\ issued[t] = None
        /\ tok' = [tok EXCEPT ![t] = Successor(q, t)]
        /\ issued' = [issued EXCEPT ![t] = Successor(q, t)]
        /\ parent' = [parent EXCEPT ![t] = x]
        /\ req' = [req EXCEPT ![p] = [Done EXCEPT !.pc = "index_user",
                                        !.from = t, !.grant = Successor(q, t)]]
  BY DEF SaveSet, Fresh
<1>4. PICK g : g = Successor(q, t)
  OBVIOUS
<1>5. /\ g \in Grant /\ g # None
      /\ g.user = old.user /\ g.client = old.client /\ g.scopes = q.scopes
      /\ g.family = IF old.family = None THEN t ELSE old.family
  <2>1. /\ g.user = old.user /\ g.client = q.client /\ g.scopes = q.scopes
        /\ g.pkce = FALSE /\ g.family = IF old.family = None THEN t ELSE old.family
        /\ g = [user |-> g.user, client |-> g.client, scopes |-> g.scopes,
                pkce |-> g.pkce, family |-> g.family]
    BY <1>2, <1>4 DEF Successor, Grant
  <2>2. g \in Grant
    BY <1>2, <2>1 DEF Grant
  <2> QED BY <1>2, <2>1, <2>2, NoneTypes
<1>6. UNCHANGED <<code, used, uidx, fidx, active, held, deleted>>
  BY DEF SaveSet
<1>7. /\ req' \in [Handlers -> Request]
      /\ \A h \in Handlers \ {p} : req'[h] = req[h]
      /\ req'[p].pc = "index_user" /\ req'[p].from = t /\ req'[p].grant = g
  <2> DEFINE r == [Done EXCEPT !.pc = "index_user", !.from = t, !.grant = g]
  <2>1. /\ r \in Request /\ r.pc = "index_user" /\ r.from = t /\ r.grant = g
    BY <1>5 DEF Done, Request, PCs
  <2>2. req' = [req EXCEPT ![p] = r]
    BY <1>3, <1>4
  <2> HIDE DEF r
  <2> QED BY <1>1, <2>1, <2>2, BeginEffect
<1>8. TypeOK'
  BY <1>1, <1>2, <1>3, <1>4, <1>5, <1>6, <1>7 DEF TypeOK
<1>9. /\ \A s \in Tokens : s # t => tok'[s] = tok[s] /\ parent'[s] = parent[s]
      /\ \A y \in Codes \cup Tokens : y # t => issued'[y] = issued[y]
      /\ tok'[t] = g /\ parent'[t] = x /\ issued'[t] = g
  BY <1>1, <1>3, <1>4 DEF TypeOK
<1>10. x # t /\ tok[t] = None /\ used[t] = None /\ parent[t] = None /\ t \notin deleted
  BY <1>2, <1>3 DEF Inv, IssuedInv
<1>11. /\ ~Carries(p)' /\ \A h \in Handlers : h # p => (Carries(h)' <=> Carries(h))
       /\ \A h \in Handlers : Carries(h) => req[h].from # t
  BY <1>3, <1>7 DEF Carries, CarryPCs, Inv, RequestInv, Carried
<1>12. ~Live(x) /\ \A h \in Handlers : Carries(h) /\ req[h].from = x => h = p
  BY <1>1 DEF Inv, OneCarrier
<1>13. ASSUME NEW y, Live(y)' PROVE y = t \/ Live(y)
  BY <1>6, <1>9, <1>13 DEF Live
<1>14. ASSUME NEW y, y # t, Holds(y)' PROVE Holds(y) /\ y # x
  BY <1>7, <1>11, <1>12, <1>13, <1>14 DEF Holds
<1>15. Holds(x)
  BY <1>1 DEF Holds
<1>16. /\ x \in Codes => g.family = t
       /\ x \in Tokens => g.family = old.family /\ g.family \in Tokens
                          /\ issued[g.family] # None
  BY <1>2, <1>5, NoneTypes DEF Inv, IssuedInv
<1>17. g.family \in Tokens /\ issued'[g.family] # None
  BY <1>2, <1>5, <1>9, <1>16
<1>18. IssuedInv'
  <2>1. \A c \in Codes : /\ code'[c] # None => issued'[c] = code'[c]
                         /\ issued'[c] # None => issued'[c].family = None
    BY <1>1, <1>6, <1>9 DEF Inv, IssuedInv
  <2>2. ASSUME NEW s \in Tokens
        PROVE  /\ tok'[s] # None => issued'[s] = tok'[s] /\ used'[s] = None
               /\ used'[s] # None => issued'[s] = used'[s]
               /\ s \in deleted' => issued'[s] # None
    BY <1>5, <1>6, <1>9, <1>10 DEF Inv, IssuedInv
  <2>3. ASSUME NEW s \in Tokens, issued'[s] # None
        PROVE  issued'[s].family \in Tokens /\ issued'[issued'[s].family] # None
    <3>1. CASE s = t
      BY <1>9, <1>17, <3>1
    <3>2. CASE s # t
      BY <1>5, <1>9, <2>3, <3>2 DEF Inv, IssuedInv
    <3> QED BY <3>1, <3>2
  <2>4. ASSUME NEW s \in Tokens, parent'[s] # None
        PROVE  issued'[s] # None /\ issued'[parent'[s]] # None
    <3>1. CASE s = t
      BY <1>2, <1>5, <1>9, <1>10, <3>1
    <3>2. CASE s # t
      <4>1. /\ issued[s] # None /\ issued[parent[s]] # None
            /\ parent[s] \in Codes \cup Tokens
        BY <1>1, <1>9, <2>4, <3>2 DEF Inv, IssuedInv, TypeOK
      <4> QED BY <1>5, <1>9, <3>2, <4>1
    <3> QED BY <3>1, <3>2
  <2> QED BY <2>1, <2>2, <2>3, <2>4 DEF IssuedInv
<1>19. RequestInv'
  <2>1. Local(req[p])'
    BY <1>5, <1>7, <1>17 DEF Local
  <2>2. ASSUME NEW h \in Handlers, h # p
        PROVE  (Carries(h)' => Carried(req[h])') /\ Local(req[h])'
    BY <1>7, <1>9, <1>11, <2>2 DEF Inv, RequestInv, Carried, Local
  <2> QED BY <1>11, <2>1, <2>2 DEF RequestInv
<1>20. OneCarrier'
  BY <1>7, <1>11, <1>13 DEF Inv, OneCarrier
<1>21. ParentHoldsNot'
  <2> SUFFICES ASSUME NEW s \in Tokens, NEW y, y = parent'[s], y # None, Holds(y)'
               PROVE  FALSE
    BY DEF ParentHoldsNot, Holds, Live, Carries
  <2>1. CASE s = t
    <3>1. y = x
      BY <1>9, <2>1
    <3> QED BY <1>10, <1>14, <3>1
  <2>2. CASE s # t
    <3>1. y = parent[s]
      BY <1>9, <2>2
    <3>2. y # t
      BY <1>3, <3>1 DEF Inv, IssuedInv
    <3> QED BY <1>14, <3>1, <3>2 DEF Inv, ParentHoldsNot
  <2> QED BY <2>1, <2>2
<1>22. \A s \in Tokens : Holds(s)' /\ s # t => issued'[s] = issued[s] /\ issued[s] # None
  <2> SUFFICES ASSUME NEW s \in Tokens, Holds(s)', s # t PROVE issued[s] # None
    BY <1>9
  <2>1. Holds(s)
    BY <1>14
  <2> QED BY <2>1 DEF Holds, Live, Inv, IssuedInv, RequestInv, Carried
<1>23. ASSUME NEW s \in Tokens, s # t, Holds(s)' PROVE issued[s].family # g.family
  <2>1. Holds(s) /\ s # x /\ issued[s] # None
    BY <1>14, <1>22, <1>23
  <2>2. CASE x \in Tokens
    BY <1>15, <1>16, <2>1, <2>2 DEF Inv, OneHolder
  <2>3. CASE x \in Codes
    BY <1>3, <1>16, <2>1, <2>3 DEF Inv, IssuedInv
  <2> QED BY <1>2, <2>2, <2>3
<1>24. OneHolder'
  <2> SUFFICES ASSUME NEW r \in Tokens, NEW s \in Tokens, Holds(r)', Holds(s)',
                      issued'[r].family = issued'[s].family
               PROVE  r = s
    BY DEF OneHolder
  <2>1. CASE r # t /\ s # t
    BY <1>9, <1>14, <2>1 DEF Inv, OneHolder
  <2>2. CASE r = t \/ s = t
    BY <1>9, <1>23, <2>2
  <2> QED BY <2>1, <2>2
<1>25. RevokedHoldsNot'
  <2> SUFFICES ASSUME NEW s \in Tokens, NEW d \in deleted, Holds(s)'
               PROVE  issued'[s].family # issued'[d].family
    BY <1>6 DEF RevokedHoldsNot
  <2>1. d \in Tokens /\ d # t /\ issued'[d] = issued[d] /\ issued[d] # None
    BY <1>1, <1>9, <1>10 DEF TypeOK, Inv, IssuedInv
  <2>2. CASE s # t
    BY <1>9, <1>14, <2>1, <2>2 DEF Inv, RevokedHoldsNot
  <2>3. CASE s = t /\ x \in Tokens
    BY <1>9, <1>15, <1>16, <2>1, <2>3 DEF Inv, RevokedHoldsNot
  <2>4. CASE s = t /\ x \in Codes
    BY <1>3, <1>9, <1>16, <2>1, <2>4 DEF Inv, IssuedInv
  <2> QED BY <1>2, <2>2, <2>3, <2>4
<1>26. SingleUse'
  <2>1. \A s \in Tokens : parent[s] # x
    BY <1>2, <1>15, NoneTypes DEF Inv, ParentHoldsNot
  <2> QED BY <1>9, <2>1 DEF Inv, SingleUse
<1>27. GrantNeverWidens'
  <2> SUFFICES ASSUME NEW s \in Tokens, parent'[s] # None
               PROVE  LET n == issued'[s]
                          o == issued'[parent'[s]]
                      IN
                      /\ n.user = o.user /\ n.client = o.client
                      /\ n.scopes \subseteq o.scopes
                      /\ n.family = IF o.family = None THEN s ELSE o.family
    BY DEF GrantNeverWidens
  <2>1. CASE s = t
    BY <1>2, <1>5, <1>9, <1>10, <2>1
  <2>2. CASE s # t
    <3>1. /\ parent'[s] = parent[s] /\ parent[s] # t /\ parent[s] \in Codes \cup Tokens
          /\ parent[s] # None
      BY <1>1, <1>3, <1>9, <2>2 DEF Inv, IssuedInv, TypeOK
    <3>2. issued'[s] = issued[s] /\ issued'[parent'[s]] = issued[parent[s]]
      BY <1>9, <2>2, <3>1
    <3> QED BY <3>1, <3>2 DEF Inv, GrantNeverWidens
  <2> QED BY <2>1, <2>2
<1>28. RevokedIsNotReused'
  BY <1>6 DEF Inv, RevokedIsNotReused
<1> QED BY <1>8, <1>18, <1>19, <1>20, <1>21, <1>24, <1>25, <1>26, <1>27, <1>28 DEF Inv

\* Delete's GETDEL: the one holder of the family goes, and its token had no
\* tombstone.
LEMMA DeleteStep ==
  ASSUME Inv, NEW p \in Handlers, Delete(p)
  PROVE  Inv'
<1> DEFINE t == req[p].from
<1>1. TypeOK /\ t \in Tokens /\ ~Carries(p)
  BY DEF Inv, Delete, RequestInv, Local, Carries, CarryPCs
<1>2. /\ tok' = [tok EXCEPT ![t] = None]
      /\ UNCHANGED <<code, used, uidx, fidx, active, issued, parent, held>>
  BY DEF Delete
<1>3. tok' \in [Tokens -> Grant \cup {None}]
  BY <1>1, <1>2 DEF TypeOK
<1>4. CASE tok[t] = None
  <2>1. Finish(p) /\ UNCHANGED deleted
    BY <1>4 DEF Delete
  <2>2. TypeOK'
    BY <1>1, <1>2, <1>3, <2>1, FinishEffect DEF TypeOK
  <2> QED BY <1>1, <1>2, <2>1, <2>2, FinishEffect, QuietStep DEF Local, CarryPCs, TypeOK
<1>5. CASE tok[t] # None
  <2>1. /\ req' = [req EXCEPT ![p].pc = "drop_user", ![p].grant = tok[t]]
        /\ deleted' = deleted \cup {t}
    BY <1>5 DEF Delete
  <2>2. tok[t] \in Grant /\ tok[t] = issued[t] /\ used[t] = None
        /\ tok[t].family \in Tokens
    BY <1>1, <1>5 DEF TypeOK, Inv, IssuedInv
  <2>3. /\ req' \in [Handlers -> Request]
        /\ \A q \in Handlers \ {p} : req'[q] = req[q]
        /\ req'[p].pc = "drop_user" /\ req'[p].grant = tok[t] /\ req'[p].from = t
    <3> DEFINE r == [req[p] EXCEPT !.pc = "drop_user", !.grant = tok[t]]
    <3>1. req[p] \in Request
      BY <1>1 DEF TypeOK
    <3>2. r \in Request /\ r.pc = "drop_user" /\ r.grant = tok[t] /\ r.from = t
      BY <2>2, <3>1 DEF Request, PCs
    <3>3. req' = [req EXCEPT ![p] = r]
      BY <1>1, <2>1 DEF TypeOK
    <3> HIDE DEF r
    <3> QED BY <1>1, <3>2, <3>3, BeginEffect
  <2>4. TypeOK'
    BY <1>1, <1>2, <1>3, <2>1, <2>3 DEF TypeOK
  <2>5. \A q \in Handlers : Carries(q)' <=> Carries(q) /\ q # p
    BY <1>1, <2>3 DEF Carries, CarryPCs
  <2>6. \A s \in Tokens : s # t => tok'[s] = tok[s]
    BY <1>1, <1>2 DEF TypeOK
  <2>7. tok'[t] = None
    BY <1>1, <1>2 DEF TypeOK
  <2>8. ASSUME NEW y, Live(y)' PROVE Live(y) /\ y # t
    BY <1>1, <1>2, <2>6, <2>7, <2>8, GrantsAssumption DEF Live
  <2>9. ASSUME NEW q \in Handlers, Carries(q) PROVE req[q].from # t
    BY <1>1, <1>5, <2>9 DEF Inv, OneCarrier, Live
  <2>10. ASSUME NEW y, Holds(y)' PROVE Holds(y) /\ y # t
    BY <2>3, <2>5, <2>8, <2>9, <2>10 DEF Holds
  <2>11. Holds(t)
    BY <1>1, <1>5 DEF Holds, Live
  <2>12. IssuedInv'
    <3>1. \A s \in Tokens : tok'[s] # None => tok'[s] = tok[s]
      BY <2>6, <2>7
    <3> QED BY <1>2, <1>5, <2>1, <2>2, <3>1 DEF Inv, IssuedInv
  <2>13. RequestInv'
    <3>1. ASSUME NEW q \in Handlers, Carries(q)' PROVE Carried(req[q])'
      BY <1>2, <2>3, <2>5, <3>1 DEF Inv, RequestInv, Carried
    <3>2. ASSUME NEW q \in Handlers PROVE Local(req[q])'
      BY <1>1, <1>5, <2>2, <2>3 DEF Inv, RequestInv, Local
    <3> QED BY <3>1, <3>2 DEF RequestInv
  <2>14. OneCarrier'
    BY <2>3, <2>5, <2>8 DEF Inv, OneCarrier
  <2>15. ParentHoldsNot' /\ OneHolder'
    BY <1>2, <2>10 DEF Inv, ParentHoldsNot, OneHolder
  <2>16. RevokedHoldsNot'
    <3> SUFFICES ASSUME NEW s \in Tokens, NEW d \in deleted', Holds(s)'
                 PROVE  issued[s].family # issued[d].family
      BY <1>2 DEF RevokedHoldsNot
    <3>1. Holds(s) /\ s # t
      BY <2>10
    <3> QED BY <1>1, <2>1, <2>11, <3>1 DEF Inv, RevokedHoldsNot, OneHolder
  <2>17. SingleUse' /\ GrantNeverWidens' /\ RevokedIsNotReused'
    BY <1>2, <2>1, <2>2 DEF Inv, SingleUse, GrantNeverWidens, RevokedIsNotReused
  <2> QED BY <2>4, <2>12, <2>13, <2>14, <2>15, <2>16, <2>17 DEF Inv
<1> QED BY <1>4, <1>5

\* A code exchange: GETDEL, then the checks of ExchangeCode.
LEMMA ExchangeCodeStep ==
  ASSUME Inv, NEW p \in Handlers, NEW c \in Codes, NEW cl \in Clients,
         NEW proof \in Proofs, ExchangeCode(p, c, cl, proof)
  PROVE  Inv'
<1>1. TypeOK /\ Codes \cap Tokens = {} /\ req[p].pc = "idle" /\ code[c] # None
  BY GrantsAssumption DEF Inv, ExchangeCode
<1>2. /\ code' = [code EXCEPT ![c] = None]
      /\ UNCHANGED <<tok, used, uidx, fidx, active, issued, parent, held, deleted>>
  BY DEF ExchangeCode, history
<1>3. code' \in [Codes -> Grant \cup {None}]
  BY <1>1, <1>2 DEF TypeOK
<1>4. CASE ~Accepts(code[c], cl, proof)
  <2>1. req' = req
    BY <1>4 DEF ExchangeCode
  <2>2. TypeOK'
    BY <1>1, <1>2, <1>3, <2>1 DEF TypeOK
  <2>3. ShrinkStep
    BY <1>1, <1>2, <2>1 DEF ShrinkStep, Keeps, TypeOK
  <2> QED BY <2>2, <2>3, ShrinkKeepsInv
<1>5. CASE Accepts(code[c], cl, proof)
  <2> DEFINE r == [Done EXCEPT !.pc = "check", !.from = c, !.client = cl,
                               !.grant = code[c], !.scopes = code[c].scopes]
  <2>1. req' = [req EXCEPT ![p] = r]
    BY <1>5 DEF ExchangeCode
  <2>2. code[c] \in Grant /\ code[c].scopes \in SUBSET Scopes /\ code[c] = issued[c]
    BY <1>1 DEF TypeOK, Grant, Inv, IssuedInv
  <2>3. /\ r \in Request /\ r.pc = "check" /\ r.from = c /\ r.client = cl
        /\ r.grant = code[c] /\ r.scopes = code[c].scopes
    BY <2>2 DEF Done, Request, PCs
  <2> HIDE DEF r
  <2>4. /\ req' \in [Handlers -> Request] /\ req'[p] = r
        /\ \A q \in Handlers \ {p} : req'[q] = req[q]
    BY <1>1, <2>1, <2>3, BeginEffect
  <2>5. TypeOK'
    BY <1>1, <1>2, <1>3, <2>4 DEF TypeOK
  <2>6. Live(c) /\ ~Live(c)' /\ ~Carries(p)
    BY <1>1, <1>2 DEF Live, Carries, CarryPCs, TypeOK
  <2>7. \A k \in Codes : k # c => code'[k] = code[k]
    BY <1>1, <1>2 DEF TypeOK
  <2> QED BY <1>1, <1>2, <2>2, <2>3, <2>4, <2>5, <2>6, <2>7, TakeStep
<1> QED BY <1>4, <1>5

\* A refresh narrows: it asks for no scope that was not granted.
LEMMA NarrowedType ==
  ASSUME NEW G, NEW S
  PROVE  Narrowed(G, S) \subseteq G
BY DEF Narrowed

\* A refresh: GETDEL of the token, or a miss.
LEMMA ConsumeStep ==
  ASSUME Inv, NEW p \in Handlers, NEW t \in Tokens, NEW cl \in Clients,
         NEW S \in SUBSET Scopes, Consume(p, t, cl, S)
  PROVE  Inv'
<1>1. TypeOK /\ Codes \cap Tokens = {} /\ req[p].pc = "idle"
  BY GrantsAssumption DEF Inv, Consume
<1>2. /\ tok' = [tok EXCEPT ![t] = None]
      /\ UNCHANGED <<code, used, uidx, fidx, active, issued, parent, held, deleted>>
  BY DEF Consume, history
<1>3. /\ tok' \in [Tokens -> Grant \cup {None}]
      /\ tok'[t] = None /\ \A s \in Tokens : s # t => tok'[s] = tok[s]
  BY <1>1, <1>2 DEF TypeOK
<1>4. CASE tok[t] = None
  <2> DEFINE r == [Done EXCEPT !.pc = "miss", !.from = t]
  <2>1. req' = [req EXCEPT ![p] = r]
    BY <1>4 DEF Consume
  <2>2. r \in Request /\ r.pc = "miss" /\ r.from = t
    BY DEF Done, Request, PCs
  <2> HIDE DEF r
  <2>3. /\ req' \in [Handlers -> Request] /\ req'[p] = r
        /\ \A q \in Handlers \ {p} : req'[q] = req[q]
    BY <1>1, <2>1, <2>2, BeginEffect
  <2>4. TypeOK'
    BY <1>1, <1>2, <1>3, <2>3 DEF TypeOK
  <2> QED BY <1>2, <1>3, <2>2, <2>3, <2>4, QuietStep DEF Local, CarryPCs
<1>5. CASE tok[t] # None
  <2> DEFINE r == [Done EXCEPT !.pc = "tombstone", !.from = t, !.client = cl,
                               !.grant = tok[t], !.scopes = Narrowed(tok[t].scopes, S)]
  <2>1. req' = [req EXCEPT ![p] = r]
    BY <1>5 DEF Consume
  <2>2. /\ tok[t] \in Grant /\ tok[t] = issued[t]
        /\ Narrowed(tok[t].scopes, S) \subseteq issued[t].scopes
        /\ Narrowed(tok[t].scopes, S) \in SUBSET Scopes
    BY <1>1, <1>5, NarrowedType DEF TypeOK, Grant, Inv, IssuedInv
  <2>3. /\ r \in Request /\ r.pc = "tombstone" /\ r.from = t /\ r.client = cl
        /\ r.grant = tok[t] /\ r.scopes = Narrowed(tok[t].scopes, S)
    BY <2>2 DEF Done, Request, PCs
  <2> HIDE DEF r
  <2>4. /\ req' \in [Handlers -> Request] /\ req'[p] = r
        /\ \A q \in Handlers \ {p} : req'[q] = req[q]
    BY <1>1, <2>1, <2>3, BeginEffect
  <2>5. TypeOK'
    BY <1>1, <1>2, <1>3, <2>4 DEF TypeOK
  <2>6. Live(t) /\ ~Live(t)' /\ ~Carries(p)
    BY <1>1, <1>3, <1>5 DEF Live, Carries, CarryPCs
  <2> QED BY <1>1, <1>2, <1>3, <2>2, <2>3, <2>4, <2>5, <2>6, TakeStep
<1> QED BY <1>4, <1>5

-----------------------------------------------------------------------------
(* The commands of a request under way, none of which makes a holder.      *)

\* The pipeline after the GETDEL and the check that follows it.
LEMMA CarryingStep ==
  ASSUME Inv, NEW p \in Handlers,
         Tombstone(p) \/ UnindexUser(p) \/ UnindexFamily(p) \/ Check(p)
  PROVE  Inv'
<1>1. TypeOK /\ Carries(p)
  BY DEF Inv, Tombstone, UnindexUser, UnindexFamily, Check, Carries, CarryPCs
<1>2. /\ req[p].from \in Codes \cup Tokens /\ req[p].grant \in Grant
      /\ req[p].grant.user \in Users /\ req[p].client \in Clients
      /\ req[p].grant = issued[req[p].from]
      /\ req[p].pc \in {"tombstone", "unindex_user", "unindex_family"} =>
           req[p].from \in Tokens
  <2>1. Carried(req[p])
    BY <1>1 DEF Inv, RequestInv
  <2> QED BY <1>1, <2>1, FieldTypes DEF Carried
<1>3. ASSUME Goto(p, "unindex_user") \/ Goto(p, "unindex_family") \/ Goto(p, "check")
             \/ (Goto(p, "set") /\ req[p].client = req[p].grant.client)
             \/ Finish(p),
             Goto(p, "unindex_user") \/ Goto(p, "unindex_family") =>
               req[p].from \in Tokens
      PROVE  req' \in [Handlers -> Request] /\ \A q \in Handlers : Keeps(q)
  <2>1. CASE Finish(p)
    BY <1>1, <2>1, FinishEffect DEF Keeps, Local, CarryPCs
  <2>2. ASSUME NEW pc \in {"unindex_user", "unindex_family", "check", "set"},
               Goto(p, pc), pc = "set" => req[p].client = req[p].grant.client,
               pc \in {"unindex_user", "unindex_family"} => req[p].from \in Tokens
        PROVE  req' \in [Handlers -> Request] /\ \A q \in Handlers : Keeps(q)
    <3>1. pc \in PCs
      BY DEF PCs
    <3>2. /\ req' \in [Handlers -> Request]
          /\ \A q \in Handlers \ {p} : req'[q] = req[q]
          /\ req'[p].pc = pc /\ req'[p].from = req[p].from
          /\ req'[p].client = req[p].client /\ req'[p].grant = req[p].grant
          /\ req'[p].scopes = req[p].scopes
      BY <1>1, <2>2, <3>1, GotoEffect
    <3>3. Keeps(p)
      BY <1>1, <2>2, <3>2 DEF Keeps, Local, CarryPCs
    <3> QED BY <3>2, <3>3 DEF Keeps
  <2> QED BY <1>3, <2>1, <2>2
<1>4. CASE Tombstone(p)
  <2>1. /\ used' = [used EXCEPT ![req[p].from] = req[p].grant]
        /\ Goto(p, "unindex_user") /\ req[p].from \in Tokens
        /\ UNCHANGED <<code, tok, uidx, fidx, active, issued, parent, held, deleted>>
    BY <1>2, <1>4 DEF Tombstone, history
  <2>2. TypeOK'
    BY <1>1, <1>2, <1>3, <2>1 DEF TypeOK
  <2>3. ShrinkStep
    BY <1>1, <1>2, <1>3, <2>1 DEF ShrinkStep, TypeOK
  <2> QED BY <2>2, <2>3, ShrinkKeepsInv
<1>5. CASE UnindexUser(p)
  <2>1. /\ uidx' = [uidx EXCEPT ![req[p].grant.user] = @ \ {req[p].from}]
        /\ Goto(p, "unindex_family") /\ req[p].from \in Tokens
        /\ UNCHANGED <<code, tok, used, fidx, active, issued, parent, held, deleted>>
    BY <1>2, <1>5 DEF UnindexUser, history
  <2>2. TypeOK'
    BY <1>1, <1>2, <1>3, <2>1 DEF TypeOK
  <2>3. ShrinkStep
    BY <1>3, <2>1 DEF ShrinkStep
  <2> QED BY <2>2, <2>3, ShrinkKeepsInv
<1>6. CASE UnindexFamily(p)
  <2>1. /\ fidx' = [fidx EXCEPT ![req[p].grant.family] = @ \ {req[p].from}]
        /\ Goto(p, "check")
        /\ UNCHANGED <<code, tok, used, uidx, active, issued, parent, held, deleted>>
    BY <1>6 DEF UnindexFamily, history
  <2>2. req[p].from \in Tokens /\ req[p].grant # None
    BY <1>2, <1>6, NoneTypes DEF UnindexFamily
  <2>3. req[p].grant.family \in Tokens
    BY <1>2, <2>2 DEF Inv, IssuedInv
  <2>4. TypeOK'
    BY <1>1, <1>3, <2>1, <2>2, <2>3 DEF TypeOK
  <2>5. ShrinkStep
    BY <1>3, <2>1, <2>2 DEF ShrinkStep
  <2> QED BY <2>4, <2>5, ShrinkKeepsInv
<1>7. CASE Check(p)
  <2>1. /\ Finish(p) \/ (Goto(p, "set") /\ req[p].client = req[p].grant.client)
        /\ UNCHANGED <<code, tok, used, uidx, fidx, active, issued, parent, held,
                       deleted>>
    BY <1>7 DEF Check, MayIssue, store, history
  <2>2. req' \in [Handlers -> Request] /\ \A q \in Handlers : Keeps(q)
    <3>1. CASE Finish(p)
      BY <1>1, <3>1, FinishEffect DEF Keeps, Local, CarryPCs
    <3>2. CASE Goto(p, "set") /\ req[p].client = req[p].grant.client
      <4>1. "set" \in PCs
        BY DEF PCs
      <4>2. /\ req' \in [Handlers -> Request]
            /\ \A q \in Handlers \ {p} : req'[q] = req[q]
            /\ req'[p].pc = "set" /\ req'[p].from = req[p].from
            /\ req'[p].client = req[p].client /\ req'[p].grant = req[p].grant
            /\ req'[p].scopes = req[p].scopes
        BY <1>1, <3>2, <4>1, GotoEffect
      <4>3. Keeps(p)
        BY <1>1, <3>2, <4>2 DEF Keeps, Local, CarryPCs
      <4> QED BY <4>2, <4>3 DEF Keeps
    <3> QED BY <2>1, <3>1, <3>2
  <2>3. TypeOK'
    BY <1>1, <2>1, <2>2 DEF TypeOK
  <2>4. ShrinkStep
    BY <2>1, <2>2 DEF ShrinkStep
  <2> QED BY <2>3, <2>4, ShrinkKeepsInv
<1> QED BY <1>4, <1>5, <1>6, <1>7
\* What the next command needs of a request's locals.
Ready(q, pc) ==
  /\ pc \in {"index_user", "index_family", "members", "del_tokens", "srem_user",
             "del_family", "drop_user", "drop_family"} =>
       q.grant # None /\ q.grant.family \in Tokens
  /\ pc \in {"index_user", "index_family", "miss", "delete", "drop_user",
             "drop_family"} => q.from \in Tokens
  /\ pc = "del_all" => q.user \in Users

\* What a command that issues nothing does to the keys and the indexes.
Drops ==
  /\ UNCHANGED <<code, used, issued, parent, deleted>>
  /\ tok' \in [Tokens -> Grant \cup {None}]
  /\ \A t \in Tokens : tok'[t] = tok[t] \/ tok'[t] = None
  /\ uidx' \in [Users -> SUBSET Tokens] /\ fidx' \in [Tokens -> SUBSET Tokens]
  /\ active' \in [Users -> BOOLEAN] /\ held' \subseteq Tokens

\* A request that carries nothing goes on to its next command.
LEMMA QuietGoto ==
  ASSUME Inv, NEW p \in Handlers, NEW pc \in PCs \ CarryPCs, Goto(p, pc), Drops,
         Ready(req[p], pc)
  PROVE  Inv'
<1>1. TypeOK
  BY DEF Inv
<1>2. /\ req' \in [Handlers -> Request]
      /\ \A q \in Handlers \ {p} : req'[q] = req[q]
      /\ req'[p].pc = pc /\ req'[p].from = req[p].from
      /\ req'[p].grant = req[p].grant /\ req'[p].user = req[p].user
  BY <1>1, GotoEffect
<1>3. TypeOK'
  BY <1>1, <1>2 DEF TypeOK, Drops
<1>4. Local(req'[p])
  BY <1>2 DEF Local, Ready
<1> QED BY <1>2, <1>3, <1>4, QuietStep DEF Drops

\* A request ends, whatever it carried.
LEMMA QuietFinish ==
  ASSUME Inv, NEW p \in Handlers, Finish(p), Drops
  PROVE  Inv'
<1>1. TypeOK
  BY DEF Inv
<1>2. /\ req' \in [Handlers -> Request]
      /\ \A q \in Handlers \ {p} : req'[q] = req[q]
      /\ req'[p].pc = "idle"
  BY <1>1, FinishEffect
<1>3. TypeOK'
  BY <1>1, <1>2 DEF TypeOK, Drops
<1>4. Local(req'[p]) /\ req'[p].pc \notin CarryPCs
  BY <1>2 DEF Local, CarryPCs
<1> QED BY <1>2, <1>3, <1>4, QuietStep DEF Drops

\* A request begins, or has new locals, and carries nothing.
LEMMA QuietBegin ==
  ASSUME Inv, NEW p \in Handlers, NEW r \in Request, req' = [req EXCEPT ![p] = r],
         Drops, Ready(r, r.pc), r.pc \notin CarryPCs
  PROVE  Inv'
<1>1. TypeOK
  BY DEF Inv
<1>2. /\ req' \in [Handlers -> Request]
      /\ \A q \in Handlers \ {p} : req'[q] = req[q]
      /\ req'[p] = r
  BY <1>1, BeginEffect
<1>3. TypeOK'
  BY <1>1, <1>2 DEF TypeOK, Drops
<1>4. Local(req'[p])
  BY <1>2 DEF Local, Ready
<1> QED BY <1>2, <1>3, <1>4, QuietStep DEF Drops

\* The keys that DEL leaves.
LEMMA WithoutType ==
  ASSUME TypeOK, NEW S
  PROVE  /\ Without(S) \in [Tokens -> Grant \cup {None}]
         /\ \A t \in Tokens : Without(S)[t] = tok[t] \/ Without(S)[t] = None
BY DEF Without, TypeOK

\* Save's index commands; the second sends the token response.
LEMMA IndexStep ==
  ASSUME Inv, NEW p \in Handlers, IndexUser(p) \/ IndexFamily(p)
  PROVE  Inv'
<1>1. TypeOK /\ req[p].pc \in {"index_user", "index_family"}
  BY DEF Inv, IndexUser, IndexFamily
<1>2. /\ req[p].grant \in Grant /\ req[p].grant.user \in Users
      /\ req[p].grant # None /\ req[p].grant.family \in Tokens
      /\ req[p].from \in Tokens
  <2>1. Local(req[p])
    BY DEF Inv, RequestInv
  <2> QED BY <1>1, <2>1, FieldTypes DEF Local
<1>3. CASE IndexUser(p)
  <2>1. Goto(p, "index_family") /\ "index_family" \in PCs \ CarryPCs
    BY <1>3 DEF IndexUser, PCs, CarryPCs
  <2>2. Drops
    BY <1>1, <1>2, <1>3 DEF IndexUser, Drops, TypeOK, history
  <2>3. Ready(req[p], "index_family")
    BY <1>2 DEF Ready
  <2> QED BY <2>1, <2>2, <2>3, QuietGoto
<1>4. CASE IndexFamily(p)
  <2>1. Finish(p)
    BY <1>4 DEF IndexFamily
  <2>2. Drops
    BY <1>1, <1>2, <1>4 DEF IndexFamily, Drops, TypeOK
  <2> QED BY <2>1, <2>2, QuietFinish
<1> QED BY <1>3, <1>4

\* handleMiss: the tombstone, if there is one, names the family.
LEMMA MissStep ==
  ASSUME Inv, NEW p \in Handlers, HandleMiss(p)
  PROVE  Inv'
<1> DEFINE t == req[p].from
<1>1. TypeOK /\ t \in Tokens /\ req[p] \in Request
  BY DEF Inv, RequestInv, Local, HandleMiss, TypeOK
<1>2. Drops
  BY <1>1 DEF HandleMiss, Drops, TypeOK, store, history
<1>3. CASE used[t] = None
  BY <1>2, <1>3, QuietFinish DEF HandleMiss
<1>4. CASE used[t] # None
  <2> DEFINE r == [req[p] EXCEPT !.pc = "members", !.grant = used[t]]
  <2>1. req' = [req EXCEPT ![p].pc = "members", ![p].grant = used[t]]
    BY <1>4 DEF HandleMiss
  <2>2. req' = [req EXCEPT ![p] = r]
    BY <1>1, <2>1 DEF TypeOK
  <2>3. used[t] \in Grant /\ used[t].family \in Tokens
    BY <1>1, <1>4 DEF TypeOK, Inv, IssuedInv
  <2>4. r \in Request /\ r.pc = "members" /\ r.grant = used[t]
    BY <1>1, <2>3 DEF Request, PCs
  <2> HIDE DEF r
  <2>5. Ready(r, r.pc) /\ r.pc \notin CarryPCs
    BY <1>4, <2>3, <2>4 DEF Ready, CarryPCs
  <2> QED BY <1>2, <2>2, <2>4, <2>5, QuietBegin
<1> QED BY <1>3, <1>4

\* revokeFamily: read the index, delete what it lists, then the index.
LEMMA FamilyStep ==
  ASSUME Inv, NEW p \in Handlers,
         Members(p) \/ DelTokens(p) \/ SremUser(p) \/ DelFamily(p)
  PROVE  Inv'
<1>1. TypeOK /\ req[p].pc \in {"members", "del_tokens", "srem_user", "del_family"}
  BY DEF Inv, Members, DelTokens, SremUser, DelFamily
<1>2. /\ req[p] \in Request
      /\ req[p].grant \in Grant /\ req[p].grant.user \in Users
      /\ req[p].grant # None /\ req[p].grant.family \in Tokens
      /\ req[p].snap \in SUBSET Tokens
  <2>1. Local(req[p])
    BY DEF Inv, RequestInv
  <2> QED BY <1>1, <2>1, FieldTypes DEF Local, TypeOK
<1>3. CASE Members(p)
  <2> DEFINE S == fidx[req[p].grant.family]
             pc == IF S = {} THEN "del_family" ELSE "del_tokens"
             r == [req[p] EXCEPT !.snap = S, !.pc = pc]
  <2>1. S \in SUBSET Tokens /\ pc \in {"del_family", "del_tokens"}
    BY <1>1, <1>2 DEF TypeOK
  <2>2. req' = [req EXCEPT ![p].snap = S, ![p].pc = pc]
    BY <1>3 DEF Members
  <2> HIDE DEF S, pc
  <2>3. req' = [req EXCEPT ![p] = r]
    BY <1>1, <2>2 DEF TypeOK
  <2>4. r \in Request /\ r.pc = pc /\ r.grant = req[p].grant
    BY <1>2, <2>1 DEF Request, PCs
  <2> HIDE DEF r
  <2>5. Ready(r, r.pc) /\ r.pc \notin CarryPCs
    BY <1>2, <2>1, <2>4 DEF Ready, CarryPCs
  <2>6. Drops
    BY <1>1, <1>3 DEF Members, Drops, TypeOK, store, history
  <2> QED BY <2>3, <2>4, <2>5, <2>6, QuietBegin
<1>4. CASE DelTokens(p)
  <2>1. Goto(p, "srem_user") /\ "srem_user" \in PCs \ CarryPCs
    BY <1>4 DEF DelTokens, PCs, CarryPCs
  <2>2. Drops
    BY <1>1, <1>2, <1>4, WithoutType DEF DelTokens, Drops, TypeOK, history
  <2> QED BY <1>2, <2>1, <2>2, QuietGoto DEF Ready
<1>5. CASE SremUser(p)
  <2>1. Goto(p, "del_family") /\ "del_family" \in PCs \ CarryPCs
    BY <1>5 DEF SremUser, PCs, CarryPCs
  <2>2. Drops
    BY <1>1, <1>2, <1>5 DEF SremUser, Drops, TypeOK, history
  <2> QED BY <1>2, <2>1, <2>2, QuietGoto DEF Ready
<1>6. CASE DelFamily(p)
  <2>1. Drops
    BY <1>1, <1>2, <1>6 DEF DelFamily, Drops, TypeOK, history
  <2> QED BY <1>6, <2>1, QuietFinish DEF DelFamily
<1> QED BY <1>3, <1>4, <1>5, <1>6

\* RevokeRefreshToken: Peek, and the index commands after the GETDEL.
LEMMA RevokeStep ==
  ASSUME Inv, NEW p \in Handlers,
         \/ \E t \in Tokens, cl \in Clients : Peek(p, t, cl)
         \/ DropUser(p) \/ DropFamily(p)
  PROVE  Inv'
<1>1. TypeOK
  BY DEF Inv
<1>2. ASSUME NEW t \in Tokens, NEW cl \in Clients, Peek(p, t, cl)
      PROVE  Inv'
  <2> DEFINE r == [Done EXCEPT !.pc = "delete", !.from = t]
  <2>1. req' = [req EXCEPT ![p] = r]
    BY <1>2 DEF Peek
  <2>2. r \in Request /\ r.pc = "delete" /\ r.from = t
    BY DEF Done, Request, PCs
  <2> HIDE DEF r
  <2>3. Ready(r, r.pc) /\ r.pc \notin CarryPCs
    BY <2>2 DEF Ready, CarryPCs
  <2>4. Drops
    BY <1>1, <1>2 DEF Peek, Drops, TypeOK, store, history
  <2> QED BY <2>1, <2>2, <2>3, <2>4, QuietBegin
<1>3. ASSUME req[p].pc \in {"drop_user", "drop_family"}
      PROVE  /\ req[p].grant \in Grant /\ req[p].grant.user \in Users
             /\ req[p].grant # None /\ req[p].grant.family \in Tokens
             /\ req[p].from \in Tokens
  <2>1. Local(req[p])
    BY DEF Inv, RequestInv
  <2> QED BY <1>1, <1>3, <2>1, FieldTypes DEF Local
<1>4. CASE DropUser(p)
  <2>1. Goto(p, "drop_family") /\ "drop_family" \in PCs \ CarryPCs
    BY <1>4 DEF DropUser, PCs, CarryPCs
  <2>2. Drops
    BY <1>1, <1>3, <1>4 DEF DropUser, Drops, TypeOK, history
  <2>3. Ready(req[p], "drop_family")
    BY <1>3, <1>4 DEF Ready, DropUser
  <2> QED BY <2>1, <2>2, <2>3, QuietGoto
<1>5. CASE DropFamily(p)
  <2>1. Drops
    BY <1>1, <1>3, <1>5 DEF DropFamily, Drops, TypeOK, history
  <2> QED BY <1>5, <2>1, QuietFinish DEF DropFamily
<1> QED BY <1>2, <1>4, <1>5

\* RevokeAllForUser: SMEMBERS, then DEL.
LEMMA RevokeAllStep ==
  ASSUME Inv, NEW p \in Handlers,
         (\E u \in Users : BeginRevokeAll(p, u)) \/ RevokeAllForUser(p)
  PROVE  Inv'
<1>1. TypeOK
  BY DEF Inv
<1>2. ASSUME NEW u \in Users, BeginRevokeAll(p, u)
      PROVE  Inv'
  <2> DEFINE S == uidx[u]
             r == [Done EXCEPT !.pc = "del_all", !.user = u, !.snap = S]
  <2>1. S \in SUBSET Tokens
    BY <1>1 DEF TypeOK
  <2>2. req' = [req EXCEPT ![p] = r]
    BY <1>2 DEF BeginRevokeAll
  <2> HIDE DEF S
  <2>3. r \in Request /\ r.pc = "del_all" /\ r.user = u
    BY <2>1 DEF Done, Request, PCs
  <2> HIDE DEF r
  <2>4. Ready(r, r.pc) /\ r.pc \notin CarryPCs
    BY <2>3 DEF Ready, CarryPCs
  <2>5. Drops
    BY <1>1, <1>2 DEF BeginRevokeAll, Drops, TypeOK, store, history
  <2> QED BY <2>2, <2>3, <2>4, <2>5, QuietBegin
<1>3. CASE RevokeAllForUser(p)
  <2>1. req[p].user \in Users
    BY <1>3 DEF RevokeAllForUser, Inv, RequestInv, Local
  <2>2. Drops
    BY <1>1, <1>3, <2>1, WithoutType DEF RevokeAllForUser, Drops, TypeOK, history
  <2> QED BY <1>3, <2>2, QuietFinish DEF RevokeAllForUser
<1> QED BY <1>2, <1>3

\* A failed command: the grant is kept for the next one, or lost.
LEMMA CommandFailsStep ==
  ASSUME Inv, NEW p \in Handlers, CommandFails(p)
  PROVE  Inv'
<1>1. TypeOK
  BY DEF Inv
<1>2. Drops
  BY <1>1 DEF CommandFails, Drops, TypeOK, store, history
<1>3. CASE req[p].pc \in {"tombstone", "unindex_user", "unindex_family"}
  <2>1. Goto(p, "check") /\ "check" \in PCs
    BY <1>3 DEF CommandFails, PCs
  <2>2. /\ req' \in [Handlers -> Request]
        /\ \A q \in Handlers \ {p} : req'[q] = req[q]
        /\ req'[p].pc = "check" /\ req'[p].from = req[p].from
        /\ req'[p].client = req[p].client /\ req'[p].grant = req[p].grant
        /\ req'[p].scopes = req[p].scopes
    BY <1>1, <2>1, GotoEffect
  <2>3. TypeOK'
    BY <1>1, <1>2, <2>2 DEF TypeOK, Drops
  <2>4. Keeps(p)
    BY <1>3, <2>2 DEF Keeps, Local, Carries, CarryPCs
  <2>5. ShrinkStep
    BY <1>2, <2>2, <2>4 DEF ShrinkStep, Keeps, Drops
  <2> QED BY <2>3, <2>5, ShrinkKeepsInv
<1>4. CASE req[p].pc \in {"del_tokens", "members", "srem_user"}
  <2>1. PICK pc \in {"srem_user", "del_family"} : Goto(p, pc)
    BY <1>4 DEF CommandFails
  <2>2. pc \in PCs \ CarryPCs
    BY DEF PCs, CarryPCs
  <2>3. Ready(req[p], pc)
    BY <1>4 DEF Ready, Inv, RequestInv, Local
  <2> QED BY <1>2, <2>1, <2>2, <2>3, QuietGoto
<1>5. CASE Finish(p)
  BY <1>2, <1>5, QuietFinish
<1> QED BY <1>3, <1>4, <1>5 DEF CommandFails

\* TTLs, accounts and lost answers drop keys and touch no request.
LEMMA AmbientStep ==
  ASSUME Inv,
         \/ \E u \in Users : SetActive(u)
         \/ Expire \/ ExpireIndex
         \/ \E p \in Handlers, t \in Tokens : ConsumeAnswerLost(p, t)
  PROVE  Inv'
<1>1. TypeOK
  BY DEF Inv
<1>2. TypeOK' /\ ShrinkStep
  <2>1. ASSUME NEW u \in Users, SetActive(u) PROVE TypeOK' /\ ShrinkStep
    BY <1>1, <2>1 DEF SetActive, TypeOK, ShrinkStep, Keeps, store, history
  <2>2. CASE Expire
    <3>1. UNCHANGED <<uidx, fidx, active, req, issued, parent, held, deleted>>
      BY <2>2 DEF Expire, history
    <3>2. ASSUME NEW c \in Codes, code' = [code EXCEPT ![c] = None],
                 UNCHANGED <<tok, used>>
          PROVE  TypeOK' /\ ShrinkStep
      BY <1>1, <3>1, <3>2 DEF TypeOK, ShrinkStep, Keeps
    <3>3. ASSUME NEW t \in Tokens, tok' = [tok EXCEPT ![t] = None],
                 UNCHANGED <<code, used>>
          PROVE  TypeOK' /\ ShrinkStep
      BY <1>1, <3>1, <3>3 DEF TypeOK, ShrinkStep, Keeps
    <3>4. ASSUME NEW t \in Tokens, used' = [used EXCEPT ![t] = None],
                 UNCHANGED <<code, tok>>
          PROVE  TypeOK' /\ ShrinkStep
      BY <1>1, <3>1, <3>4 DEF TypeOK, ShrinkStep, Keeps
    <3> QED BY <2>2, <3>2, <3>3, <3>4 DEF Expire
  <2>3. CASE ExpireIndex
    BY <1>1, <2>3 DEF ExpireIndex, TypeOK, ShrinkStep, Keeps, history
  <2>4. ASSUME NEW p \in Handlers, NEW t \in Tokens, ConsumeAnswerLost(p, t)
        PROVE  TypeOK' /\ ShrinkStep
    BY <1>1, <2>4 DEF ConsumeAnswerLost, TypeOK, ShrinkStep, Keeps, history
  <2> QED BY <2>1, <2>2, <2>3, <2>4
<1> QED BY <1>2, ShrinkKeepsInv

-----------------------------------------------------------------------------
(* The theorems.                                                           *)

\* The stores start empty and no request is under way.
LEMMA InitInv == Init => Inv
<1> SUFFICES ASSUME Init PROVE Inv
  OBVIOUS
<1>1. TypeOK
  BY DoneType DEF Init, TypeOK
<1>2. \A p \in Handlers : req[p].pc = "idle"
  BY DoneType DEF Init
<1>3. RequestInv /\ OneCarrier
  BY <1>2 DEF RequestInv, OneCarrier, Carries, CarryPCs, Local
<1>4. \A x : ~Holds(x)
  BY <1>2 DEF Init, Holds, Live, Carries, CarryPCs
<1> QED BY <1>1, <1>3, <1>4 DEF Inv, Init, IssuedInv, ParentHoldsNot, OneHolder,
             RevokedHoldsNot, SingleUse, GrantNeverWidens, RevokedIsNotReused

\* Every command of every request keeps the invariant.
LEMMA NextInv ==
  ASSUME Inv, [Next]_vars
  PROVE  Inv'
<1>1. CASE UNCHANGED vars
  <2>1. TypeOK' /\ ShrinkStep
    BY <1>1 DEF Inv, TypeOK, ShrinkStep, Keeps, vars
  <2> QED BY <2>1, ShrinkKeepsInv
<1>2. ASSUME NEW c \in Codes, NEW u \in Users, NEW cl \in Clients,
             NEW S \in SUBSET Scopes, NEW pkce \in BOOLEAN,
             CreateAuthCodeSession(c, u, cl, S, pkce)
      PROVE  Inv'
  BY <1>2, CreateStep
<1>3. ASSUME NEW p \in Handlers, Start(p) PROVE Inv'
  <2>1. ASSUME NEW c \in Codes, NEW cl \in Clients, NEW proof \in Proofs,
               ExchangeCode(p, c, cl, proof)
        PROVE  Inv'
    BY <2>1, ExchangeCodeStep
  <2>2. ASSUME NEW t \in Tokens, NEW cl \in Clients, NEW S \in SUBSET Scopes,
               Consume(p, t, cl, S)
        PROVE  Inv'
    BY <2>2, ConsumeStep
  <2>3. ASSUME NEW t \in Tokens, ConsumeAnswerLost(p, t) PROVE Inv'
    BY <2>3, AmbientStep
  <2>4. CASE RevokeRequest(p)
    BY <2>4, RevokeStep DEF RevokeRequest
  <2>5. CASE \E u \in Users : BeginRevokeAll(p, u)
    BY <2>5, RevokeAllStep
  <2> QED BY <1>3, <2>1, <2>2, <2>3, <2>4, <2>5 DEF Start, TokenRequest
<1>4. ASSUME NEW p \in Handlers, Step(p) PROVE Inv'
  <2>1. CASE Tombstone(p) \/ UnindexUser(p) \/ UnindexFamily(p) \/ Check(p)
    BY <2>1, CarryingStep
  <2>2. CASE SaveSet(p)
    BY <2>2, SaveSetStep
  <2>3. CASE IndexUser(p) \/ IndexFamily(p)
    BY <2>3, IndexStep
  <2>4. CASE HandleMiss(p)
    BY <2>4, MissStep
  <2>5. CASE Members(p) \/ DelTokens(p) \/ SremUser(p) \/ DelFamily(p)
    BY <2>5, FamilyStep
  <2>6. CASE Delete(p)
    BY <2>6, DeleteStep
  <2>7. CASE DropUser(p) \/ DropFamily(p)
    BY <2>7, RevokeStep
  <2>8. CASE RevokeAllForUser(p)
    BY <2>8, RevokeAllStep
  <2> QED BY <1>4, <2>1, <2>2, <2>3, <2>4, <2>5, <2>6, <2>7, <2>8 DEF Step
<1>5. ASSUME NEW p \in Handlers, CommandFails(p) PROVE Inv'
  BY <1>5, CommandFailsStep
<1>6. CASE (\E u \in Users : SetActive(u)) \/ Expire \/ ExpireIndex
  BY <1>6, AmbientStep
<1> QED BY <1>1, <1>2, <1>3, <1>4, <1>5, <1>6 DEF Next

\* The invariant holds of the code and refresh-token stores however requests
\* of any number of goroutines interleave and whichever commands fail.
THEOREM Invariance == Spec => []Inv
<1>1. Init => Inv
  BY InitInv
<1>2. Inv /\ [Next]_vars => Inv'
  BY NextInv
<1> QED BY <1>1, <1>2, PTL DEF Spec

\* The keys, the indexes and the locals of the handlers keep their types.
THEOREM TypeCorrect == Spec => []TypeOK
<1>1. Inv => TypeOK
  BY DEF Inv
<1> QED BY <1>1, Invariance, PTL

\* GETDEL gives a code or token to one request, which saves one successor: no
\* two refresh tokens are ever issued for the same code or token.
THEOREM CodesAndTokensAreSingleUse == Spec => []SingleUse
<1>1. Inv => SingleUse
  BY DEF Inv
<1> QED BY <1>1, Invariance, PTL

\* ExchangeCode, ExchangeRefreshToken and Save never widen a grant, for any
\* number of clients and scopes.
THEOREM RefreshNeverWidens == Spec => []GrantNeverWidens
<1>1. Inv => GrantNeverWidens
  BY DEF Inv
<1> QED BY <1>1, Invariance, PTL

\* At most one refresh token of a family is in Redis.
THEOREM FamilyHasOneLiveToken == Spec => []OneLivePerFamily
<1>1. Inv => OneLivePerFamily
  <2> SUFFICES ASSUME Inv, NEW s \in Tokens, NEW t \in Tokens, tok[s] # None,
                      tok[t] # None, tok[s].family = tok[t].family
               PROVE  s = t
    BY DEF OneLivePerFamily
  <2>1. Holds(s) /\ Holds(t) /\ issued[s] = tok[s] /\ issued[t] = tok[t]
    BY DEF Holds, Live, Inv, IssuedInv
  <2> QED BY <2>1 DEF Inv, OneHolder
<1> QED BY <1>1, Invariance, PTL

\* A token that RevokeRefreshToken ended never has a tombstone, so no later
\* use of it is taken for theft.
THEOREM RevocationIsNotTheft == Spec => []RevokedIsNotReused
<1>1. Inv => RevokedIsNotReused
  BY DEF Inv
<1> QED BY <1>1, Invariance, PTL

\* Once RevokeRefreshToken has deleted a live token, no refresh under way
\* brings its family back.
THEOREM RevocationEndsTheFamily == Spec => []RevokedGrantStaysRevoked
<1>1. Inv => RevokedGrantStaysRevoked
  <2> SUFFICES ASSUME Inv, NEW t \in Tokens, NEW d \in deleted, tok[t] # None
               PROVE  tok[t].family # issued[d].family
    BY DEF RevokedGrantStaysRevoked
  <2>1. Holds(t) /\ issued[t] = tok[t]
    BY DEF Holds, Live, Inv, IssuedInv
  <2> QED BY <2>1 DEF Inv, RevokedHoldsNot
<1> QED BY <1>1, Invariance, PTL
===============================================================================
