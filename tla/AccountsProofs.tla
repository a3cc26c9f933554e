----------------------------- MODULE AccountsProofs -----------------------------
(***************************************************************************)
(* Proofs about Accounts for every set of users, roles, requests and       *)
(* servers.                                                                *)
(***************************************************************************)
EXTENDS Accounts, TLAPS

(***************************************************************************)
(* The strengthening says what a transaction that no commit has overtaken  *)
(* may still rely on: the answer of guardLastAdmin, and the roles its      *)
(* DELETE saw.                                                             *)
(***************************************************************************)

\* Every request but a bulk one is about one user.
Single(p) ==
  req[p].pc \in {"create", "guard", "count", "delete", "delete_wait", "insert"} =>
    \E u \in Users : req[p].targets = {u}

\* The request is past the guard and takes something away.
Demotes(q) ==
  \/ q.pc = "update" /\ ~q.active
  \/ q.pc \in {"delete", "delete_wait", "insert"} /\ Admin \notin q.roles

\* An administrator remains, or none of S is one.
Harmless(S) == ActiveAdmins \ S # {} \/ ActiveAdmins \cap S = {}

\* guardLastAdmin and the counts of BulkSetActive.
Guarded(p) ==
  Demotes(req[p]) /\ ~req[p].overtaken => Harmless(req[p].targets)

\* SetRoles, DELETE.
Deleted(p) ==
  req[p].pc \in {"delete_wait", "insert"} /\ ~req[p].overtaken =>
    \A u \in req[p].targets : req[p].deletes = RolesOf(u)

\* The user whose sessions are being revoked is one of the targets.
Revokes(p) == req[p].pc = "revoking" => req[p].current \in req[p].targets

Known(p) == Single(p) /\ Guarded(p) /\ Deleted(p) /\ Revokes(p)

\* A session, and a login or refresh that has found its account, has a user.
SessionHasUser ==
  \A u \in Users : sess[u] # None \/ issue[u] # None => user[u] # None

\* SeedAdmin assigns the role to an account that is there.
SeedIsThere == \A r \in Replicas : boot[r] = "assign" => user[Seed] # None

Inv ==
  /\ TypeOK
  /\ \A p \in Handlers : Known(p)
  /\ SessionHasUser
  /\ SeedIsThere
  /\ StaleSessionIsBeingRevoked

USE DEF At

-----------------------------------------------------------------------------
(* Types, and what a step does to the requests.                            *)

\* A row is not None.
LEMMA NoRow == None \notin Account /\ None \notin Session
BY AccountsAssumption DEF Account, Session

\* A goroutine without a request.
LEMMA IdleType ==
  /\ Idle \in Request /\ Idle.pc = "idle" /\ ~Idle.overtaken
BY DEF Idle, Request, PCs

\* A request given as a whole.
LEMMA BeginEffect ==
  ASSUME TypeOK, NEW p \in Handlers, NEW r \in Request,
         req' = [req EXCEPT ![p] = r]
  PROVE  /\ req' \in [Handlers -> Request]
         /\ \A q \in Handlers \ {p} : req'[q] = req[q]
         /\ req'[p] = r
BY DEF TypeOK

\* A finished request is an idle one.
LEMMA FinishEffect ==
  ASSUME TypeOK, NEW p \in Handlers, Finish(p)
  PROVE  /\ req' \in [Handlers -> Request]
         /\ \A q \in Handlers \ {p} : req'[q] = req[q]
         /\ req'[p].pc = "idle"
BY IdleType, BeginEffect DEF Finish

\* Goto changes nothing but the next step.
LEMMA GotoEffect ==
  ASSUME TypeOK, NEW p \in Handlers, NEW pc \in PCs, Goto(p, pc)
  PROVE  /\ req' \in [Handlers -> Request]
         /\ \A q \in Handlers \ {p} : req'[q] = req[q]
         /\ req'[p].pc = pc
         /\ req'[p].targets = req[p].targets /\ req'[p].roles = req[p].roles
         /\ req'[p].active = req[p].active /\ req'[p].deletes = req[p].deletes
         /\ req'[p].overtaken = req[p].overtaken
BY DEF TypeOK, Request, Goto

\* The user of a request about one.
LEMMA TargetIs ==
  ASSUME NEW p \in Handlers, Single(p),
         req[p].pc \in {"create", "guard", "count", "delete", "delete_wait", "insert"}
  PROVE  Target(p) \in Users /\ req[p].targets = {Target(p)}
<1>1. PICK u \in Users : req[p].targets = {u}
  BY DEF Single
<1> QED BY <1>1 DEF Target

\* A commit marks the transactions it overtakes and changes nothing else.
LEMMA OvertakenEffect ==
  ASSUME TypeOK, NEW q \in Handlers
  PROVE  /\ Overtaken(q) \in Request
         /\ Overtaken(q).pc = req[q].pc
         /\ Overtaken(q).targets = req[q].targets
         /\ Overtaken(q).current = req[q].current
         /\ InTransaction(q) => Overtaken(q).overtaken
<1> DEFINE o == req[q].overtaken \/ InTransaction(q)
<1>1. o \in BOOLEAN /\ (InTransaction(q) => o)
  BY DEF TypeOK, Request, InTransaction
<1>2. Overtaken(q) = [req[q] EXCEPT !.overtaken = o]
  BY DEF Overtaken
<1> HIDE DEF o
<1> QED BY <1>1, <1>2 DEF TypeOK, Request

\* An idle request, or one that only has sessions to revoke, needs nothing.
LEMMA DoneKnown ==
  ASSUME NEW p \in Handlers, req'[p].pc \in {"idle", "revoke", "bulk_count"}
  PROVE  Known(p)'
BY DEF Known, Single, Guarded, Demotes, Deleted, Revokes

\* A step keeps the property if every session that could be stale is the old
\* one, remains current or gets a request that ends it, and keeps the one it has.
LEMMA StaleKept ==
  ASSUME StaleSessionIsBeingRevoked,
         \A u \in Users :
           sess'[u] # None /\ ~sess'[u].late /\ u \notin unrevoked' =>
             \/ Current(u)'
             \/ \E p \in Handlers : WillEnd(p, u)'
             \/ /\ sess[u] # None /\ ~sess[u].late /\ u \notin unrevoked
                /\ ~Current(u)
                /\ \A p \in Handlers : WillEnd(p, u) => WillEnd(p, u)'
  PROVE  StaleSessionIsBeingRevoked'
BY DEF StaleSessionIsBeingRevoked

\* The sessions stay, and so do the requests that revoke.
LEMMA SameSessions ==
  ASSUME StaleSessionIsBeingRevoked, UNCHANGED <<user, sess, unrevoked>>,
         \A p \in Handlers :
           \/ req'[p] = req[p]
           \/ req[p].pc \notin {"revoke", "revoking"}
  PROVE  StaleSessionIsBeingRevoked'
<1>1. \A u \in Users : Current(u)' <=> Current(u)
  BY DEF Current
<1>2. \A u \in Users, p \in Handlers : WillEnd(p, u) => WillEnd(p, u)'
  BY DEF WillEnd
<1> QED BY <1>1, <1>2, StaleKept

-----------------------------------------------------------------------------
(* The kinds of step.                                                      *)

\* A request moves on and commits nothing.
LEMMA MoveStep ==
  ASSUME Inv, NEW p \in Handlers,
         req' \in [Handlers -> Request],
         \A q \in Handlers \ {p} : req'[q] = req[q],
         Known(p)', req[p].pc \notin {"revoke", "revoking"},
         UNCHANGED <<user, sess, issue, boot, unrevoked>>
  PROVE  Inv'
<1>1. TypeOK'
  BY DEF Inv, TypeOK
<1>2. ASSUME NEW q \in Handlers PROVE Known(q)'
  <2>1. CASE q = p
    BY <2>1
  <2>2. CASE q # p
    <3>1. req'[q] = req[q] /\ Known(q)
      BY <2>2 DEF Inv
    <3> QED BY <3>1 DEF Known, Single, Guarded, Demotes, Harmless, Deleted,
                        Revokes, RolesOf, ActiveAdmins, IsActiveAdmin
  <2> QED BY <2>1, <2>2
<1>3. SessionHasUser' /\ SeedIsThere'
  BY DEF Inv, SessionHasUser, SeedIsThere
<1>4. StaleSessionIsBeingRevoked'
  BY SameSessions DEF Inv
<1> QED BY <1>1, <1>2, <1>3, <1>4 DEF Inv

\* A request ends with its transaction rolled back, or begun in vain.
LEMMA EndStep ==
  ASSUME Inv, NEW p \in Handlers, Finish(p), req[p].pc \notin {"revoke", "revoking"},
         UNCHANGED <<user, sess, issue, boot, unrevoked>>
  PROVE  Inv'
<1>1. TypeOK
  BY DEF Inv
<1> QED BY <1>1, FinishEffect, DoneKnown, MoveStep

\* What a commit takes from a user, if anything.
Loses(u) == user[u] # None /\ ~(/\ user[u].active => user'[u].active
                                /\ user[u].roles \subseteq user'[u].roles)

\* A commit: every transaction under way is overtaken, and whoever loses
\* something is about to have the sessions revoked, or is noted.
LEMMA CommitStep ==
  ASSUME Inv,
         user' \in [Users -> Account \cup {None}],
         \A u \in Users : user[u] # None => user'[u] # None,
         req' \in [Handlers -> Request],
         \A q \in Handlers :
           \/ req'[q] = Overtaken(q)
           \/ /\ req'[q].pc \in {"idle", "revoke"}
              /\ req[q].pc \notin {"revoke", "revoking"},
         \A u \in Users : Loses(u) =>
           \/ u \in unrevoked'
           \/ \E q \in Handlers : req'[q].pc = "revoke" /\ u \in req'[q].targets,
         unrevoked \subseteq unrevoked', unrevoked' \subseteq Users,
         UNCHANGED <<sess, issue>>,
         \A r \in Replicas : boot'[r] = "assign" => boot[r] = "assign",
         boot' \in [Replicas -> {"down", "create", "assign", "up"}]
  PROVE  Inv'
<1>1. TypeOK'
  BY DEF Inv, TypeOK
<1>2. ASSUME NEW q \in Handlers PROVE Known(q)'
  <2>1. CASE req'[q].pc \in {"idle", "revoke"}
    BY <2>1, DoneKnown
  <2>2. CASE req'[q] = Overtaken(q)
    <3>1. /\ Known(q) /\ req'[q].pc = req[q].pc /\ req'[q].targets = req[q].targets
          /\ InTransaction(q) => req'[q].overtaken
      BY <2>2, OvertakenEffect DEF Inv
    <3>2. Single(q)' /\ Revokes(q)'
      BY <2>2, <3>1, OvertakenEffect DEF Inv, Known, Single, Revokes
    <3>3. Guarded(q)' /\ Deleted(q)'
      BY <3>1 DEF Guarded, Demotes, Deleted, InTransaction
    <3> QED BY <3>2, <3>3 DEF Known
  <2> QED BY <2>1, <2>2
<1>3. SessionHasUser' /\ SeedIsThere'
  BY AccountsAssumption DEF Inv, SessionHasUser, SeedIsThere
<1>4. ASSUME NEW u \in Users, NEW p \in Handlers, WillEnd(p, u)
      PROVE  WillEnd(p, u)'
  <2>1. req[p].pc \in {"revoke", "revoking"}
    BY <1>4 DEF WillEnd
  <2>2. req'[p].pc = req[p].pc /\ req'[p].targets = req[p].targets
        /\ req'[p].current = req[p].current
    BY <2>1, OvertakenEffect DEF Inv
  <2> QED BY <1>4, <2>2 DEF WillEnd
<1>5. ASSUME NEW u \in Users, sess[u] # None, u \notin unrevoked', Current(u)
      PROVE  Current(u)' \/ \E p \in Handlers : WillEnd(p, u)'
  <2>1. user[u] # None
    BY <1>5 DEF Inv, SessionHasUser
  <2>2. CASE Loses(u)
    BY <1>5, <2>2 DEF WillEnd
  <2>3. CASE ~Loses(u)
    BY <1>5, <2>1, <2>3 DEF Loses, Current
  <2> QED BY <2>2, <2>3
<1>6. StaleSessionIsBeingRevoked'
  BY <1>4, <1>5, StaleKept DEF Inv
<1> QED BY <1>1, <1>2, <1>3, <1>6 DEF Inv

\* A new account without roles is no administrator and has no session: nobody
\* is overtaken by it.
LEMMA NewAccountStep ==
  ASSUME Inv, NEW u \in Users, user[u] = None, Insert(u, {}),
         UNCHANGED <<sess, issue, req, unrevoked>>,
         boot' \in [Replicas -> {"down", "create", "assign", "up"}],
         (\E r \in Replicas : boot'[r] # boot[r]) => u = Seed
  PROVE  Inv' /\ ActiveAdmins' = ActiveAdmins
<1> DEFINE a == [active |-> TRUE, roles |-> {}]
<1>1. a \in Account /\ a.roles = {}
  BY DEF Account
<1>2. user' = [user EXCEPT ![u] = a]
  BY DEF Insert
<1> HIDE DEF a
<1>3. TypeOK' /\ user'[u] # None /\ user'[u].roles = {}
  BY <1>1, <1>2, NoRow DEF Inv, TypeOK
<1>4. \A v \in Users \ {u} : user'[v] = user[v]
  BY <1>2 DEF Inv, TypeOK
<1>5. \A v \in Users : RolesOf(v)' = RolesOf(v)
  BY <1>3, <1>4 DEF RolesOf
<1>6. ActiveAdmins' = ActiveAdmins
  BY <1>3, <1>4 DEF ActiveAdmins, IsActiveAdmin
<1>7. ASSUME NEW q \in Handlers PROVE Known(q)'
  <2>1. Known(q) /\ req[q] \in Request
    BY DEF Inv, TypeOK
  <2>2. req[q].targets \subseteq Users
    BY <2>1 DEF Request
  <2>3. Single(q)' /\ Guarded(q)' /\ Revokes(q)'
    BY <1>6, <2>1 DEF Known, Single, Guarded, Demotes, Harmless, Revokes
  <2>4. Deleted(q)'
    BY <1>5, <2>1, <2>2 DEF Known, Deleted
  <2> QED BY <2>3, <2>4 DEF Known
<1>8. SessionHasUser'
  BY <1>3, <1>4 DEF Inv, SessionHasUser
<1>9. SeedIsThere'
  BY <1>3, <1>4, AccountsAssumption DEF Inv, TypeOK, SeedIsThere
<1>10. ASSUME NEW v \in Users, sess[v] # None
       PROVE  user'[v] = user[v]
  BY <1>4, <1>10 DEF Inv, SessionHasUser
<1>11. \A v \in Users : sess[v] # None => (Current(v)' <=> Current(v))
  BY <1>10 DEF Current
<1>12. \A v \in Users, p \in Handlers : WillEnd(p, v) => WillEnd(p, v)'
  BY DEF WillEnd
<1>13. StaleSessionIsBeingRevoked'
  BY <1>11, <1>12, StaleKept DEF Inv
<1> QED BY <1>3, <1>6, <1>7, <1>8, <1>9, <1>13 DEF Inv

-----------------------------------------------------------------------------
(* Requests arrive and read.                                               *)

\* A request that arrives is about one user, or has not been guarded yet.
LEMMA BeginStep ==
  ASSUME Inv, NEW p \in Handlers, NEW r \in Request, req' = [req EXCEPT ![p] = r],
         At(p, "idle"), UNCHANGED <<user, sess, issue, boot, unrevoked>>,
         \/ r.pc \in {"create", "guard"} /\ \E u \in Users : r.targets = {u}
         \/ r.pc = "delete" /\ Admin \in r.roles /\ \E u \in Users : r.targets = {u}
         \/ r.pc = "update" /\ r.active
         \/ r.pc = "bulk_count"
  PROVE  Inv'
<1>1. /\ req' \in [Handlers -> Request]
      /\ \A q \in Handlers \ {p} : req'[q] = req[q]
      /\ req'[p] = r
  BY BeginEffect DEF Inv
<1>2. Known(p)'
  BY <1>1 DEF Known, Single, Guarded, Demotes, Deleted, Revokes
<1> QED BY <1>1, <1>2, MoveStep

\* CreateUser is called.
LEMMA BeginCreateStep ==
  ASSUME Inv, NEW p \in Handlers, BeginCreate(p)
  PROVE  Inv'
<1>1. PICK u \in Users, R \in SUBSET Roles :
        req' = [req EXCEPT ![p] = [Idle EXCEPT !.pc = "create", !.op = "create",
                                               !.targets = {u}, !.roles = R]]
  BY DEF BeginCreate
<1> DEFINE r == [Idle EXCEPT !.pc = "create", !.op = "create",
                             !.targets = {u}, !.roles = R]
<1>2. r \in Request /\ r.pc = "create" /\ r.targets = {u}
  BY IdleType DEF Idle, Request, PCs
<1>3. At(p, "idle") /\ UNCHANGED <<user, sess, issue, boot, unrevoked>>
  BY DEF BeginCreate
<1> HIDE DEF r
<1> QED BY <1>1, <1>2, <1>3, BeginStep DEF r

\* UpdateRoles is called; a request that keeps the admin role is not guarded.
LEMMA BeginUpdateRolesStep ==
  ASSUME Inv, NEW p \in Handlers, BeginUpdateRoles(p)
  PROVE  Inv'
<1>1. PICK u \in Users, R \in SUBSET Roles :
        req' = [req EXCEPT ![p] =
                  [Idle EXCEPT !.pc = IF Admin \in R THEN "delete" ELSE "guard",
                               !.op = "roles", !.targets = {u}, !.roles = R]]
  BY DEF BeginUpdateRoles, Others
<1> DEFINE r == [Idle EXCEPT !.pc = IF Admin \in R THEN "delete" ELSE "guard",
                             !.op = "roles", !.targets = {u}, !.roles = R]
<1>2. /\ r \in Request /\ r.targets = {u} /\ r.roles = R
      /\ r.pc = IF Admin \in R THEN "delete" ELSE "guard"
  BY IdleType DEF Idle, Request, PCs
<1>3. At(p, "idle") /\ UNCHANGED <<user, sess, issue, boot, unrevoked>>
  BY DEF BeginUpdateRoles
<1>4. req' = [req EXCEPT ![p] = r]
  BY <1>1
<1> HIDE DEF r
<1> QED BY <1>2, <1>3, <1>4, BeginStep

\* SetStatus is called; only a deactivation is guarded.
LEMMA BeginSetStatusStep ==
  ASSUME Inv, NEW p \in Handlers, BeginSetStatus(p)
  PROVE  Inv'
<1>1. PICK u \in Users, a \in BOOLEAN :
        req' = [req EXCEPT ![p] =
                  [Idle EXCEPT !.pc = IF a THEN "update" ELSE "guard",
                               !.op = "status", !.targets = {u}, !.active = a]]
  BY DEF BeginSetStatus, Others
<1> DEFINE r == [Idle EXCEPT !.pc = IF a THEN "update" ELSE "guard",
                             !.op = "status", !.targets = {u}, !.active = a]
<1>2. /\ r \in Request /\ r.targets = {u} /\ r.active = a
      /\ r.pc = IF a THEN "update" ELSE "guard"
  BY IdleType DEF Idle, Request, PCs
<1>3. At(p, "idle") /\ UNCHANGED <<user, sess, issue, boot, unrevoked>>
  BY DEF BeginSetStatus
<1>4. req' = [req EXCEPT ![p] = r]
  BY <1>1
<1> HIDE DEF r
<1> QED BY <1>2, <1>3, <1>4, BeginStep

\* BulkSetStatus is called; only a deactivation counts administrators.
LEMMA BeginBulkSetStatusStep ==
  ASSUME Inv, NEW p \in Handlers, BeginBulkSetStatus(p)
  PROVE  Inv'
<1>1. PICK T \in SUBSET Users, a \in BOOLEAN :
        req' = [req EXCEPT ![p] =
                  [Idle EXCEPT !.pc = IF a THEN "update" ELSE "bulk_count",
                               !.op = "bulk", !.targets = T, !.active = a]]
  BY DEF BeginBulkSetStatus, Others
<1> DEFINE r == [Idle EXCEPT !.pc = IF a THEN "update" ELSE "bulk_count",
                             !.op = "bulk", !.targets = T, !.active = a]
<1>2. /\ r \in Request /\ r.active = a
      /\ r.pc = IF a THEN "update" ELSE "bulk_count"
  BY IdleType DEF Idle, Request, PCs
<1>3. At(p, "idle") /\ UNCHANGED <<user, sess, issue, boot, unrevoked>>
  BY DEF BeginBulkSetStatus
<1>4. req' = [req EXCEPT ![p] = r]
  BY <1>1
<1> HIDE DEF r
<1> QED BY <1>2, <1>3, <1>4, BeginStep

\* A statement that only reads, and moves the request on: what it takes away
\* is harmless now, or it takes nothing yet.
LEMMA ReadStep ==
  ASSUME Inv, NEW p \in Handlers, NEW pc \in PCs, Goto(p, pc),
         req[p].pc \notin {"revoke", "revoking"}, UNCHANGED <<user, sess, issue, boot, unrevoked>>,
         \/ pc = "count" /\ req[p].pc = "guard"
         \/ pc = "delete" /\ req[p].pc \in {"guard", "count"} /\ Harmless(req[p].targets)
         \/ pc = "update" /\ Harmless(req[p].targets)
         \/ pc = "bulk_targets"
  PROVE  Inv'
<1>1. TypeOK /\ Known(p)
  BY DEF Inv
<1>2. /\ req' \in [Handlers -> Request]
      /\ \A q \in Handlers \ {p} : req'[q] = req[q]
      /\ req'[p].pc = pc
      /\ req'[p].targets = req[p].targets /\ req'[p].roles = req[p].roles
      /\ req'[p].active = req[p].active /\ req'[p].deletes = req[p].deletes
      /\ req'[p].overtaken = req[p].overtaken
  BY <1>1, GotoEffect
<1>3. ActiveAdmins' = ActiveAdmins
  BY DEF ActiveAdmins, IsActiveAdmin
<1>4. Single(p)' /\ Revokes(p)'
  BY <1>1, <1>2 DEF Known, Single, Revokes
<1>5. Guarded(p)' /\ Deleted(p)'
  BY <1>2, <1>3 DEF Guarded, Demotes, Harmless, Deleted
<1> QED BY <1>2, <1>4, <1>5, MoveStep DEF Known

\* guardLastAdmin, first statement: a target who is no active administrator
\* may be demoted.
LEMMA GuardTargetStep ==
  ASSUME Inv, NEW p \in Handlers, GuardTarget(p)
  PROVE  Inv'
<1>1. req[p].pc = "guard" /\ Known(p) /\ UNCHANGED <<user, sess, issue, boot, unrevoked>>
  BY DEF Inv, GuardTarget
<1>2. Target(p) \in Users /\ req[p].targets = {Target(p)}
  BY <1>1, TargetIs DEF Known
<1>3. "count" \in PCs /\ Granted(p) \in PCs /\ Granted(p) \in {"delete", "update"}
  BY DEF PCs, Granted
<1>4. CASE IsActiveAdmin(Target(p))
  <2>1. Goto(p, "count")
    BY <1>4 DEF GuardTarget
  <2> QED BY <1>1, <1>3, <2>1, ReadStep
<1>5. CASE ~IsActiveAdmin(Target(p))
  <2>1. Goto(p, Granted(p))
    BY <1>5 DEF GuardTarget
  <2>2. Harmless(req[p].targets)
    BY <1>2, <1>5 DEF Harmless, ActiveAdmins
  <2> QED BY <1>1, <1>3, <2>1, <2>2, ReadStep
<1> QED BY <1>4, <1>5

\* guardLastAdmin, second statement: another administrator remains.
LEMMA GuardCountStep ==
  ASSUME Inv, NEW p \in Handlers, GuardCount(p)
  PROVE  Inv'
<1>1. req[p].pc = "count" /\ UNCHANGED <<user, sess, issue, boot, unrevoked>>
  BY DEF GuardCount
<1>2. Granted(p) \in PCs /\ Granted(p) \in {"delete", "update"}
  BY DEF PCs, Granted
<1>3. CASE ActiveAdmins \ req[p].targets = {}
  <2>1. Finish(p)
    BY <1>3 DEF GuardCount
  <2> QED BY <1>1, <2>1, EndStep
<1>4. CASE ActiveAdmins \ req[p].targets # {}
  <2>1. Goto(p, Granted(p)) /\ Harmless(req[p].targets)
    BY <1>4 DEF GuardCount, Harmless
  <2> QED BY <1>1, <1>2, <2>1, ReadStep
<1> QED BY <1>3, <1>4

\* BulkSetActive: an administrator remains outside the targets.
LEMMA BulkCountStep ==
  ASSUME Inv, NEW p \in Handlers, BulkCount(p)
  PROVE  Inv'
<1>1. req[p].pc = "bulk_count" /\ UNCHANGED <<user, sess, issue, boot, unrevoked>>
  BY DEF BulkCount
<1>2. "bulk_targets" \in PCs /\ "update" \in PCs
  BY DEF PCs
<1>3. CASE ActiveAdmins \ req[p].targets = {}
  <2>1. Goto(p, "bulk_targets")
    BY <1>3 DEF BulkCount
  <2> QED BY <1>1, <1>2, <2>1, ReadStep
<1>4. CASE ActiveAdmins \ req[p].targets # {}
  <2>1. Goto(p, "update") /\ Harmless(req[p].targets)
    BY <1>4 DEF BulkCount, Harmless
  <2> QED BY <1>1, <1>2, <2>1, ReadStep
<1> QED BY <1>3, <1>4

\* BulkSetActive: none of the targets is one.
LEMMA BulkTargetsStep ==
  ASSUME Inv, NEW p \in Handlers, BulkTargets(p)
  PROVE  Inv'
<1>1. req[p].pc = "bulk_targets" /\ UNCHANGED <<user, sess, issue, boot, unrevoked>>
  BY DEF BulkTargets
<1>2. "update" \in PCs
  BY DEF PCs
<1>3. CASE ActiveAdmins \cap req[p].targets # {}
  <2>1. Finish(p)
    BY <1>3 DEF BulkTargets
  <2> QED BY <1>1, <2>1, EndStep
<1>4. CASE ActiveAdmins \cap req[p].targets = {}
  <2>1. Goto(p, "update") /\ Harmless(req[p].targets)
    BY <1>4 DEF BulkTargets, Harmless
  <2> QED BY <1>1, <1>2, <2>1, ReadStep
<1> QED BY <1>3, <1>4

\* SetRoles, DELETE: it has seen all the roles there are.
LEMMA SetRolesDeleteStep ==
  ASSUME Inv, NEW p \in Handlers, SetRolesDelete(p) \/ SetRolesDeleteResumes(p)
  PROVE  Inv'
<1>1. /\ req[p].pc \in {"delete", "delete_wait"} /\ Known(p) /\ TypeOK
      /\ UNCHANGED <<user, sess, issue, boot, unrevoked>> /\ req[p] \in Request
  BY DEF Inv, TypeOK, SetRolesDelete, SetRolesDeleteResumes
<1>2. Target(p) \in Users /\ req[p].targets = {Target(p)}
  BY <1>1, TargetIs DEF Known
<1>3. RolesOf(Target(p)) \in SUBSET Roles
  BY <1>1, <1>2 DEF TypeOK, Account, RolesOf
<1>4. PICK D \in SUBSET Roles, pc \in {"delete_wait", "insert"} :
        /\ req' = [req EXCEPT ![p].deletes = D, ![p].pc = pc]
        /\ ~req[p].overtaken => D = RolesOf(Target(p))
  <2>1. CASE SetRolesDelete(p)
    BY <1>3, <2>1 DEF SetRolesDelete
  <2>2. CASE SetRolesDeleteResumes(p)
    <3>1. req[p].deletes \cap RolesOf(Target(p)) \in SUBSET Roles
      BY <1>3
    <3>2. req' = [req EXCEPT ![p].deletes = req[p].deletes \cap RolesOf(Target(p)),
                             ![p].pc = "insert"]
      BY <1>1, <2>2 DEF TypeOK, SetRolesDeleteResumes
    <3>3. ~req[p].overtaken =>
            req[p].deletes \cap RolesOf(Target(p)) = RolesOf(Target(p))
      BY <1>1, <1>2, <2>2 DEF SetRolesDeleteResumes, Known, Deleted
    <3> QED BY <3>1, <3>2, <3>3
  <2> QED BY <2>1, <2>2
<1> DEFINE r == [req[p] EXCEPT !.deletes = D, !.pc = pc]
<1>5. req' = [req EXCEPT ![p] = r]
  BY <1>1, <1>4 DEF TypeOK
<1>6. /\ r \in Request /\ r.pc = pc /\ r.deletes = D /\ r.targets = req[p].targets
      /\ r.roles = req[p].roles /\ r.overtaken = req[p].overtaken
  BY <1>1 DEF Request, PCs
<1> HIDE DEF r
<1>7. /\ req' \in [Handlers -> Request] /\ req'[p] = r
      /\ \A q \in Handlers \ {p} : req'[q] = req[q]
  BY <1>1, <1>5, <1>6, BeginEffect
<1>8. /\ ActiveAdmins' = ActiveAdmins
      /\ RolesOf(Target(p)) = IF user'[Target(p)] = None THEN {}
                              ELSE user'[Target(p)].roles
  BY <1>1 DEF ActiveAdmins, IsActiveAdmin, RolesOf
<1>9. Single(p)' /\ Revokes(p)'
  BY <1>1, <1>6, <1>7 DEF Known, Single, Revokes
<1>10. Guarded(p)'
  BY <1>1, <1>6, <1>7, <1>8 DEF Known, Guarded, Demotes, Harmless
<1>11. Deleted(p)'
  BY <1>2, <1>4, <1>6, <1>7, <1>8 DEF Deleted, RolesOf
<1> QED BY <1>1, <1>7, <1>9, <1>10, <1>11, MoveStep DEF Known

-----------------------------------------------------------------------------
(* Commits.                                                                *)

\* What remains of a request after its commit.
LEMMA RevokingType ==
  ASSUME NEW q \in Request
  PROVE  Revoking(q) \in Request /\ Revoking(q).pc = "revoke"
         /\ Revoking(q).targets = q.targets
BY DEF Revoking, Idle, Request, PCs

\* Commit ends the transaction of p and overtakes the others'.
LEMMA CommitEffect ==
  ASSUME TypeOK, NEW p \in Handlers, NEW next \in Request, Commit(p, next)
  PROVE  /\ req' \in [Handlers -> Request] /\ req'[p] = next
         /\ \A q \in Handlers \ {p} : req'[q] = Overtaken(q)
BY OvertakenEffect DEF Commit

\* The change is committed; the request goes on to revoke the sessions, or its
\* targets are noted.
LEMMA CommitChangeEffect ==
  ASSUME TypeOK, NEW p \in Handlers, NEW next \in Request, CommitChange(p, next)
  PROVE  /\ req' \in [Handlers -> Request]
         /\ req'[p] = next \/ (req'[p] = Idle /\ next.targets \subseteq unrevoked')
         /\ \A q \in Handlers \ {p} : req'[q] = Overtaken(q)
         /\ unrevoked \subseteq unrevoked' /\ unrevoked' \subseteq Users
<1>1. next.targets \subseteq Users
  BY DEF Request
<1>2. CASE Commit(p, next) /\ UNCHANGED unrevoked
  BY <1>2, CommitEffect DEF TypeOK
<1>3. CASE Commit(p, Idle) /\ unrevoked' = unrevoked \cup next.targets
  BY <1>1, <1>3, CommitEffect, IdleType DEF TypeOK
<1> QED BY <1>2, <1>3 DEF CommitChange

\* CreateWithRoles adds an account.
LEMMA CreateWithRolesStep ==
  ASSUME Inv, NEW p \in Handlers, CreateWithRoles(p)
  PROVE  Inv' /\ ActiveAdmins \subseteq ActiveAdmins'
<1>0. PICK u : u = Target(p)
  OBVIOUS
<1>1. /\ req[p].pc = "create" /\ Known(p) /\ TypeOK /\ req[p] \in Request
      /\ UNCHANGED <<sess, issue, boot, unrevoked>>
  BY DEF Inv, TypeOK, CreateWithRoles
<1>2. u \in Users
  BY <1>0, <1>1, TargetIs DEF Known
<1>3. CASE user[u] = None
  <2> DEFINE a == [active |-> TRUE, roles |-> req[p].roles]
  <2>1. a \in Account
    BY <1>1 DEF Account, Request
  <2>2. user' = [user EXCEPT ![u] = a] /\ Commit(p, Idle)
    BY <1>0, <1>3 DEF CreateWithRoles, Insert
  <2> HIDE DEF a
  <2>3. /\ user' \in [Users -> Account \cup {None}] /\ user'[u] # None
        /\ \A v \in Users \ {u} : user'[v] = user[v]
    BY <1>1, <1>2, <2>1, <2>2, NoRow DEF TypeOK
  <2>4. /\ req' \in [Handlers -> Request] /\ req'[p] = Idle
        /\ \A q \in Handlers \ {p} : req'[q] = Overtaken(q)
    BY <1>1, <2>2, IdleType, CommitEffect
  <2>5. \A v \in Users : ~Loses(v) /\ (user[v] # None => user'[v] # None)
    BY <1>3, <2>3 DEF Loses
  <2>6. \A q \in Handlers :
           \/ req'[q] = Overtaken(q)
           \/ /\ req'[q].pc \in {"idle", "revoke"}
              /\ req[q].pc \notin {"revoke", "revoking"}
    BY <1>1, <2>4, IdleType
  <2>7. Inv'
    BY <1>1, <2>3, <2>4, <2>5, <2>6, CommitStep DEF TypeOK
  <2>8. ActiveAdmins \subseteq ActiveAdmins'
    BY <1>3, <2>3 DEF ActiveAdmins, IsActiveAdmin
  <2> QED BY <2>7, <2>8
<1>4. CASE user[u] # None
  <2>1. Finish(p) /\ UNCHANGED user
    BY <1>0, <1>4 DEF CreateWithRoles
  <2> QED BY <1>1, <2>1, EndStep DEF ActiveAdmins, IsActiveAdmin
<1> QED BY <1>3, <1>4

\* SetActive, BulkSetActive: the status of the rows of the targets, and
\* whoever is deactivated is about to have the sessions revoked.
LEMMA UpdateActiveStep ==
  ASSUME Inv, NEW p \in Handlers, UpdateActive(p)
  PROVE  /\ Inv'
         /\ req[p].active => ActiveAdmins \subseteq ActiveAdmins'
         /\ ActiveAdmins \ req[p].targets \subseteq ActiveAdmins'
         /\ req'[p].pc # req[p].pc
<1> DEFINE rows == {u \in req[p].targets : user[u] # None}
           next == IF req[p].active \/ (req[p].op = "status" /\ rows = {})
                     THEN Idle ELSE Revoking(req[p])
<1>1. /\ req[p].pc = "update" /\ TypeOK /\ req[p] \in Request
      /\ UNCHANGED <<sess, issue, boot>>
  BY DEF Inv, TypeOK, UpdateActive
<1>2. /\ user' = [u \in Users |-> IF u \in rows
                                    THEN [user[u] EXCEPT !.active = req[p].active]
                                    ELSE user[u]]
      /\ CommitChange(p, next)
  BY DEF UpdateActive
<1>3. \A u \in Users : u \in rows <=> u \in req[p].targets /\ user[u] # None
  OBVIOUS
<1>4. /\ next \in Request /\ next.pc \in {"idle", "revoke"}
      /\ ~req[p].active /\ rows # {} =>
           next.pc = "revoke" /\ next.targets = req[p].targets
  BY <1>1, IdleType, RevokingType
<1> HIDE DEF rows, next
<1>5. /\ req' \in [Handlers -> Request]
      /\ req'[p] = next \/ (req'[p] = Idle /\ next.targets \subseteq unrevoked')
      /\ \A q \in Handlers \ {p} : req'[q] = Overtaken(q)
      /\ unrevoked \subseteq unrevoked' /\ unrevoked' \subseteq Users
  BY <1>1, <1>2, <1>4, CommitChangeEffect
<1>6. ASSUME NEW u \in Users
      PROVE  /\ user'[u] \in Account \cup {None}
             /\ user[u] # None => user'[u] # None /\ user'[u].roles = user[u].roles
             /\ u \notin rows => user'[u] = user[u]
             /\ u \in rows => user'[u].active = req[p].active
  <2>1. CASE u \notin rows
    BY <1>1, <1>2, <2>1 DEF TypeOK
  <2>2. CASE u \in rows
    <3>1. user[u] \in Account
      BY <1>1, <1>3, <2>2 DEF TypeOK
    <3>2. user'[u] = [user[u] EXCEPT !.active = req[p].active]
      BY <1>2, <2>2
    <3>3. req[p].active \in BOOLEAN
      BY <1>1 DEF Request
    <3>4. user'[u] \in Account /\ user'[u].roles = user[u].roles
          /\ user'[u].active = req[p].active
      BY <3>1, <3>2, <3>3 DEF Account
    <3> QED BY <2>2, <3>4, NoRow
  <2> QED BY <2>1, <2>2
<1>7. user' \in [Users -> Account \cup {None}]
  <2>1. DOMAIN user' = Users /\ user' = [u \in Users |-> user'[u]]
    BY <1>2
  <2> QED BY <1>6, <2>1
<1>8. ASSUME NEW u \in Users, Loses(u)
      PROVE  \/ u \in unrevoked'
             \/ \E q \in Handlers : req'[q].pc = "revoke" /\ u \in req'[q].targets
  <2>1. u \in rows /\ ~req[p].active
    BY <1>6, <1>8 DEF Loses
  <2> QED BY <1>3, <1>4, <1>5, <2>1
<1>9. \A q \in Handlers :
         \/ req'[q] = Overtaken(q)
         \/ /\ req'[q].pc \in {"idle", "revoke"}
            /\ req[q].pc \notin {"revoke", "revoking"}
  BY <1>1, <1>4, <1>5, IdleType
<1>10. Inv'
  BY <1>1, <1>5, <1>6, <1>7, <1>8, <1>9, CommitStep DEF TypeOK
<1>11. req[p].active => ActiveAdmins \subseteq ActiveAdmins'
  BY <1>6 DEF ActiveAdmins, IsActiveAdmin
<1>12. ActiveAdmins \ req[p].targets \subseteq ActiveAdmins'
  BY <1>3, <1>6 DEF ActiveAdmins, IsActiveAdmin
<1> QED BY <1>1, <1>4, <1>5, <1>10, <1>11, <1>12, IdleType

\* SetRoles, INSERTs: either it rolls back, or the user has the roles asked
\* for and what was left of the others.
LEMMA SetRolesInsertStep ==
  ASSUME Inv, NEW p \in Handlers, SetRolesInsert(p)
  PROVE  /\ Inv'
         /\ Admin \in req[p].roles => ActiveAdmins \subseteq ActiveAdmins'
         /\ ActiveAdmins \ req[p].targets \subseteq ActiveAdmins'
         /\ req'[p].pc # req[p].pc
         /\ req'[p].pc = "revoke" =>
              /\ req'[p].targets = req[p].targets
              /\ \A u \in req[p].targets : user[u] # None =>
                   /\ user'[u] # None
                   /\ user'[u].roles =
                        (user[u].roles \ req[p].deletes) \cup req[p].roles
<1>0. PICK u : u = Target(p)
  OBVIOUS
<1>1. /\ req[p].pc = "insert" /\ Known(p) /\ TypeOK /\ req[p] \in Request
      /\ UNCHANGED <<sess, issue, boot>>
  BY DEF Inv, TypeOK, SetRolesInsert
<1>2. u \in Users /\ req[p].targets = {u}
  BY <1>0, <1>1, TargetIs DEF Known
<1>3. CASE Finish(p) /\ UNCHANGED <<user, unrevoked>>
  <2>1. req'[p].pc = "idle"
    BY <1>1, <1>3, FinishEffect
  <2> QED BY <1>1, <1>3, <2>1, EndStep DEF ActiveAdmins, IsActiveAdmin
<1>4. CASE /\ user' = IF user[u] = None THEN user
                      ELSE [user EXCEPT ![u].roles =
                              (RolesOf(u) \ req[p].deletes) \cup req[p].roles]
           /\ CommitChange(p, Revoking(req[p]))
  <2>1. /\ Revoking(req[p]) \in Request /\ Revoking(req[p]).pc = "revoke"
        /\ Revoking(req[p]).targets = req[p].targets
    BY <1>1, RevokingType
  <2>2. /\ req' \in [Handlers -> Request]
        /\ \/ req'[p] = Revoking(req[p])
           \/ req'[p] = Idle /\ req[p].targets \subseteq unrevoked'
        /\ \A q \in Handlers \ {p} : req'[q] = Overtaken(q)
        /\ unrevoked \subseteq unrevoked' /\ unrevoked' \subseteq Users
    BY <1>1, <1>4, <2>1, CommitChangeEffect
  <2> DEFINE R == (RolesOf(u) \ req[p].deletes) \cup req[p].roles
  <2>3. /\ user' \in [Users -> Account \cup {None}]
        /\ \A v \in Users \ {u} : user'[v] = user[v]
        /\ user[u] = None => user'[u] = None
        /\ user[u] # None => /\ user'[u] # None /\ user'[u].roles = R
                             /\ user'[u].active = user[u].active
    <3>1. CASE user[u] = None
      BY <1>1, <1>2, <1>4, <3>1 DEF TypeOK
    <3>2. CASE user[u] # None
      <4>1. user[u] \in Account /\ R \in SUBSET Roles
        BY <1>1, <1>2, <3>2 DEF TypeOK, Request, Account, RolesOf
      <4>2. user' = [user EXCEPT ![u].roles = R]
        BY <1>4, <3>2
      <4> HIDE DEF R
      <4> DEFINE a == [user[u] EXCEPT !.roles = R]
      <4>3. a \in Account /\ a.roles = R /\ a.active = user[u].active
        BY <4>1 DEF Account
      <4>4. user' = [user EXCEPT ![u] = a]
        BY <1>1, <1>2, <4>2 DEF TypeOK
      <4> HIDE DEF a
      <4>5. user'[u] = a
        BY <1>1, <1>2, <4>4 DEF TypeOK
      <4> QED BY <1>1, <1>2, <3>2, <4>3, <4>4, <4>5, NoRow DEF TypeOK
    <3> QED BY <3>1, <3>2
  <2>4. \A v \in Users : Loses(v) =>
           \/ v \in unrevoked'
           \/ \E q \in Handlers : req'[q].pc = "revoke" /\ v \in req'[q].targets
    <3>1. \A v \in Users : Loses(v) => v = u
      BY <2>3 DEF Loses
    <3> QED BY <1>2, <2>1, <2>2, <3>1
  <2>5. \A q \in Handlers :
           \/ req'[q] = Overtaken(q)
           \/ /\ req'[q].pc \in {"idle", "revoke"}
              /\ req[q].pc \notin {"revoke", "revoking"}
    BY <1>1, <2>1, <2>2, IdleType
  <2>6. \A v \in Users : user[v] # None => user'[v] # None
    BY <2>3
  <2>7. Inv'
    BY <1>1, <2>2, <2>3, <2>4, <2>5, <2>6, CommitStep DEF TypeOK
  <2>8. /\ Admin \in req[p].roles => ActiveAdmins \subseteq ActiveAdmins'
        /\ ActiveAdmins \ req[p].targets \subseteq ActiveAdmins'
    BY <1>2, <2>3 DEF ActiveAdmins, IsActiveAdmin
  <2> QED BY <1>1, <1>2, <2>1, <2>2, <2>3, <2>7, <2>8, IdleType DEF RolesOf
<1> QED BY <1>0, <1>3, <1>4 DEF SetRolesInsert

-----------------------------------------------------------------------------
(* Revocations, failures, sessions and servers.                            *)

\* A session whose row the snapshot has, and one after the UPDATE.
LEMMA SeenByEffect ==
  ASSUME NEW s \in Session \cup {None}, NEW p \in Handlers
  PROVE  /\ SeenBy(s, p) \in Session \cup {None}
         /\ SeenBy(s, p) # None =>
              /\ s # None /\ SeenBy(s, p).roles = s.roles
              /\ SeenBy(s, p).late = s.late
              /\ s.seen \subseteq SeenBy(s, p).seen /\ p \in SeenBy(s, p).seen
         /\ Ended(s, p) \in Session \cup {None}
         /\ Ended(s, p) # None => s # None /\ p \notin s.seen /\ Ended(s, p) = s
<1>1. CASE s = None
  BY <1>1 DEF SeenBy, Ended
<1>2. CASE s # None
  <2>1. s \in Session
    BY <1>2
  <2> DEFINE S == s.seen \cup {p}
             t == [s EXCEPT !.seen = S]
  <2>2. SeenBy(s, p) = t
    BY <1>2 DEF SeenBy
  <2>3. S \in SUBSET Handlers /\ s.seen \subseteq S /\ p \in S
    BY <2>1 DEF Session
  <2> HIDE DEF S
  <2>4. /\ t \in Session /\ t.roles = s.roles /\ t.late = s.late /\ t.seen = S
    BY <2>1, <2>3 DEF Session
  <2> QED BY <1>2, <2>2, <2>3, <2>4 DEF Ended
<1> QED BY <1>1, <1>2

\* RevokeAllForUser, the UPDATE begins: its snapshot has the row.
LEMMA RevokeSessionsStep ==
  ASSUME Inv, NEW p \in Handlers, RevokeSessions(p)
  PROVE  Inv'
<1>1. /\ req[p].pc = "revoke" /\ TypeOK /\ req[p] \in Request
      /\ UNCHANGED <<user, issue, boot, unrevoked>>
  BY DEF Inv, TypeOK, RevokeSessions
<1>2. PICK u \in req[p].targets :
        /\ sess' = [sess EXCEPT ![u] = SeenBy(sess[u], p)]
        /\ req' = [req EXCEPT ![p].pc = "revoking", ![p].current = u]
  BY <1>1 DEF RevokeSessions, TypeOK
<1> DEFINE r == [req[p] EXCEPT !.pc = "revoking", !.current = u]
<1>3. u \in Users
  BY <1>1 DEF Request
<1>4. req' = [req EXCEPT ![p] = r]
  BY <1>1, <1>2 DEF TypeOK
<1>5. /\ r \in Request /\ r.pc = "revoking" /\ r.current = u
      /\ r.targets = req[p].targets
  BY <1>1, <1>3 DEF Request, PCs
<1> HIDE DEF r
<1>6. /\ req' \in [Handlers -> Request] /\ req'[p] = r
      /\ \A q \in Handlers \ {p} : req'[q] = req[q]
  BY <1>1, <1>4, <1>5, BeginEffect
<1>7. sess[u] \in Session \cup {None}
  BY <1>1, <1>3 DEF TypeOK
<1>8. /\ sess' \in [Users -> Session \cup {None}]
      /\ sess'[u] = SeenBy(sess[u], p)
      /\ \A v \in Users \ {u} : sess'[v] = sess[v]
  BY <1>1, <1>2, <1>3, <1>7, SeenByEffect DEF TypeOK
<1>9. TypeOK'
  BY <1>1, <1>6, <1>8 DEF TypeOK
<1>10. ASSUME NEW q \in Handlers PROVE Known(q)'
  <2>1. CASE q = p
    BY <1>5, <1>6, <2>1 DEF Known, Single, Guarded, Demotes, Deleted, Revokes
  <2>2. CASE q # p
    <3>1. req'[q] = req[q] /\ Known(q)
      BY <1>6, <2>2 DEF Inv
    <3> QED BY <1>1, <3>1 DEF Known, Single, Guarded, Demotes, Harmless, Deleted, Revokes, Revokes,
                              RolesOf, ActiveAdmins, IsActiveAdmin
  <2> QED BY <2>1, <2>2
<1>11. ASSUME NEW v \in Users, sess'[v] # None
       PROVE  /\ sess[v] # None /\ sess'[v].roles = sess[v].roles
              /\ sess'[v].late = sess[v].late /\ sess[v].seen \subseteq sess'[v].seen
              /\ v = u => p \in sess'[v].seen
  BY <1>7, <1>8, <1>11, SeenByEffect
<1>12. SessionHasUser' /\ SeedIsThere'
  BY <1>1, <1>11 DEF Inv, SessionHasUser, SeedIsThere
<1>13. ASSUME NEW v \in Users, sess'[v] # None, NEW q \in Handlers, WillEnd(q, v)
       PROVE  WillEnd(q, v)'
  <2>1. CASE q = p
    BY <1>1, <1>5, <1>6, <1>11, <1>13, <2>1 DEF WillEnd
  <2>2. CASE q # p
    BY <1>6, <1>11, <1>13, <2>2 DEF WillEnd
  <2> QED BY <2>1, <2>2
<1>14. \A v \in Users : sess'[v] # None => (Current(v)' <=> Current(v))
  BY <1>1, <1>11 DEF Current
<1>15. StaleSessionIsBeingRevoked'
  BY <1>1, <1>11, <1>13, <1>14, StaleKept DEF Inv
<1> QED BY <1>9, <1>10, <1>12, <1>15 DEF Inv

\* RevokeAllForUser, the UPDATE ends: a session it leaves is not in its snapshot,
\* so that it was not this request that was going to end it.
LEMMA RevokeEndsStep ==
  ASSUME Inv, NEW p \in Handlers, RevokeEnds(p)
  PROVE  Inv'
<1> DEFINE T == req[p].targets \ {req[p].current}
           r == IF T = {} THEN Idle ELSE [Revoking(req[p]) EXCEPT !.targets = T]
<1>0. PICK u : u = req[p].current
  OBVIOUS
<1>1. /\ req[p].pc = "revoking" /\ TypeOK /\ req[p] \in Request /\ Known(p)
      /\ UNCHANGED <<user, issue, boot, unrevoked>>
  BY DEF Inv, TypeOK, RevokeEnds
<1>2. sess' = [sess EXCEPT ![u] = Ended(sess[u], p)] /\ req' = [req EXCEPT ![p] = r]
  BY <1>0, <1>1 DEF RevokeEnds, TypeOK
<1>3. u \in Users /\ T \in SUBSET Users
  BY <1>0, <1>1 DEF Request, Known, Revokes
<1>4. \A v : v \in T <=> v \in req[p].targets /\ v # u
  BY <1>0
<1> HIDE DEF T
<1>5. /\ r \in Request /\ r.pc \in {"idle", "revoke"}
      /\ T # {} => r.pc = "revoke" /\ r.targets = T
  <2>1. CASE T = {}
    BY <2>1, IdleType
  <2>2. CASE T # {}
    BY <1>1, <1>3, <2>2, RevokingType DEF Request
  <2> QED BY <2>1, <2>2
<1> HIDE DEF r
<1>6. /\ req' \in [Handlers -> Request] /\ req'[p] = r
      /\ \A q \in Handlers \ {p} : req'[q] = req[q]
  BY <1>1, <1>2, <1>5, BeginEffect
<1>7. sess[u] \in Session \cup {None}
  BY <1>1, <1>3 DEF TypeOK
<1>8. /\ sess' \in [Users -> Session \cup {None}]
      /\ sess'[u] = Ended(sess[u], p)
      /\ \A v \in Users \ {u} : sess'[v] = sess[v]
  BY <1>1, <1>2, <1>3, <1>7, SeenByEffect DEF TypeOK
<1>9. TypeOK'
  BY <1>1, <1>6, <1>8 DEF TypeOK
<1>10. ASSUME NEW q \in Handlers PROVE Known(q)'
  <2>1. CASE q = p
    BY <1>5, <1>6, <2>1, DoneKnown DEF Revokes
  <2>2. CASE q # p
    <3>1. req'[q] = req[q] /\ Known(q)
      BY <1>6, <2>2 DEF Inv
    <3> QED BY <1>1, <3>1 DEF Known, Single, Guarded, Demotes, Harmless, Deleted, Revokes, Revokes,
                              RolesOf, ActiveAdmins, IsActiveAdmin
  <2> QED BY <2>1, <2>2
<1>11. ASSUME NEW v \in Users, sess'[v] # None
       PROVE  sess'[v] = sess[v] /\ (v = u => p \notin sess[v].seen)
  BY <1>7, <1>8, <1>11, SeenByEffect
<1>12. SessionHasUser' /\ SeedIsThere'
  BY <1>1, <1>11 DEF Inv, SessionHasUser, SeedIsThere
<1>13. ASSUME NEW v \in Users, sess'[v] # None, NEW q \in Handlers, WillEnd(q, v)
       PROVE  WillEnd(q, v)'
  <2>1. CASE q = p
    <3>1. v # u /\ v \in T
      BY <1>0, <1>1, <1>4, <1>11, <1>13, <2>1 DEF WillEnd
    <3> QED BY <1>5, <1>6, <2>1, <3>1 DEF WillEnd
  <2>2. CASE q # p
    BY <1>6, <1>11, <1>13, <2>2 DEF WillEnd
  <2> QED BY <2>1, <2>2
<1>14. \A v \in Users : sess'[v] # None => (Current(v)' <=> Current(v))
  BY <1>1, <1>11 DEF Current
<1>15. StaleSessionIsBeingRevoked'
  BY <1>1, <1>11, <1>13, <1>14, StaleKept DEF Inv
<1> QED BY <1>9, <1>10, <1>12, <1>15 DEF Inv

\* Requests end before their time, their transactions rolled back; whose
\* sessions they were about to revoke is noted.
LEMMA DropStep ==
  ASSUME Inv,
         req' \in [Handlers -> Request],
         \A q \in Handlers :
           \/ req'[q] = req[q]
           \/ /\ req'[q].pc = "idle"
              /\ ToRevoke(q) \subseteq unrevoked',
         unrevoked \subseteq unrevoked', unrevoked' \subseteq Users,
         UNCHANGED <<user, sess, issue>>,
         boot' \in [Replicas -> {"down", "create", "assign", "up"}],
         \A r \in Replicas :
           boot'[r] = "assign" => boot[r] = "assign" \/ user[Seed] # None
  PROVE  Inv'
<1>1. TypeOK'
  BY DEF Inv, TypeOK
<1>2. ASSUME NEW q \in Handlers PROVE Known(q)'
  <2>1. CASE req'[q].pc = "idle"
    BY <2>1, DoneKnown
  <2>2. CASE req'[q] = req[q]
    <3>1. Known(q)
      BY DEF Inv
    <3> QED BY <2>2, <3>1 DEF Known, Single, Guarded, Demotes, Harmless, Deleted,
                              Revokes, RolesOf, ActiveAdmins, IsActiveAdmin
  <2> QED BY <2>1, <2>2
<1>3. SessionHasUser' /\ SeedIsThere'
  BY DEF Inv, SessionHasUser, SeedIsThere
<1>4. \A u \in Users : Current(u)' <=> Current(u)
  BY DEF Current
<1>5. ASSUME NEW u \in Users, u \notin unrevoked', NEW p \in Handlers, WillEnd(p, u)
      PROVE  WillEnd(p, u)'
  <2>1. u \in ToRevoke(p)
    BY <1>5 DEF WillEnd, ToRevoke, Inv, Known, Revokes
  <2>2. req'[p] = req[p]
    BY <1>5, <2>1
  <2> QED BY <1>5, <2>2 DEF WillEnd
<1>6. StaleSessionIsBeingRevoked'
  BY <1>4, <1>5, StaleKept DEF Inv
<1> QED BY <1>1, <1>2, <1>3, <1>6 DEF Inv

\* A statement fails.
LEMMA StatementFailsStep ==
  ASSUME Inv, NEW p \in Handlers, StatementFails(p)
  PROVE  Inv'
<1>1. TypeOK /\ Finish(p) /\ UNCHANGED <<user, sess, issue, boot>> /\ req[p] \in Request
  BY DEF Inv, TypeOK, StatementFails
<1>2. /\ req' \in [Handlers -> Request] /\ req'[p].pc = "idle"
      /\ \A q \in Handlers \ {p} : req'[q] = req[q]
  BY <1>1, FinishEffect
<1>3. /\ unrevoked \subseteq unrevoked' /\ unrevoked' \subseteq Users
      /\ ToRevoke(p) \subseteq unrevoked'
  BY <1>1 DEF StatementFails, ToRevoke, TypeOK, Request
<1> QED BY <1>1, <1>2, <1>3, DropStep DEF TypeOK

\* A server stops, and its requests with it.
LEMMA StopStep ==
  ASSUME Inv, NEW r \in Replicas, Stop(r)
  PROVE  Inv'
<1>1. TypeOK /\ UNCHANGED <<user, sess, issue>> /\ boot' = [boot EXCEPT ![r] = "down"]
  BY DEF Inv, Stop
<1>2. PICK D \in SUBSET Handlers :
        /\ req' = [q \in Handlers |-> IF q \in D THEN Idle ELSE req[q]]
        /\ unrevoked' = unrevoked \cup UNION {ToRevoke(q) : q \in D}
  BY DEF Stop
<1>3. req' \in [Handlers -> Request]
  BY <1>1, <1>2, IdleType DEF TypeOK
<1>4. \A q \in Handlers : ToRevoke(q) \subseteq Users
  BY <1>1 DEF TypeOK, Request, ToRevoke
<1>5. unrevoked \subseteq unrevoked' /\ unrevoked' \subseteq Users
  BY <1>1, <1>2, <1>4 DEF TypeOK
<1>6. ASSUME NEW q \in Handlers
      PROVE  \/ req'[q] = req[q]
             \/ /\ req'[q].pc = "idle"
                /\ ToRevoke(q) \subseteq unrevoked'
  <2>1. CASE q \notin D
    BY <1>2, <2>1
  <2>2. CASE q \in D
    <3>1. req'[q].pc = "idle"
      BY <1>2, <2>2, IdleType
    <3>2. ToRevoke(q) \subseteq unrevoked'
      BY <1>2, <2>2
    <3> QED BY <3>1, <3>2
  <2> QED BY <2>1, <2>2
<1>7. /\ boot' \in [Replicas -> {"down", "create", "assign", "up"}]
      /\ \A s \in Replicas : boot'[s] = "assign" => boot[s] = "assign"
  BY <1>1 DEF TypeOK
<1> QED BY <1>1, <1>3, <1>5, <1>6, <1>7, DropStep

\* What a login or a refresh does.
Issue(u) == ReadAccount(u) \/ IssueSession(u) \/ IssueFails(u)

\* A step that leaves accounts and requests alone leaves what they rely on.
LEMMA SameAccounts ==
  ASSUME Inv, UNCHANGED <<user, req>>
  PROVE  \A q \in Handlers : Known(q)'
BY DEF Inv, Known, Single, Guarded, Demotes, Harmless, Deleted, Revokes, Revokes, RolesOf,
       ActiveAdmins, IsActiveAdmin

\* A login or refresh reads the account, or gives up.
LEMMA ReadAccountStep ==
  ASSUME Inv, NEW u \in Users, ReadAccount(u) \/ IssueFails(u)
  PROVE  Inv'
<1>1. TypeOK /\ UNCHANGED <<user, sess, req, boot, unrevoked>>
  BY DEF Inv, ReadAccount, IssueFails
<1>2. user[u] # None => user[u].roles \in SUBSET Roles
  BY <1>1 DEF TypeOK, Account
<1>3. /\ issue' \in [Users -> (SUBSET Roles) \cup {None}]
      /\ \A v \in Users : issue'[v] # None => issue[v] # None \/ user[v] # None
  BY <1>1, <1>2 DEF TypeOK, ReadAccount, IssueFails
<1>4. TypeOK' /\ SessionHasUser' /\ SeedIsThere'
  BY <1>1, <1>3 DEF TypeOK, Inv, SessionHasUser, SeedIsThere
<1>5. StaleSessionIsBeingRevoked'
  BY <1>1, SameSessions DEF Inv
<1> QED BY <1>1, <1>4, <1>5, SameAccounts DEF Inv

\* The session is inserted: its roles are current, or it is late.
LEMMA IssueSessionStep ==
  ASSUME Inv, NEW u \in Users, IssueSession(u)
  PROVE  Inv'
<1> DEFINE c == user[u].active /\ issue[u] \subseteq user[u].roles
<1>1. /\ TypeOK /\ UNCHANGED <<user, req, boot, unrevoked>> /\ issue[u] # None
      /\ sess' = [sess EXCEPT ![u] = [roles |-> issue[u], seen |-> {}, late |-> ~c]]
      /\ issue' = [issue EXCEPT ![u] = None]
  BY DEF Inv, IssueSession
<1>2. user[u] # None /\ issue[u] \in SUBSET Roles
  BY <1>1 DEF Inv, TypeOK, SessionHasUser
<1>3. PICK b \in BOOLEAN : b = ~c
  OBVIOUS
<1> HIDE DEF c
<1> DEFINE s == [roles |-> issue[u], seen |-> {}, late |-> b]
<1>4. sess' = [sess EXCEPT ![u] = s]
  BY <1>1, <1>3
<1>5. s \in Session /\ s.roles = issue[u] /\ s.late = b
  BY <1>2 DEF Session
<1> HIDE DEF s
<1>6. /\ sess' \in [Users -> Session \cup {None}] /\ sess'[u] = s
      /\ \A v \in Users \ {u} : sess'[v] = sess[v]
  BY <1>1, <1>4, <1>5 DEF TypeOK
<1>7. /\ issue' \in [Users -> (SUBSET Roles) \cup {None}]
      /\ \A v \in Users : issue'[v] # None => issue[v] # None
  BY <1>1 DEF TypeOK
<1>8. TypeOK'
  BY <1>1, <1>6, <1>7 DEF TypeOK
<1>9. SessionHasUser' /\ SeedIsThere'
  BY <1>1, <1>2, <1>6, <1>7 DEF Inv, SessionHasUser, SeedIsThere
<1>10. ~b => Current(u)'
  BY <1>1, <1>3, <1>5, <1>6 DEF Current, c
<1>11. ASSUME NEW v \in Users \ {u}
       PROVE  /\ Current(v)' <=> Current(v)
              /\ \A q \in Handlers : WillEnd(q, v) => WillEnd(q, v)'
  BY <1>1, <1>6 DEF Current, WillEnd
<1>12. StaleSessionIsBeingRevoked'
  BY <1>1, <1>5, <1>6, <1>10, <1>11, StaleKept DEF Inv
<1> QED BY <1>1, <1>8, <1>9, <1>12, SameAccounts DEF Inv

\* SeedAdmin looks for the account, creates it, and gives it the role.
LEMMA SeedFindStep ==
  ASSUME Inv, NEW r \in Replicas, SeedFind(r)
  PROVE  Inv'
<1>1. /\ TypeOK /\ UNCHANGED <<user, sess, issue, req, unrevoked>>
      /\ boot' = [boot EXCEPT ![r] = IF user[Seed] = None THEN "create" ELSE "assign"]
  BY DEF Inv, SeedFind, Boot
<1>2. /\ boot' \in [Replicas -> {"down", "create", "assign", "up"}]
      /\ \A s \in Replicas :
           boot'[s] = "assign" => boot[s] = "assign" \/ user[Seed] # None
  BY <1>1 DEF TypeOK
<1> QED BY <1>1, <1>2, DropStep DEF TypeOK

\* The account is created unless another server was faster.
LEMMA SeedCreateStep ==
  ASSUME Inv, NEW r \in Replicas, SeedCreate(r)
  PROVE  Inv' /\ ActiveAdmins' = ActiveAdmins
<1>1. TypeOK /\ UNCHANGED <<sess, issue, req, unrevoked>>
  BY DEF Inv, SeedCreate
<1>2. CASE user[Seed] = None
  <2>1. boot' = [boot EXCEPT ![r] = "assign"] /\ Insert(Seed, {})
    BY <1>2 DEF SeedCreate, Boot
  <2>2. boot' \in [Replicas -> {"down", "create", "assign", "up"}]
    BY <1>1, <2>1 DEF TypeOK
  <2> QED BY <1>1, <1>2, <2>1, <2>2, NewAccountStep, AccountsAssumption
<1>3. CASE user[Seed] # None
  <2>1. boot' = [boot EXCEPT ![r] = "up"] /\ UNCHANGED user
    BY <1>3 DEF SeedCreate, Boot
  <2>2. /\ boot' \in [Replicas -> {"down", "create", "assign", "up"}]
        /\ \A s \in Replicas : boot'[s] = "assign" => boot[s] = "assign"
    BY <1>1, <2>1 DEF TypeOK
  <2>3. Inv'
    BY <1>1, <2>1, <2>2, DropStep DEF TypeOK
  <2> QED BY <2>1, <2>3 DEF ActiveAdmins, IsActiveAdmin
<1> QED BY <1>2, <1>3

\* The role is assigned; that overtakes every transaction under way.
LEMMA AssignRoleStep ==
  ASSUME Inv, NEW r \in Replicas, AssignRoleByName(r)
  PROVE  Inv' /\ ActiveAdmins \subseteq ActiveAdmins'
<1> DEFINE R == user[Seed].roles \cup {Admin}
           a == [user[Seed] EXCEPT !.roles = R]
<1>1. /\ TypeOK /\ UNCHANGED <<sess, issue, unrevoked>> /\ Seed \in Users
      /\ boot[r] = "assign" /\ boot' = [boot EXCEPT ![r] = "up"]
      /\ user' = [user EXCEPT ![Seed].roles = @ \cup {Admin}]
      /\ req' = [q \in Handlers |-> Overtaken(q)]
  BY AccountsAssumption DEF Inv, AssignRoleByName, Boot
<1>2. user[Seed] \in Account
  BY <1>1 DEF Inv, TypeOK, SeedIsThere
<1>3. R \in SUBSET Roles /\ user[Seed].roles \subseteq R
  BY <1>2, AccountsAssumption DEF Account
<1>4. user' = [user EXCEPT ![Seed] = a]
  BY <1>1 DEF TypeOK
<1> HIDE DEF R
<1>5. a \in Account /\ a.roles = R /\ a.active = user[Seed].active
  BY <1>2, <1>3 DEF Account
<1> HIDE DEF a
<1>6. /\ user' \in [Users -> Account \cup {None}] /\ user'[Seed] = a
      /\ \A v \in Users \ {Seed} : user'[v] = user[v]
  BY <1>1, <1>4, <1>5 DEF TypeOK
<1>7. \A v \in Users : ~Loses(v) /\ (user[v] # None => user'[v] # None)
  BY <1>3, <1>5, <1>6, NoRow DEF Loses
<1>8. /\ req' \in [Handlers -> Request]
      /\ \A q \in Handlers : req'[q] = Overtaken(q)
  BY <1>1, OvertakenEffect
<1>9. /\ boot' \in [Replicas -> {"down", "create", "assign", "up"}]
      /\ \A s \in Replicas : boot'[s] = "assign" => boot[s] = "assign"
  BY <1>1 DEF TypeOK
<1>10. Inv'
  BY <1>1, <1>6, <1>7, <1>8, <1>9, CommitStep DEF TypeOK
<1>11. ActiveAdmins \subseteq ActiveAdmins'
  BY <1>7 DEF ActiveAdmins, IsActiveAdmin, Loses
<1> QED BY <1>10, <1>11

\* A registration adds an account without roles.
LEMMA RegisterStep ==
  ASSUME Inv, NEW u \in Users, Register(u)
  PROVE  Inv' /\ ActiveAdmins' = ActiveAdmins
<1>1. /\ user[u] = None /\ Insert(u, {}) /\ UNCHANGED <<sess, issue, req, boot, unrevoked>>
      /\ boot \in [Replicas -> {"down", "create", "assign", "up"}]
  BY DEF Inv, TypeOK, Register
<1> QED BY <1>1, NewAccountStep

-----------------------------------------------------------------------------
(* Theorems.                                                               *)

\* Every step preserves the invariant.
LEMMA NextInv == Inv /\ [Next]_vars => Inv'
<1> SUFFICES ASSUME Inv, [Next]_vars PROVE Inv'
  OBVIOUS
<1>1. ASSUME NEW p \in Handlers, Handle(p) PROVE Inv'
  BY <1>1, BeginCreateStep, BeginUpdateRolesStep, BeginSetStatusStep,
     BeginBulkSetStatusStep, CreateWithRolesStep, GuardTargetStep, GuardCountStep,
     BulkCountStep, BulkTargetsStep, UpdateActiveStep, SetRolesDeleteStep,
     SetRolesInsertStep, RevokeSessionsStep, RevokeEndsStep, StatementFailsStep
     DEF Handle
<1>2. ASSUME NEW u \in Users, Register(u) \/ Issue(u) PROVE Inv'
  BY <1>2, RegisterStep, ReadAccountStep, IssueSessionStep DEF Issue
<1>3. ASSUME NEW r \in Replicas,
             SeedFind(r) \/ SeedCreate(r) \/ AssignRoleByName(r) \/ Stop(r)
      PROVE  Inv'
  BY <1>3, SeedFindStep, SeedCreateStep, AssignRoleStep, StopStep
<1>4. CASE UNCHANGED vars
  <2>1. UNCHANGED <<user, sess, issue, req, boot, unrevoked>>
    BY <1>4 DEF vars
  <2> QED BY <2>1, DropStep DEF Inv, TypeOK
<1> QED BY <1>1, <1>2, <1>3, <1>4 DEF Next, Issue

\* The invariant and its strengthening hold in every reachable state.
THEOREM Invariance == Spec => []Inv
<1>1. Init => Inv
  <2> SUFFICES ASSUME Init PROVE Inv
    OBVIOUS
  <2>1. TypeOK
    BY IdleType DEF Init, TypeOK
  <2>2. ASSUME NEW p \in Handlers PROVE Known(p)
    BY IdleType DEF Init, Known, Single, Guarded, Demotes, Deleted, Revokes
  <2>3. SessionHasUser /\ SeedIsThere /\ StaleSessionIsBeingRevoked
    BY DEF Init, SessionHasUser, SeedIsThere, StaleSessionIsBeingRevoked
  <2> QED BY <2>1, <2>2, <2>3 DEF Inv
<1>2. Inv /\ [Next]_vars => Inv'
  BY NextInv
<1> QED BY <1>1, <1>2, PTL DEF Spec

\* UpdateRoles, SetStatus, BulkSetStatus: a session that carries lost roles,
\* or belongs to a deactivated user, is about to be ended by a revocation that
\* has its row or has yet to look, unless the revocation failed or was never
\* begun, or the session's roles were read before the change and its row
\* inserted after it.
THEOREM StaleSessionsAreRevoked == Spec => []StaleSessionIsBeingRevoked
<1>1. Inv => StaleSessionIsBeingRevoked
  BY DEF Inv
<1> QED BY <1>1, Invariance, PTL

\* A step that loses the last administrator.
LosesLastAdmin == ActiveAdmins # {} /\ ActiveAdmins' = {}
OvertakenMoves == \E p \in Handlers : req[p].overtaken /\ req'[p] # req[p]

\* Only UPDATE of a deactivation and INSERT of roles without admin take an
\* administrator away, and the guard's answer holds unless overtaken.
LEMMA LastAdminStep == Inv /\ [Next]_vars => (LosesLastAdmin => OvertakenMoves)
<1> SUFFICES ASSUME Inv, [Next]_vars, ActiveAdmins # {}, ActiveAdmins' = {}
             PROVE  OvertakenMoves
  BY DEF LosesLastAdmin
<1>1. CASE UNCHANGED user
  BY <1>1 DEF ActiveAdmins, IsActiveAdmin
<1>2. ASSUME NEW p \in Handlers, UpdateActive(p) PROVE OvertakenMoves
  <2>1. /\ req[p].active => ActiveAdmins \subseteq ActiveAdmins'
        /\ ActiveAdmins \ req[p].targets \subseteq ActiveAdmins'
        /\ req'[p].pc # req[p].pc
    BY <1>2, UpdateActiveStep
  <2>2. req[p].pc = "update" /\ Guarded(p)
    BY <1>2 DEF UpdateActive, Inv, Known
  <2>3. ~req[p].active /\ ~Harmless(req[p].targets)
    BY <2>1 DEF Harmless
  <2>4. req[p].overtaken
    BY <2>2, <2>3 DEF Guarded, Demotes
  <2> QED BY <2>1, <2>4 DEF OvertakenMoves
<1>3. ASSUME NEW p \in Handlers, SetRolesInsert(p) PROVE OvertakenMoves
  <2>1. /\ Admin \in req[p].roles => ActiveAdmins \subseteq ActiveAdmins'
        /\ ActiveAdmins \ req[p].targets \subseteq ActiveAdmins'
        /\ req'[p].pc # req[p].pc
    BY <1>3, SetRolesInsertStep
  <2>2. req[p].pc = "insert" /\ Guarded(p)
    BY <1>3 DEF SetRolesInsert, Inv, Known
  <2>3. Admin \notin req[p].roles /\ ~Harmless(req[p].targets)
    BY <2>1 DEF Harmless
  <2>4. req[p].overtaken
    BY <2>2, <2>3 DEF Guarded, Demotes
  <2> QED BY <2>1, <2>4 DEF OvertakenMoves
<1>4. ASSUME NEW p \in Handlers, CreateWithRoles(p) PROVE FALSE
  BY <1>4, CreateWithRolesStep
<1>5. ASSUME NEW p \in Handlers, Handle(p) PROVE OvertakenMoves
  BY <1>1, <1>2, <1>3, <1>4, <1>5
     DEF Handle, BeginCreate, BeginUpdateRoles, BeginSetStatus, BeginBulkSetStatus,
         GuardTarget, GuardCount, BulkCount, BulkTargets, SetRolesDelete,
         SetRolesDeleteResumes, RevokeSessions, RevokeEnds, StatementFails
<1>6. ASSUME NEW u \in Users, Register(u) \/ Issue(u) PROVE OvertakenMoves
  BY <1>1, <1>6, RegisterStep DEF Issue, ReadAccount, IssueSession, IssueFails
<1>7. ASSUME NEW r \in Replicas,
             SeedFind(r) \/ SeedCreate(r) \/ AssignRoleByName(r) \/ Stop(r)
      PROVE  OvertakenMoves
  BY <1>1, <1>7, SeedCreateStep, AssignRoleStep DEF SeedFind, Stop
<1>8. CASE UNCHANGED vars
  BY <1>1, <1>8 DEF vars
<1> QED BY <1>5, <1>6, <1>7, <1>8 DEF Next, Issue

\* guardLastAdmin: the last active administrator is only lost by a request
\* whose transaction another commit has overtaken.
THEOREM LastAdminIsKept == Spec => LastAdmin
<1>1. Inv /\ [Next]_vars => [LosesLastAdmin => OvertakenMoves]_vars
  BY LastAdminStep
<1>2. Spec => [][LosesLastAdmin => OvertakenMoves]_vars
  BY <1>1, Invariance, PTL DEF Spec
<1> QED BY <1>2 DEF LastAdmin, LosesLastAdmin, OvertakenMoves

\* A commit of SetRoles leaves the roles requested.
Replaces ==
  \A p \in Handlers :
    At(p, "insert") /\ req'[p].pc = "revoke" =>
      \/ req[p].overtaken
      \/ RolesOf(Target(p))' = req[p].roles
      \/ user[Target(p)] = None

\* What one request does moves no other on.
LEMMA OthersStay ==
  ASSUME TypeOK, NEW p \in Handlers, NEW q \in Handlers \ {p}, Handle(q)
  PROVE  req'[p].pc = req[p].pc
<1>1. ASSUME NEW r, Commit(q, r) PROVE req'[p].pc = req[p].pc
  BY <1>1, OvertakenEffect DEF Commit
<1>2. CASE CreateWithRoles(q) \/ UpdateActive(q) \/ SetRolesInsert(q)
  BY <1>1, <1>2 DEF TypeOK, CreateWithRoles, UpdateActive, SetRolesInsert, Finish,
                    CommitChange
<1>3. CASE \/ BeginCreate(q) \/ BeginUpdateRoles(q) \/ BeginSetStatus(q)
           \/ BeginBulkSetStatus(q)
  BY <1>3 DEF TypeOK, BeginCreate, BeginUpdateRoles, BeginSetStatus,
              BeginBulkSetStatus
<1>4. CASE \/ GuardTarget(q) \/ GuardCount(q) \/ BulkCount(q) \/ BulkTargets(q)
  BY <1>4 DEF TypeOK, GuardTarget, GuardCount, BulkCount, BulkTargets, Goto, Finish
<1>5. CASE \/ SetRolesDelete(q) \/ SetRolesDeleteResumes(q) \/ RevokeSessions(q)
           \/ RevokeEnds(q) \/ StatementFails(q)
  BY <1>5 DEF TypeOK, SetRolesDelete, SetRolesDeleteResumes, RevokeSessions,
              RevokeEnds, StatementFails, Finish
<1> QED BY <1>2, <1>3, <1>4, <1>5 DEF Handle

\* Only SetRoles brings a request from its INSERTs to the revocation.
LEMMA OnlyInsertCommits ==
  ASSUME Inv, [Next]_vars, NEW p \in Handlers,
         req[p].pc = "insert", req'[p].pc = "revoke"
  PROVE  SetRolesInsert(p)
<1>1. TypeOK
  BY DEF Inv
<1>2. req'[p] # req[p] /\ req'[p] # Idle /\ req'[p] # Overtaken(p)
  BY <1>1, IdleType, OvertakenEffect
<1>3. ASSUME NEW u \in Users, Register(u) \/ Issue(u) PROVE FALSE
  BY <1>2, <1>3 DEF Register, Issue, ReadAccount, IssueSession, IssueFails
<1>4. ASSUME NEW r \in Replicas,
             SeedFind(r) \/ SeedCreate(r) \/ AssignRoleByName(r) \/ Stop(r)
      PROVE  FALSE
  BY <1>2, <1>4 DEF SeedFind, SeedCreate, AssignRoleByName, Stop
<1>5. CASE UNCHANGED vars
  BY <1>2, <1>5 DEF vars
<1>6. ASSUME NEW q \in Handlers, Handle(q) PROVE SetRolesInsert(p)
  <2>1. q = p
    BY <1>1, <1>6, OthersStay
  <2>2. ~StatementFails(p)
    BY <1>1, <1>2, FinishEffect DEF StatementFails
  <2> QED BY <1>6, <2>1, <2>2
          DEF Handle, BeginCreate, BeginUpdateRoles, BeginSetStatus,
              BeginBulkSetStatus, CreateWithRoles, GuardTarget, GuardCount,
              BulkCount, BulkTargets, UpdateActive, SetRolesDelete,
              SetRolesDeleteResumes, RevokeSessions, RevokeEnds
<1> QED BY <1>3, <1>4, <1>5, <1>6 DEF Next, Issue

\* The DELETE of a transaction that was not overtaken has seen every role.
LEMMA ReplaceStep == Inv /\ [Next]_vars => Replaces
<1> SUFFICES ASSUME Inv, [Next]_vars, NEW p \in Handlers,
                    req[p].pc = "insert", req'[p].pc = "revoke",
                    ~req[p].overtaken, user[Target(p)] # None
             PROVE  RolesOf(Target(p))' = req[p].roles
  BY DEF Replaces
<1>0. PICK u : u = Target(p)
  OBVIOUS
<1>1. Known(p) /\ u \in Users /\ req[p].targets = {u} /\ user[u] # None
  BY <1>0, TargetIs DEF Inv, Known
<1>2. /\ req'[p].targets = {u} /\ user'[u] # None
      /\ user'[u].roles = (user[u].roles \ req[p].deletes) \cup req[p].roles
  BY <1>1, OnlyInsertCommits, SetRolesInsertStep
<1>3. req[p].deletes = user[u].roles
  BY <1>1 DEF Known, Deleted, RolesOf
<1>4. user'[u].roles = req[p].roles
  BY <1>2, <1>3
<1>5. Target(p)' = u
  BY <1>1, <1>2 DEF Target
<1> QED BY <1>2, <1>4, <1>5 DEF RolesOf

\* SetRoles "replaces all roles for a user", unless another commit has
\* overtaken its transaction.
THEOREM SetRolesReplaces == Spec => RolesAreReplaced
<1>1. Inv /\ [Next]_vars => [Replaces]_vars
  BY ReplaceStep
<1>2. Spec => [][Replaces]_vars
  BY <1>1, Invariance, PTL DEF Spec
<1> QED BY <1>2 DEF RolesAreReplaced, Replaces
=================================================================================
