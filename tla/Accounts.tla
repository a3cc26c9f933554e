-------------------------------- MODULE Accounts --------------------------------
(***************************************************************************)
(* User accounts and their administration: tables users and user_roles     *)
(* (backend/internal/user/repository.go), the admin API's handlers         *)
(* CreateUser, UpdateRoles, SetStatus and BulkSetStatus                    *)
(* (backend/internal/admin/handler.go), registration, and the seeding of   *)
(* the first administrator when a server starts.                           *)
(*                                                                         *)
(* Every transaction runs at PostgreSQL's READ COMMITTED: each statement   *)
(* sees what was committed when it began, and other requests commit in     *)
(* between.  A transaction's last write and its commit are one step; if    *)
(* the answer to the COMMIT is lost the handler returns and revokes        *)
(* nothing.  The UPDATE that revokes a user's sessions is two steps: it    *)
(* takes its snapshot, and then waits for the row and ends the session if  *)
(* the snapshot has its row.  The caller is authenticated once, when the   *)
(* request arrives.                                                        *)
(***************************************************************************)
EXTENDS FiniteSets

CONSTANTS
  Users,     \* email addresses; unique in table users
  Seed,      \* INITIAL_ADMIN_EMAIL
  Roles, Admin,
  Handlers,  \* requests of the admin API in flight
  Replicas,  \* server processes
  None,
  Followed,  \* users of whom one arbitrary session each is followed
  DBErrors   \* TRUE: a statement of the admin API may fail, or its answer be lost

ASSUME AccountsAssumption ==
  /\ Seed \in Users /\ Admin \in Roles /\ Followed \subseteq Users
  /\ None \notin Users /\ None \notin [active : BOOLEAN, roles : SUBSET Roles]
  /\ None \notin [roles : SUBSET Roles, late : BOOLEAN, seen : SUBSET Handlers]
  /\ DBErrors \in BOOLEAN

Account == [active : BOOLEAN, roles : SUBSET Roles]

PCs == {"idle", "create", "guard", "count", "bulk_count", "bulk_targets",
        "delete", "delete_wait", "insert", "update", "revoke", "revoking"}

\* current: the target whose sessions are being revoked.  overtaken is history:
\* another request committed inside this one's transaction.
Request == [pc : PCs, op : {"create", "roles", "status", "bulk", None},
            targets : SUBSET Users, roles : SUBSET Roles, active : BOOLEAN,
            deletes : SUBSET Roles, current : Users \cup {None},
            overtaken : BOOLEAN]

\* A live session: the roles it was issued with, whether a change of them was
\* committed between the login's or refresh's look at the account and its
\* INSERT, and the revocations whose snapshot has its present row.
Session == [roles : SUBSET Roles, late : BOOLEAN, seen : SUBSET Handlers]

VARIABLES
  user,      \* the rows: None, or status and roles
  sess,      \* per user, one arbitrary session through its rotations, or None
  issue,     \* per user, the roles that the login which opens this session, or a
             \* refresh that rotates it, has read, or None
  req,
  boot,      \* per replica, where SeedAdmin is
  unrevoked  \* history: users whose revocation failed after their change

vars == <<user, sess, issue, req, boot, unrevoked>>

Idle == [pc |-> "idle", op |-> None, targets |-> {}, roles |-> {},
         active |-> FALSE, deletes |-> {}, current |-> None, overtaken |-> FALSE]

Init ==
  /\ user = [u \in Users |-> None]
  /\ sess = [u \in Users |-> None]
  /\ issue = [u \in Users |-> None]
  /\ req = [p \in Handlers |-> Idle]
  /\ boot = [r \in Replicas |-> "down"]
  /\ unrevoked = {}

At(p, pc) == req[p].pc = pc
Goto(p, pc) == req' = [req EXCEPT ![p].pc = pc]
Finish(p) == req' = [req EXCEPT ![p] = Idle]

IsActiveAdmin(u) == user[u] # None /\ user[u].active /\ Admin \in user[u].roles
ActiveAdmins == {u \in Users : IsActiveAdmin(u)}

Target(p) == CHOOSE u \in Users : req[p].targets = {u}

\* A request whose transaction has read, or locked, and not committed.
InTransaction(p) ==
  req[p].pc \in {"count", "bulk_targets", "update", "delete", "delete_wait",
                 "insert"}

\* What remains of request q once its transaction is committed.
Revoking(q) == [Idle EXCEPT !.pc = "revoke", !.op = q.op, !.targets = q.targets]

\* The transactions that a commit overtakes.
Overtaken(q) == [req[q] EXCEPT !.overtaken = @ \/ InTransaction(q)]

\* Request p commits and becomes next.
Commit(p, next) ==
  req' = [q \in Handlers |-> IF q = p THEN next ELSE Overtaken(q)]

\* Request p commits a change and becomes next, or the answer is lost and
\* nobody revokes the sessions.
CommitChange(p, next) ==
  \/ Commit(p, next) /\ UNCHANGED unrevoked
  \/ /\ DBErrors
     /\ Commit(p, Idle)
     /\ unrevoked' = unrevoked \cup next.targets

Insert(u, roles) == user' = [user EXCEPT ![u] = [active |-> TRUE, roles |-> roles]]

-----------------------------------------------------------------------------
(* Requests.  RequirePermission and the step-up let only administrators in. *)

\* Nobody changes the own account; a bulk change leaves the caller out.
Others(caller, S) == S \ {caller}

Served == \E r \in Replicas : boot[r] = "up"

\* A caller who is an administrator now may grant every role.
BeginCreate(p) ==
  /\ At(p, "idle") /\ Served /\ ActiveAdmins # {}
  /\ \E u \in Users, R \in SUBSET Roles :
       req' = [req EXCEPT ![p] = [Idle EXCEPT !.pc = "create", !.op = "create",
                                              !.targets = {u}, !.roles = R]]
  /\ UNCHANGED <<user, sess, issue, boot, unrevoked>>

\* UpdateRoles, SetStatus: the own account is refused.
BeginUpdateRoles(p) ==
  /\ At(p, "idle") /\ Served
  /\ \E caller \in ActiveAdmins, R \in SUBSET Roles :
     \E u \in Others(caller, Users) :
       req' = [req EXCEPT ![p] =
                 [Idle EXCEPT !.pc = IF Admin \in R THEN "delete" ELSE "guard",
                              !.op = "roles", !.targets = {u}, !.roles = R]]
  /\ UNCHANGED <<user, sess, issue, boot, unrevoked>>

BeginSetStatus(p) ==
  /\ At(p, "idle") /\ Served
  /\ \E caller \in ActiveAdmins, a \in BOOLEAN :
     \E u \in Others(caller, Users) :
       req' = [req EXCEPT ![p] =
                 [Idle EXCEPT !.pc = IF a THEN "update" ELSE "guard",
                              !.op = "status", !.targets = {u}, !.active = a]]
  /\ UNCHANGED <<user, sess, issue, boot, unrevoked>>

\* An empty rest is answered at once.
BeginBulkSetStatus(p) ==
  /\ At(p, "idle") /\ Served
  /\ \E caller \in ActiveAdmins, a \in BOOLEAN, S \in SUBSET Users :
     LET filtered == Others(caller, S) IN
       /\ filtered # {}
       /\ req' = [req EXCEPT ![p] =
                   [Idle EXCEPT !.pc = IF a THEN "update" ELSE "bulk_count",
                                !.op = "bulk", !.targets = filtered,
                                !.active = a]]
  /\ UNCHANGED <<user, sess, issue, boot, unrevoked>>

-----------------------------------------------------------------------------
(* The transactions of user.Repository.                                    *)

\* CreateWithRoles: the row and its roles in one transaction; an address in
\* use is refused.  UpdateProfile, which may follow, sets only the names.
CreateWithRoles(p) ==
  LET u == Target(p) IN
  /\ At(p, "create")
  /\ IF user[u] = None THEN Insert(u, req[p].roles) /\ Commit(p, Idle)
                       ELSE Finish(p) /\ UNCHANGED user
  /\ UNCHANGED <<sess, issue, boot, unrevoked>>

\* Where the request goes once the guard has nothing against it.
Granted(p) == IF req[p].op = "roles" THEN "delete" ELSE "update"

\* guardLastAdmin, first statement: only an active admin is protected.
GuardTarget(p) ==
  /\ At(p, "guard")
  /\ Goto(p, IF IsActiveAdmin(Target(p)) THEN "count" ELSE Granted(p))
  /\ UNCHANGED <<user, sess, issue, boot, unrevoked>>

\* guardLastAdmin, second statement: some other active admin has to remain.
GuardCountSkipped(p) ==  \* mutant: the count is not looked at
  /\ At(p, "count")
  /\ Goto(p, Granted(p))
  /\ UNCHANGED <<user, sess, issue, boot, unrevoked>>
GuardCount(p) ==
  /\ At(p, "count")
  /\ IF ActiveAdmins \ req[p].targets = {} THEN Finish(p)
                                           ELSE Goto(p, Granted(p))
  /\ UNCHANGED <<user, sess, issue, boot, unrevoked>>

\* BulkSetActive counts the admins outside the targets, and only when there
\* are none the ones inside.
BulkCount(p) ==
  /\ At(p, "bulk_count")
  /\ Goto(p, IF ActiveAdmins \ req[p].targets = {} THEN "bulk_targets"
                                                   ELSE "update")
  /\ UNCHANGED <<user, sess, issue, boot, unrevoked>>

BulkTargets(p) ==
  /\ At(p, "bulk_targets")
  /\ IF ActiveAdmins \cap req[p].targets # {} THEN Finish(p)
                                              ELSE Goto(p, "update")
  /\ UNCHANGED <<user, sess, issue, boot, unrevoked>>

\* SetActive and BulkSetActive: UPDATE and commit.  SetActive answers 404 when
\* there is no such user.  Only a deactivation revokes sessions.
UpdateActive(p) ==
  LET q == req[p]
      rows == {u \in q.targets : user[u] # None}
      next == IF q.active \/ (q.op = "status" /\ rows = {})
                THEN Idle ELSE Revoking(q)
  IN
  /\ At(p, "update")
  /\ user' = [u \in Users |-> IF u \in rows THEN [user[u] EXCEPT !.active = q.active]
                                            ELSE user[u]]
  /\ CommitChange(p, next)
  /\ UNCHANGED <<sess, issue, boot>>

RolesOf(u) == IF user[u] = None THEN {} ELSE user[u].roles

\* The rows of user_roles another transaction has deleted and not committed.
LockedRoles(p, u) ==
  UNION {req[q].deletes : q \in {h \in Handlers \ {p} :
                                   At(h, "insert") /\ req[h].targets = {u}}}

\* SetRoles, DELETE: it sees the roles committed when it begins, and waits
\* for a transaction that is deleting one of them.
SetRolesDelete(p) ==
  LET u == Target(p)
      seen == RolesOf(u)
  IN
  /\ At(p, "delete")
  /\ req' = [req EXCEPT ![p].deletes = seen,
                        ![p].pc = IF seen \cap LockedRoles(p, u) = {}
                                    THEN "insert" ELSE "delete_wait"]
  /\ UNCHANGED <<user, sess, issue, boot, unrevoked>>

\* After the wait it skips the rows that are gone and does not see new ones.
SetRolesDeleteResumes(p) ==
  LET u == Target(p) IN
  /\ At(p, "delete_wait")
  /\ req[p].deletes \cap LockedRoles(p, u) = {}
  /\ req' = [req EXCEPT ![p].deletes = @ \cap RolesOf(u), ![p].pc = "insert"]
  /\ UNCHANGED <<user, sess, issue, boot, unrevoked>>

\* SetRoles, INSERTs and commit.  A role another request has inserted since
\* violates the primary key, a missing user the foreign key; both roll back.
\* An insert waits for a transaction that is deleting the same row.
SetRolesInsertKeeps(p) ==  \* mutant: the roles are added, none is removed
  LET u == Target(p) IN
  /\ At(p, "insert")
  /\ IF user[u] # None
       THEN /\ user' = [user EXCEPT ![u].roles = @ \cup req[p].roles]
            /\ Commit(p, Revoking(req[p]))
       ELSE Finish(p) /\ UNCHANGED user
  /\ UNCHANGED <<sess, issue, boot, unrevoked>>
SetRolesInsert(p) ==
  LET q == req[p]
      u == Target(p)
      kept == RolesOf(u) \ q.deletes
  IN
  /\ At(p, "insert")
  /\ q.roles \cap LockedRoles(p, u) = {}
  /\ IF kept \cap q.roles # {} \/ (user[u] = None /\ q.roles # {})
       THEN Finish(p) /\ UNCHANGED <<user, unrevoked>>
       ELSE /\ user' = IF user[u] = None THEN user
                       ELSE [user EXCEPT ![u].roles = kept \cup q.roles]
            /\ CommitChange(p, Revoking(q))
  /\ UNCHANGED <<sess, issue, boot>>

\* The session's row is locked by a refresh that rotates it.
SessionRowFree(u) == sess[u] = None \/ issue[u] = None

\* Session s once the UPDATE of p has taken its snapshot, and once it has ended.
SeenBy(s, p) == IF s = None THEN None ELSE [s EXCEPT !.seen = @ \cup {p}]
Ended(s, p) == IF s = None THEN None ELSE IF p \in s.seen THEN None ELSE s

\* The handler then revokes the sessions, user by user.  RevokeAllForUser: the
\* UPDATE begins with its snapshot ...
RevokeSessionsNot(p) ==  \* mutant: the change alone
  /\ At(p, "revoke")
  /\ Finish(p)
  /\ UNCHANGED <<user, sess, issue, boot, unrevoked>>
RevokeSessions(p) ==
  /\ At(p, "revoke")
  /\ \E u \in req[p].targets :
       /\ sess' = [sess EXCEPT ![u] = SeenBy(@, p)]
       /\ req' = [req EXCEPT ![p].pc = "revoking", ![p].current = u]
  /\ UNCHANGED <<user, issue, boot, unrevoked>>

\* ... and waits for the row.  A row that has replaced the one it saw is left.
RevokeEnds(p) ==
  LET u == req[p].current
      rest == req[p].targets \ {u}
  IN
  /\ At(p, "revoking") /\ SessionRowFree(u)
  /\ sess' = [sess EXCEPT ![u] = Ended(@, p)]
  /\ req' = [req EXCEPT ![p] = IF rest = {} THEN Idle
                               ELSE [Revoking(@) EXCEPT !.targets = rest]]
  /\ UNCHANGED <<user, issue, boot, unrevoked>>

\* The users whose sessions request p has still to revoke.
ToRevoke(p) == IF At(p, "revoke") \/ At(p, "revoking") THEN req[p].targets ELSE {}

\* A failed statement rolls back; a failed revocation leaves the rest undone.
StatementFails(p) ==
  /\ DBErrors
  /\ ~At(p, "idle")
  /\ Finish(p)
  /\ unrevoked' = unrevoked \cup ToRevoke(p)
  /\ UNCHANGED <<user, sess, issue, boot>>

-----------------------------------------------------------------------------
(* Users and servers.                                                      *)

\* Register: an account without roles.
Register(u) ==
  /\ Served /\ user[u] = None
  /\ Insert(u, {})
  /\ UNCHANGED <<sess, issue, req, boot, unrevoked>>

\* FindByID of a login, or of a refresh, which has locked the session's row and
\* holds it to its commit.  An inactive user is refused.
ReadAccount(u) ==
  /\ Served /\ u \in Followed /\ issue[u] = None
  /\ user[u] # None /\ user[u].active
  /\ issue' = [issue EXCEPT ![u] = user[u].roles]
  /\ UNCHANGED <<user, sess, req, boot, unrevoked>>

\* completeLogin, or the commit of RotateSession: a new row, which no snapshot
\* has, with the roles read then; the account is not looked at again.
IssueSession(u) ==
  /\ issue[u] # None
  /\ sess' = [sess EXCEPT ![u] =
               [roles |-> issue[u], seen |-> {},
                late |-> ~(user[u].active /\ issue[u] \subseteq user[u].roles)]]
  /\ issue' = [issue EXCEPT ![u] = None]
  /\ UNCHANGED <<user, req, boot, unrevoked>>

\* A failed factor, an error or the end of the server.
IssueFails(u) ==
  /\ issue[u] # None
  /\ issue' = [issue EXCEPT ![u] = None]
  /\ UNCHANGED <<user, sess, req, boot, unrevoked>>

\* SeedAdmin: look the address up, create the account when there is none,
\* then assign the role.  Losing the race to create counts as success.
Boot(r, from, to) == boot[r] = from /\ boot' = [boot EXCEPT ![r] = to]

SeedFind(r) ==
  /\ Boot(r, "down", IF user[Seed] = None THEN "create" ELSE "assign")
  /\ UNCHANGED <<user, sess, issue, req, unrevoked>>

SeedCreate(r) ==
  /\ IF user[Seed] = None
       THEN Boot(r, "create", "assign") /\ Insert(Seed, {})
       ELSE Boot(r, "create", "up") /\ UNCHANGED user
  /\ UNCHANGED <<sess, issue, req, unrevoked>>

AssignRoleByName(r) ==
  /\ Boot(r, "assign", "up")
  /\ \A p \in Handlers : Admin \notin LockedRoles(p, Seed)
  /\ user' = [user EXCEPT ![Seed].roles = @ \cup {Admin}]
  /\ req' = [q \in Handlers |-> Overtaken(q)]
  /\ UNCHANGED <<sess, issue, unrevoked>>

\* A server stops at any moment, or an error ends its start.  The requests D
\* it was serving end with it, their transactions rolled back.
Stop(r) ==
  /\ boot[r] # "down"
  /\ boot' = [boot EXCEPT ![r] = "down"]
  /\ \E D \in SUBSET Handlers :
       /\ boot[r] = "up" \/ D = {}
       /\ D = Handlers \/ \E s \in Replicas \ {r} : boot[s] = "up"
                      \/ boot[r] # "up"
       /\ req' = [q \in Handlers |-> IF q \in D THEN Idle ELSE req[q]]
       /\ unrevoked' = unrevoked \cup UNION {ToRevoke(q) : q \in D}
  /\ UNCHANGED <<user, sess, issue>>

Handle(p) ==
  \/ BeginCreate(p) \/ BeginUpdateRoles(p) \/ BeginSetStatus(p)
  \/ BeginBulkSetStatus(p) \/ CreateWithRoles(p)
  \/ GuardTarget(p) \/ GuardCount(p) \/ BulkCount(p) \/ BulkTargets(p)
  \/ UpdateActive(p) \/ SetRolesDelete(p) \/ SetRolesDeleteResumes(p)
  \/ SetRolesInsert(p) \/ RevokeSessions(p) \/ RevokeEnds(p) \/ StatementFails(p)

Next ==
  \/ \E p \in Handlers : Handle(p)
  \/ \E u \in Users : Register(u) \/ ReadAccount(u) \/ IssueSession(u) \/ IssueFails(u)
  \/ \E r \in Replicas : SeedFind(r) \/ SeedCreate(r) \/ AssignRoleByName(r)
                         \/ Stop(r)

Spec == Init /\ [][Next]_vars

-----------------------------------------------------------------------------
(* Properties.                                                             *)

\* Every variable has its type.
TypeOK ==
  /\ user \in [Users -> Account \cup {None}]
  /\ sess \in [Users -> Session \cup {None}]
  /\ issue \in [Users -> (SUBSET Roles) \cup {None}]
  /\ req \in [Handlers -> Request]
  /\ boot \in [Replicas -> {"down", "create", "assign", "up"}]
  /\ unrevoked \subseteq Users

\* guardLastAdmin: the last active administrator is only lost by a request
\* whose transaction another request's commit has overtaken, however many
\* demotions and deactivations follow one another and whoever's caller lost
\* the role after it was authenticated.
LastAdmin ==
  [][ActiveAdmins # {} /\ ActiveAdmins' = {} =>
       \E p \in Handlers : req[p].overtaken /\ req'[p] # req[p]]_vars

\* SetRoles "replaces all roles for a user": the committed roles are those
\* requested, unless another request was committed inside the transaction
\* (then the roles of both may remain).
RolesAreReplaced ==
  [][\A p \in Handlers :
       At(p, "insert") /\ req'[p].pc = "revoke" =>
         \/ req[p].overtaken
         \/ RolesOf(Target(p))' = req[p].roles
         \/ user[Target(p)] = None]_vars

\* The session carries nothing its user has lost.
Current(u) == user[u].active /\ sess[u].roles \subseteq user[u].roles

\* Request p is going to end the session: it has not taken its snapshot yet, or
\* has this very row in it.
WillEnd(p, u) ==
  \/ At(p, "revoke") /\ u \in req[p].targets
  \/ At(p, "revoking") /\ u \in req[p].targets \ {req[p].current}
  \/ At(p, "revoking") /\ u = req[p].current /\ p \in sess[u].seen

\* UpdateRoles, SetStatus and BulkSetStatus: a live session that carries a role
\* its user has lost, or belongs to a deactivated user, is about to be ended by
\* some request; except after a revocation that failed or was never begun, and
\* except for a session whose login or refresh read the account before the
\* change and inserted the row after it.
StaleSessionIsBeingRevoked ==
  \A u \in Users :
    sess[u] # None /\ ~sess[u].late /\ u \notin unrevoked =>
      Current(u) \/ \E p \in Handlers : WillEnd(p, u)
=================================================================================
