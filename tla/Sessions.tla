------------------------------- MODULE Sessions -------------------------------
(***************************************************************************)
(* The browser sessions of the authentication service: the PostgreSQL      *)
(* table "sessions" (backend/internal/session/repository.go), the request  *)
(* handlers that write it (auth.Service.completeLogin, RefreshTokens and   *)
(* Logout, the session and admin handlers) and the cleanup worker of       *)
(* cmd/server/main.go.                                                     *)
(*                                                                         *)
(* Every handler is a goroutine; two of them interleave between any two    *)
(* SQL statements.  PostgreSQL runs at READ COMMITTED, so a multi-row      *)
(* UPDATE or DELETE is two steps here:                                     *)
(*   Begin...  takes the statement's snapshot: the committed rows that     *)
(*             satisfy the WHERE clause, and now() (the transaction's      *)
(*             start time);                                                *)
(*   Apply...  waits for row locks on those rows, evaluates the WHERE      *)
(*             clause again on their latest versions and writes.  A row    *)
(*             committed after the snapshot is never seen.                 *)
(* RotateSession is one transaction: BEGIN (Refresh), SELECT ... FOR       *)
(* UPDATE (RotateSelect), the generate callback (Generate), then UPDATE,   *)
(* INSERT and COMMIT (RotateCommit), whose writes become visible at once.  *)
(***************************************************************************)
EXTENDS Integers, FiniteSets

CONSTANTS
  Users,         \* accounts
  Devices,       \* values of (ip_address, user_agent, device_info)
  Tokens,        \* refresh-token hashes; each is issued at most once
  Handlers,      \* request goroutines
  Worker,        \* the session cleanup goroutine
  None,          \* SQL NULL / no value
  MaxSessions,   \* setting max_sessions_per_user
  Absolute,      \* setting session_absolute_timeout_seconds
  IdleLimit,     \* [Users -> Nat]: idle timeout of the user's role
  ActiveWindow,  \* activeSessionWindowSQL (5 minutes)
  ReuseGrace,    \* tokenReuseGraceSQL (5 seconds)
  StaleAfter,    \* staleInitialCutoffSQL (90 seconds)
  StaleUntil,    \* the 10 minutes of RevokeStaleInitialSessions
  DBErrors,      \* TRUE: any statement may fail (error, cancelled context)
  MaxTime        \* bound on the clock

Procs == Handlers \cup {Worker}

ASSUME TimeAssumption ==
  /\ {MaxSessions, Absolute, ActiveWindow, ReuseGrace, StaleAfter,
        StaleUntil, MaxTime} \subseteq Nat
  /\ MaxSessions >= 1
  /\ IdleLimit \in [Users -> Nat]
ASSUME ProcsAssumption == Worker \notin Handlers /\ DBErrors \in BOOLEAN

\* revoked_reason, as far as the code tells reasons apart: 'rotation', or one
\* of the deliberate revocations ('logout', 'device_replaced', 'evicted',
\* 'mass_revoke', 'revoke_others', 'revoke_by_id', 'stale_initial').
Reasons == {"rotation", "deliberate"}

Row == [user : Users, device : Devices, created : Nat,
        lastUsed : Nat \cup {None}, expires : Nat,
        revoked : BOOLEAN, reason : Reasons \cup {None}]

ASSUME NoneAssumption ==
  None \notin Users \cup Devices \cup Tokens \cup Nat \cup Reasons \cup Row

PCs == {"idle", "device_replaced", "evict", "evicted", "create",
        "rotate", "generate", "commit", "reuse", "mass", "mass_revoke",
        "revoke_others", "stale_initial", "purge"}

Request == [pc : PCs, user : Users \cup {None}, token : Tokens \cup {None},
            device : Devices \cup {None}, at : Nat, snap : SUBSET Tokens]

VARIABLES
  clock,     \* now()
  row,       \* the committed table: token hash -> row, None when absent
  req,       \* what each goroutine is doing
  active,    \* users.is_active
  root,      \* history: the login token the chain of rotations started from
  parent,    \* history: the token this one replaced (None for a login)
  deadline,  \* history: expires_at given to a login token
  ended      \* history: chains (their roots) ended by revocation or deletion

db == <<row, root, parent, deadline, ended>>
vars == <<clock, row, req, active, root, parent, deadline, ended>>

Done == [pc |-> "idle", user |-> None, token |-> None, device |-> None,
         at |-> 0, snap |-> {}]

Init ==
  /\ clock = 0
  /\ row = [t \in Tokens |-> None]
  /\ req = [p \in Procs |-> Done]
  /\ active = [u \in Users |-> TRUE]
  /\ root = [t \in Tokens |-> None]
  /\ parent = [t \in Tokens |-> None]
  /\ deadline = [t \in Tokens |-> None]
  /\ ended = {}

-----------------------------------------------------------------------------
(* Rows, locks and statements.                                             *)

Live(t) == row[t] # None /\ ~row[t].revoked

\* COALESCE(last_used_at, created_at)
LastActive(r) == IF r.lastUsed = None THEN r.created ELSE r.lastUsed

\* The row lock taken by SELECT ... FOR UPDATE and held to the end of the
\* rotation's transaction.
LockedBy(p, t) == req[p].pc \in {"generate", "commit"} /\ req[p].token = t
Unlocked(S) == \A p \in Procs, t \in S : ~LockedBy(p, t)

Fresh == {t \in Tokens : root[t] = None}

\* Bound: a request that may need a new token starts only while one is left.
Budget ==
  Cardinality(Fresh) >
    Cardinality({p \in Procs : req[p].pc \in
      {"device_replaced", "evict", "evicted", "create",
       "rotate", "generate", "commit"}})

At(p, pc) == req[p].pc = pc
Goto(p, pc) == req' = [req EXCEPT ![p].pc = pc, ![p].snap = {}]
Finish(p) == req' = [req EXCEPT ![p] = Done]

\* Starts a statement: its arguments, its now() (0 when it uses none) and the
\* rows of its snapshot.
Begin(p, kind, u, t, d, now, victims) ==
  req' = [req EXCEPT ![p] = [pc |-> kind, user |-> u, token |-> t,
                             device |-> d, at |-> now, snap |-> victims]]

RevokedMisspelt(r, why, at) ==  \* mutant: a reason nobody knows
  [r EXCEPT !.revoked = TRUE, !.reason = "rotated", !.lastUsed = at]
Revoked(r, why, at) ==
  [r EXCEPT !.revoked = TRUE, !.reason = why, !.lastUsed = at]

\* The chains of a set of tokens are over.
EndChains(S) == ended' = ended \cup {root[t] : t \in S}

RevokeRowsAsRotation(S, at) ==  \* mutant: the reason of RotateSession reused
  /\ Unlocked(S)
  /\ row' = [t \in Tokens |->
               IF t \in S THEN Revoked(row[t], "rotation", at) ELSE row[t]]
  /\ EndChains(S)
  /\ UNCHANGED <<clock, active, root, parent, deadline>>

\* UPDATE sessions SET is_revoked = true, last_used_at = now(), reason
RevokeRows(S, at) ==
  /\ Unlocked(S)
  /\ row' = [t \in Tokens |->
               IF t \in S THEN Revoked(row[t], "deliberate", at)
                           ELSE row[t]]
  /\ EndChains(S)
  /\ UNCHANGED <<clock, active, root, parent, deadline>>

\* The same without last_used_at (EvictExcessSessions, RevokeAllForUser).
RevokeRowsUntouched(S) ==
  /\ Unlocked(S)
  /\ row' = [t \in Tokens |->
               IF t \in S
                 THEN Revoked(row[t], "deliberate", row[t].lastUsed)
                 ELSE row[t]]
  /\ EndChains(S)
  /\ UNCHANGED <<clock, active, root, parent, deadline>>

-----------------------------------------------------------------------------
(* Login: completeLogin runs three statements, none in a transaction.      *)

DeviceWhere(t, u, d, now) ==
  /\ Live(t)
  /\ row[t].user = u
  /\ row[t].expires > now
  /\ row[t].device = d

\* The credentials are checked (the account was active when it was read);
\* completeLogin starts with RevokeForDevice.
BeginLogin(p, u, d) ==
  /\ At(p, "idle") /\ active[u] /\ Budget
  /\ Begin(p, "device_replaced", u, None, d, clock,
           {t \in Tokens : DeviceWhere(t, u, d, clock)})
  /\ UNCHANGED <<clock, active, db>>

RevokeForDevice(p) ==
  LET q == req[p] IN
  /\ At(p, "device_replaced")
  /\ RevokeRows({t \in q.snap : DeviceWhere(t, q.user, q.device, q.at)},
                q.at)
  /\ Goto(p, "evict")

LiveOf(u) == {t \in Tokens : Live(t) /\ row[t].user = u}

\* ORDER BY COALESCE(last_used_at, created_at) DESC LIMIT keep: any choice
\* among rows of equal time.
MostRecent(S, K, keep) ==
  /\ K \subseteq S
  /\ Cardinality(K) = IF Cardinality(S) < keep THEN Cardinality(S) ELSE keep
  /\ \A t \in K, s \in S \ K : LastActive(row[t]) >= LastActive(row[s])

\* completeLogin keeps one place free for the session it is about to create.
Keep == MaxSessions - 1

\* EvictExcessSessions(Keep): the snapshot fixes the victims.
BeginEvict(p) ==
  LET q == req[p]
      S == LiveOf(q.user)
  IN
  /\ At(p, "evict")
  /\ \E K \in SUBSET S :
       /\ MostRecent(S, K, Keep)
       /\ Begin(p, "evicted", q.user, None, q.device, 0, S \ K)
  /\ UNCHANGED <<clock, active, db>>

EvictExcessSessions(p) ==
  /\ At(p, "evicted")
  /\ RevokeRowsUntouched({t \in req[p].snap : Live(t)})
  /\ Goto(p, "create")

NewRow(u, d, at, used, exp) ==
  [user |-> u, device |-> d, created |-> at, lastUsed |-> used,
   expires |-> exp, revoked |-> FALSE, reason |-> None]

\* INSERT of the login's own session; last_used_at stays NULL.
Create(p) ==
  LET q == req[p] IN
  /\ At(p, "create")
  /\ \E t \in Fresh :
       /\ row' = [row EXCEPT ![t] =
                    NewRow(q.user, q.device, clock, None, clock + Absolute)]
       /\ root' = [root EXCEPT ![t] = t]
       /\ deadline' = [deadline EXCEPT ![t] = clock + Absolute]
  /\ Finish(p)
  /\ UNCHANGED <<clock, active, parent, ended>>

-----------------------------------------------------------------------------
(* Refresh: RefreshTokens, RotateSession and the reuse check.              *)

\* A client presents a token it was issued: BEGIN fixes now().
Refresh(p, t) ==
  /\ At(p, "idle") /\ root[t] # None
  /\ Live(t) => Budget
  /\ Begin(p, "rotate", None, t, None, clock, {})
  /\ UNCHANGED <<clock, active, db>>

RotateWhere(t, now) == Live(t) /\ row[t].expires > now

\* SELECT ... FOR UPDATE: waits for a lock on the row, then reads its latest
\* version; no row is ErrNotFound.
RotateSelectNoWait(p) ==  \* mutant: two rotations may hold the row (FOR SHARE)
  LET q == req[p] IN
  /\ At(p, "rotate")
  /\ Goto(p, IF RotateWhere(q.token, q.at) THEN "generate" ELSE "reuse")
  /\ UNCHANGED <<clock, active, db>>
RotateSelect(p) ==
  LET q == req[p] IN
  /\ At(p, "rotate")
  /\ Unlocked({q.token})
  /\ Goto(p, IF RotateWhere(q.token, q.at) THEN "generate" ELSE "reuse")
  /\ UNCHANGED <<clock, active, db>>

\* The generate callback: the account must be active, the session within its
\* idle limit and its absolute expiry.
MayRotate(t) ==
  /\ active[row[t].user]
  /\ IdleLimit[row[t].user] > 0 =>
       clock - LastActive(row[t]) <= IdleLimit[row[t].user]
  /\ row[t].expires > clock

GenerateStuck(p) ==  \* mutant: the error path forgets to roll back
  /\ At(p, "generate")
  /\ MayRotate(req[p].token)
  /\ Goto(p, "commit")
  /\ UNCHANGED <<clock, active, db>>
Generate(p) ==
  /\ At(p, "generate")
  /\ Goto(p, IF MayRotate(req[p].token) THEN "commit" ELSE "reuse")
  /\ UNCHANGED <<clock, active, db>>

\* UPDATE of the old row, with the reason CheckReuse looks for.
SupersededKept(r, at) == [r EXCEPT !.lastUsed = at]  \* mutant: not revoked
Superseded(r, at) == Revoked(r, "rotation", at)

\* INSERT of the new one: same owner and same absolute expiry.
ReplacementSliding(r, d, at) ==  \* mutant: every refresh extends the session
  NewRow(r.user, d, at, at, clock + Absolute)
Replacement(r, d, at) == NewRow(r.user, d, at, at, r.expires)

\* UPDATE old, INSERT new, COMMIT.  The replacement keeps the chain's
\* expires_at and takes the device of the refresh request.  When the COMMIT's
\* answer is lost the handler takes its error path.
RotateCommit(p) ==
  LET q == req[p]
      old == row[q.token]
  IN
  /\ At(p, "commit")
  /\ \E t \in Fresh, d \in Devices :
       /\ row' = [row EXCEPT
                    ![q.token] = Superseded(old, q.at),
                    ![t] = Replacement(old, d, q.at)]
       /\ root' = [root EXCEPT ![t] = root[q.token]]
       /\ parent' = [parent EXCEPT ![t] = q.token]
  /\ \/ Finish(p)
     \/ DBErrors /\ Goto(p, "reuse")
  /\ UNCHANGED <<clock, active, deadline, ended>>

\* CheckReuse: only a row superseded by rotation longer than the grace ago.
IsReuse(t) ==
  /\ row[t] # None
  /\ row[t].revoked
  /\ row[t].reason = "rotation"
  /\ LastActive(row[t]) <= clock - ReuseGrace

CheckReuse(p) ==
  LET t == req[p].token IN
  /\ At(p, "reuse")
  /\ IF IsReuse(t)
       THEN Begin(p, "mass", row[t].user, None, None, 0, {})
       ELSE Finish(p)
  /\ UNCHANGED <<clock, active, db>>

-----------------------------------------------------------------------------
(* Revocations.                                                            *)

\* RevokeAllForUser, asked for by a password change, a role change or an
\* admin's revoke-all ...
BeginRevokeAll(p, u) ==
  /\ At(p, "idle")
  /\ Begin(p, "mass_revoke", u, None, None, 0, LiveOf(u))
  /\ UNCHANGED <<clock, active, db>>

\* ... or by a detected reuse or a deactivation.
ContinueRevokeAll(p) ==
  LET u == req[p].user IN
  /\ At(p, "mass")
  /\ Begin(p, "mass_revoke", u, None, None, 0, LiveOf(u))
  /\ UNCHANGED <<clock, active, db>>

RevokeAllNoRecheck(p) ==  \* mutant: rows of the snapshot, as they were
  /\ At(p, "mass_revoke")
  /\ RevokeRowsUntouched({t \in req[p].snap : row[t] # None})
  /\ Finish(p)
RevokeAllForUser(p) ==
  /\ At(p, "mass_revoke")
  /\ RevokeRowsUntouched({t \in req[p].snap : Live(t)})
  /\ Finish(p)

\* admin.SetStatus: users.is_active is committed first, the sessions of a
\* deactivated user are revoked afterwards.
SetStatus(p, u) ==
  /\ At(p, "idle")
  /\ active' = [active EXCEPT ![u] = ~active[u]]
  /\ IF active[u]
       THEN Begin(p, "mass", u, None, None, 0, {})
       ELSE UNCHANGED req
  /\ UNCHANGED <<clock, db>>

OthersWhere(t, u, current, now) ==
  /\ Live(t)
  /\ row[t].user = u
  /\ row[t].expires > now
  /\ t # current

\* "Sign out all other devices", sent with the caller's current token (which
\* the access token that authorises the call may have outlived).
BeginRevokeOthers(p, t) ==
  /\ At(p, "idle") /\ row[t] # None
  /\ Begin(p, "revoke_others", row[t].user, t, None, clock,
           {s \in Tokens : OthersWhere(s, row[t].user, t, clock)})
  /\ UNCHANGED <<clock, active, db>>

RevokeOtherSessions(p) ==
  LET q == req[p] IN
  /\ At(p, "revoke_others")
  /\ RevokeRows({t \in q.snap : OthersWhere(t, q.user, q.token, q.at)},
                q.at)
  /\ Finish(p)

\* Single-row statements: a client ends its own session, ...
Logout(p, t) ==
  /\ At(p, "idle") /\ Live(t)
  /\ RevokeRows({t}, clock)
  /\ UNCHANGED req

\* ... a user or an admin one of the list.  An expired session is listed no
\* longer, but its id still works.
RevokeByID(p, t) ==
  /\ At(p, "idle") /\ Live(t)
  /\ RevokeRows({t}, clock)
  /\ UNCHANGED req

-----------------------------------------------------------------------------
(* The cleanup worker: one statement at a time.                            *)

StaleWhere(t, now) ==
  /\ Live(t)
  /\ row[t].expires > now
  /\ row[t].lastUsed = None
  /\ row[t].created < now - StaleAfter
  /\ row[t].created > now - StaleUntil

BeginRevokeStale ==
  /\ At(Worker, "idle")
  /\ Begin(Worker, "stale_initial", None, None, None, clock,
           {t \in Tokens : StaleWhere(t, clock)})
  /\ UNCHANGED <<clock, active, db>>

RevokeStaleInitialSessions ==
  LET q == req[Worker] IN
  /\ At(Worker, "stale_initial")
  /\ RevokeRows({t \in q.snap : StaleWhere(t, q.at)}, q.at)
  /\ Finish(Worker)

PurgeWhere(t, now) ==
  /\ row[t] # None
  /\ \/ row[t].expires < now
     \/ row[t].revoked
     \/ LastActive(row[t]) <= now - ActiveWindow

BeginDeleteExpired ==
  /\ At(Worker, "idle")
  /\ Begin(Worker, "purge", None, None, None, clock,
           {t \in Tokens : PurgeWhere(t, clock)})
  /\ UNCHANGED <<clock, active, db>>

DeleteExpired ==
  LET q == req[Worker]
      S == {t \in q.snap : PurgeWhere(t, q.at)}
  IN
  /\ At(Worker, "purge")
  /\ Unlocked(S)
  /\ row' = [t \in Tokens |-> IF t \in S THEN None ELSE row[t]]
  /\ EndChains({t \in S : Live(t)})
  /\ Finish(Worker)
  /\ UNCHANGED <<clock, active, root, parent, deadline>>

-----------------------------------------------------------------------------
(* Failures and time.                                                      *)

\* A statement fails, or its context is cancelled, without an effect on the
\* table.  completeLogin only logs the first two errors; RefreshTokens looks
\* for reuse after any error; the others give up.
StatementFails(p) ==
  /\ DBErrors
  /\ \/ At(p, "device_replaced") /\ Goto(p, "evict")
     \/ At(p, "evicted") /\ Goto(p, "create")
     \/ req[p].pc \in {"rotate", "generate", "commit"} /\ Goto(p, "reuse")
     \/ /\ req[p].pc \in {"create", "reuse", "mass_revoke", "revoke_others",
                          "stale_initial", "purge"}
        /\ Finish(p)
  /\ UNCHANGED <<clock, active, db>>

Tick ==
  /\ clock < MaxTime
  /\ clock' = clock + 1
  /\ UNCHANGED <<row, req, active, root, parent, deadline, ended>>

\* The next statement of a request or cleanup run that has begun.
Step(p) ==
  \/ RevokeForDevice(p) \/ BeginEvict(p) \/ EvictExcessSessions(p) \/ Create(p)
  \/ RotateSelect(p) \/ Generate(p) \/ RotateCommit(p) \/ CheckReuse(p)
  \/ ContinueRevokeAll(p) \/ RevokeAllForUser(p) \/ RevokeOtherSessions(p)

\* The requests of the auth, session and admin endpoints.
AuthRequest(p) ==
  \/ \E u \in Users, d \in Devices : BeginLogin(p, u, d)
  \/ \E t \in Tokens : Refresh(p, t) \/ Logout(p, t)

SessionRequest(p) ==
  \E t \in Tokens : BeginRevokeOthers(p, t) \/ RevokeByID(p, t)

AdminRequest(p) ==
  \E u \in Users : SetStatus(p, u) \/ BeginRevokeAll(p, u)

Start(p) == AuthRequest(p) \/ SessionRequest(p) \/ AdminRequest(p)

Cleanup ==
  \/ BeginRevokeStale \/ RevokeStaleInitialSessions
  \/ BeginDeleteExpired \/ DeleteExpired

Next ==
  \/ \E p \in Handlers : Start(p) \/ Step(p)
  \/ \E p \in Procs : StatementFails(p)
  \/ Cleanup
  \/ Tick

Spec == Init /\ [][Next]_vars

\* A request that has begun goes on: goroutines are scheduled, the database
\* answers, and PostgreSQL queues the waiters of a row lock.
FairSpec ==
  /\ Spec
  /\ \A p \in Handlers : SF_vars(Step(p))
  /\ WF_vars(RevokeStaleInitialSessions \/ DeleteExpired)

-----------------------------------------------------------------------------
(* Properties.                                                             *)

\* Rows, requests and history keep the types of the columns and locals.
TypeOK ==
  /\ clock \in Nat
  /\ row \in [Tokens -> Row \cup {None}]
  /\ req \in [Procs -> Request]
  /\ active \in [Users -> BOOLEAN]
  /\ root \in [Tokens -> Tokens \cup {None}]
  /\ parent \in [Tokens -> Tokens \cup {None}]
  /\ deadline \in [Tokens -> Nat \cup {None}]
  /\ ended \subseteq Tokens

\* Two refresh requests racing with the same token cannot both succeed
\* (RotateSession, "preventing the replay race"): no token has two
\* successors.
SingleSuccessor ==
  \A s, t \in Tokens : parent[s] # None /\ parent[s] = parent[t] => s = t

\* A login, however often it is refreshed and by whom, is one session: at
\* most one token of the chain is usable at any time.
OneLivePerChain ==
  \A s, t \in Tokens : Live(s) /\ Live(t) /\ root[s] = root[t] => s = t

\* A session that was logged out, replaced, evicted, revoked or deleted never
\* comes back through a rotation that was already under way.
EndedStaysEnded == \A t \in Tokens : Live(t) => root[t] \notin ended

\* RefreshTokens "keeps the original absolute expiry fixed for the session
\* chain": refreshing never extends a session past the deadline of its login.
ChainDeadline ==
  \A t \in Tokens : row[t] # None => row[t].expires = deadline[root[t]]

\* What CheckReuse takes as evidence of theft is evidence: a row with reason
\* 'rotation' really was exchanged for a successor.
RotationMeansSuperseded ==
  \A t \in Tokens :
    row[t] # None /\ row[t].reason = "rotation" =>
      \E s \in Tokens : parent[s] = t

\* A revoked row is never rewritten, only deleted: neither its reason (what
\* CheckReuse decides on) nor its time (what the grace counts from) changes
\* under a second revocation that raced with the first.
RevokedRowIsFrozen ==
  [][\A t \in Tokens :
       row[t] # None /\ row[t].revoked => row'[t] \in {row[t], None}]_vars

\* RevokeAllForUser "revokes every active session belonging to the given
\* user": a session that was active when the call began is not active, under
\* this token or a successor, when it returns.
RevokeAllIsComplete ==
  [][\A p \in Handlers :
       RevokeAllForUser(p) =>
         \A t \in Tokens : row'[t] # None /\ ~row'[t].revoked =>
           root[t] \notin {root[s] : s \in req[p].snap}]_vars

\* No request waits for ever on a row lock: every handler that began finishes.
RequestsFinish == \A p \in Handlers : ~At(p, "idle") ~> At(p, "idle")
=============================================================================
