------------------------------- MODULE Passwords -------------------------------
(***************************************************************************)
(* The password of one account: the reset links of package passwdreset     *)
(* (table password_reset_tokens and the Redis cooldown), the change of     *)
(* password in cmd/server/main.go, and the logins and session rotations    *)
(* that race with them.  Accounts share nothing here, so one is followed.  *)
(*                                                                         *)
(* A statement of PostgreSQL is one step; row and advisory locks are held  *)
(* from the statement that takes them to the commit, which is one step     *)
(* with the transaction's last write.  The UPDATE that revokes the         *)
(* sessions is two: it takes its snapshot, and then waits for the row and  *)
(* ends the session if that snapshot has its row.                          *)
(***************************************************************************)
EXTENDS Naturals, FiniteSets, Requests

CONSTANTS
  Tokens,     \* reset tokens; each is generated at most once
  Passwords,
  Outages,    \* TRUE: Redis or a statement may fail, or its answer be lost
  MaxChanges  \* bound on the changes of the password

ASSUME PasswordsAssumption ==
  /\ Passwords # {} /\ MaxChanges \in Nat /\ Outages \in BOOLEAN
  /\ None \notin Tokens \cup Passwords

Changes == 0..MaxChanges

PCs == {"idle", "lock", "cancel", "insert", "select", "compare", "commit",
        "ending", "update", "revoke", "revoking", "session", "rotate"}

\* read: how many changes the password had seen when the request compared it.
Request == [pc : PCs, token : Tokens \cup {None}, new : Passwords \cup {None},
            read : Changes, rows : SUBSET Tokens]

\* A live session: the change of password its login compared, whether a later
\* change was committed before the row was inserted, whether a revocation that
\* has finished missed it (history), and the revocations whose snapshot has its
\* present row.
Session == [read : Changes, late : BOOLEAN, missed : BOOLEAN,
            seen : SUBSET Handlers]

VARIABLES
  password, changes,  \* the password, and how often it has been set
  token,     \* rows: "none", "unused" or "used" (used_at IS NOT NULL)
  expired,   \* the tokens past expires_at
  cooldown,  \* pwdreset:cooldown:<email> is set
  sess,      \* one arbitrary live session, through its rotations
  cancelled, spent,  \* history: tokens cancelled by a newer one, and used
  unrevoked  \* history: the revocation after a change failed, or was not tried
             \* because the answer to the change was lost

vars == <<password, changes, token, expired, cooldown, sess, req, cancelled,
          spent, unrevoked>>
hist == <<cancelled, spent, unrevoked>>

Done == [pc |-> "idle", token |-> None, new |-> None, read |-> 0, rows |-> {}]

Init ==
  /\ password \in Passwords /\ changes = 0
  /\ token = [t \in Tokens |-> "none"]
  /\ expired = {}
  /\ cooldown = FALSE
  /\ sess = None
  /\ req = [p \in Handlers |-> Done]
  /\ cancelled = {} /\ spent = [t \in Tokens |-> 0]
  /\ unrevoked = FALSE

Finish(p) == req' = [req EXCEPT ![p] = Done]

Usable(t) == token[t] = "unused" /\ t \notin expired

SetPassword(new) == password' = new /\ changes' = changes + 1

\* Bounds: a request begins when a fresh token, or a change, is left for it.
TokenLeft ==
  Cardinality({p \in Handlers : req[p].pc \in {"lock", "cancel", "insert"}})
    < Cardinality({t \in Tokens : token[t] = "none"})
ChangeLeft ==
  changes + Cardinality({p \in Handlers : req[p].new # None}) < MaxChanges

\* The row of the session, locked by a rotation; the row of the user, locked by
\* a reset that has written the password.
SessionRowFree == \A q \in Handlers : ~At(q, "rotate")
UserRowFree(p) == \A q \in Handlers \ {p} : ~At(q, "ending")

\* The UPDATE of sessions takes its snapshot ...
SeenBy(snapshots) ==
  IF sess = None THEN None ELSE [sess EXCEPT !.seen = snapshots]
Snapshot(p) == sess' = SeenBy(sess.seen \cup {p})

\* ... and ends the session if its row is the one in the snapshot.  A session
\* that is older than the n-th change is missed otherwise.
AfterRevocation(p, n) ==
  IF sess = None \/ p \in sess.seen THEN None
  ELSE IF sess.read = n THEN sess
  ELSE [sess EXCEPT !.missed = TRUE]

-----------------------------------------------------------------------------
(* ForgotPassword: SendReset in a goroutine of its own.                    *)

\* The cooldown is one SETNX; without Redis the link is sent all the same.
SendReset(p) ==
  /\ At(p, "idle") /\ TokenLeft
  /\ \/ ~cooldown /\ cooldown' = TRUE
     \/ Outages /\ UNCHANGED cooldown
  /\ Goto(p, "lock")
  /\ UNCHANGED <<password, changes, token, expired, sess, hist>>

CooldownExpires ==
  /\ cooldown
  /\ cooldown' = FALSE
  /\ UNCHANGED <<password, changes, token, expired, sess, req, hist>>

\* Create, pg_advisory_xact_lock: one request at a time until the commit.
NoAdvisoryLock(p) == TRUE  \* mutant: no advisory lock
AdvisoryLockKept(p) ==  \* mutant: a session lock, kept after the commit
  /\ \A q \in Handlers \ {p} : ~At(q, "cancel") /\ ~At(q, "insert")
  /\ \A t \in Tokens : token[t] = "none"
AdvisoryLockFree(p) ==
  \A q \in Handlers \ {p} : ~At(q, "cancel") /\ ~At(q, "insert")
CreateLock(p) ==
  /\ At(p, "lock")
  /\ AdvisoryLockFree(p)
  /\ Goto(p, "cancel")
  /\ UNCHANGED <<password, changes, token, expired, cooldown, sess, hist>>

\* The token row is locked by a reset under way, or by a cancellation.
LockedByReset(t) ==
  \E q \in Handlers : /\ req[q].token = t
                      /\ req[q].pc \in {"compare", "commit", "ending"}
LockedByCreate(t) == \E q \in Handlers : At(q, "insert") /\ t \in req[q].rows

\* Create, UPDATE: marks the unused tokens used.  It waits for a reset that
\* holds one of them and then looks at the row again.
CreateCancel(p) ==
  LET rows == {t \in Tokens : Usable(t)} IN
  /\ At(p, "cancel")
  /\ \A t \in rows : ~LockedByReset(t)
  /\ req' = [req EXCEPT ![p].pc = "insert", ![p].rows = rows]
  /\ UNCHANGED <<password, changes, token, expired, cooldown, sess, hist>>

\* Create, INSERT and commit; the link is mailed afterwards.
CreateInsert(p) ==
  LET rows == req[p].rows IN
  /\ At(p, "insert")
  /\ \E t \in Tokens :
       /\ token[t] = "none"
       /\ token' = [k \in Tokens |-> IF k = t THEN "unused"
                                     ELSE IF k \in rows THEN "used" ELSE token[k]]
  /\ cancelled' = cancelled \cup rows
  /\ Finish(p)
  /\ UNCHANGED <<password, changes, expired, cooldown, sess, spent, unrevoked>>

TokenExpires(t) ==
  /\ Usable(t)
  /\ expired' = expired \cup {t}
  /\ UNCHANGED <<password, changes, token, cooldown, sess, req, hist>>

-----------------------------------------------------------------------------
(* ResetPassword: ConsumeAndReset, one transaction.                        *)

BeginReset(p) ==
  /\ At(p, "idle") /\ ChangeLeft
  /\ \E t \in Tokens, new \in Passwords :
       /\ token[t] # "none"
       /\ req' = [req EXCEPT ![p].pc = "select", ![p].token = t, ![p].new = new]
  /\ UNCHANGED <<password, changes, token, expired, cooldown, sess, hist>>

\* SELECT ... FOR UPDATE: waits for whoever holds the row, then reads it.
SelectTokenNoLock(p) ==  \* mutant: SELECT without FOR UPDATE
  LET t == req[p].token IN
  /\ At(p, "select")
  /\ IF Usable(t) THEN Goto(p, "compare") ELSE Finish(p)
  /\ UNCHANGED <<password, changes, token, expired, cooldown, sess, hist>>
SelectToken(p) ==
  LET t == req[p].token IN
  /\ At(p, "select")
  /\ ~LockedByReset(t) /\ ~LockedByCreate(t)
  /\ IF Usable(t) THEN Goto(p, "compare") ELSE Finish(p)
  /\ UNCHANGED <<password, changes, token, expired, cooldown, sess, hist>>

\* The current password may not be set again; then the token stays unused.
ComparePassword(p) ==
  /\ At(p, "compare")
  /\ IF req[p].new = password THEN Finish(p) ELSE Goto(p, "commit")
  /\ UNCHANGED <<password, changes, token, expired, cooldown, sess, hist>>

\* The UPDATEs of the token and of the user, which waits for another reset; the
\* UPDATE of the sessions begins.
ResetWrites(p) ==
  /\ At(p, "commit") /\ UserRowFree(p)
  /\ Snapshot(p)
  /\ Goto(p, "ending")
  /\ UNCHANGED <<password, changes, token, expired, cooldown, hist>>

\* It waits for the row of the session; then token, password and sessions are
\* committed together.
ResetCommitKeepsSessions(p) ==  \* mutant: the sessions are left alone
  LET t == req[p].token IN
  /\ At(p, "ending") /\ SessionRowFree
  /\ SetPassword(req[p].new)
  /\ token' = [token EXCEPT ![t] = "used"]
  /\ spent' = [spent EXCEPT ![t] = @ + 1]
  /\ Finish(p)
  /\ UNCHANGED <<expired, cooldown, sess, cancelled, unrevoked>>
ResetCommit(p) ==
  LET t == req[p].token IN
  /\ At(p, "ending") /\ SessionRowFree
  /\ SetPassword(req[p].new)
  /\ token' = [token EXCEPT ![t] = "used"]
  /\ spent' = [spent EXCEPT ![t] = @ + 1]
  /\ sess' = AfterRevocation(p, changes + 1)
  /\ Finish(p)
  /\ UNCHANGED <<expired, cooldown, cancelled, unrevoked>>

-----------------------------------------------------------------------------
(* PATCH /me/password, and logins: the row is read and compared first.     *)

\* CheckPassword against the row of the moment; a wrong one is refused.
BeginChange(p) ==
  /\ At(p, "idle") /\ ChangeLeft
  /\ \E new \in Passwords :
       req' = [req EXCEPT ![p].pc = "update", ![p].new = new]
  /\ UNCHANGED <<password, changes, token, expired, cooldown, sess, hist>>

\* UpdatePassword: an UPDATE of the row whatever it now holds.  If its answer is
\* lost the handler returns and revokes nothing.
UpdatePassword(p) ==
  /\ At(p, "update") /\ UserRowFree(p)
  /\ SetPassword(req[p].new)
  /\ \/ /\ req' = [req EXCEPT ![p] = [Done EXCEPT !.pc = "revoke"]]
        /\ UNCHANGED unrevoked
     \/ Outages /\ Finish(p) /\ unrevoked' = TRUE
  /\ UNCHANGED <<token, expired, cooldown, sess, cancelled, spent>>

\* RevokeAllForUser: the UPDATE begins ...
RevokeAfterChange(p) ==
  /\ At(p, "revoke")
  /\ Snapshot(p)
  /\ Goto(p, "revoking")
  /\ UNCHANGED <<password, changes, token, expired, cooldown, hist>>

\* ... and ends.
RevokeEnds(p) ==
  /\ At(p, "revoking") /\ SessionRowFree
  /\ sess' = AfterRevocation(p, changes)
  /\ Finish(p)
  /\ UNCHANGED <<password, changes, token, expired, cooldown, hist>>

\* Its error is ignored.
RevokeFails(p) ==
  /\ Outages
  /\ At(p, "revoke") \/ At(p, "revoking")
  /\ unrevoked' = TRUE
  /\ Finish(p)
  /\ UNCHANGED <<password, changes, token, expired, cooldown, sess, cancelled,
                 spent>>

BeginLogin(p) ==
  /\ At(p, "idle")
  /\ req' = [req EXCEPT ![p].pc = "session", ![p].read = changes]
  /\ UNCHANGED <<password, changes, token, expired, cooldown, sess, hist>>

\* The session is inserted after risk checks and second factor, without a
\* second look at the password.
CreateSession(p) ==
  /\ At(p, "session")
  /\ sess' = IF sess = None
               THEN [read |-> req[p].read, late |-> req[p].read # changes,
                     missed |-> FALSE, seen |-> {}]
               ELSE sess
  /\ Finish(p)
  /\ UNCHANGED <<password, changes, token, expired, cooldown, hist>>

LoginFails(p) ==
  /\ At(p, "session")
  /\ Finish(p)
  /\ UNCHANGED <<password, changes, token, expired, cooldown, sess, hist>>

\* RotateSession: SELECT ... FOR UPDATE of the session's row ...
BeginRotate(p) ==
  /\ At(p, "idle") /\ sess # None /\ SessionRowFree
  /\ Goto(p, "rotate")
  /\ UNCHANGED <<password, changes, token, expired, cooldown, sess, hist>>

\* ... and the commit, with a new row in its place that no snapshot has.
RotateCommit(p) ==
  /\ At(p, "rotate")
  /\ sess' = SeenBy({})
  /\ Finish(p)
  /\ UNCHANGED <<password, changes, token, expired, cooldown, hist>>

\* A statement fails: its transaction is rolled back, a token can be tried again.
StatementFails(p) ==
  /\ Outages
  /\ req[p].pc \in {"lock", "cancel", "insert", "select", "compare", "commit",
                    "ending", "update", "rotate"}
  /\ Finish(p)
  /\ UNCHANGED <<password, changes, token, expired, cooldown, sess, hist>>

\* The steps of a request that is under way.
Work(p) ==
  \/ CreateLock(p) \/ CreateCancel(p) \/ CreateInsert(p)
  \/ SelectToken(p) \/ ComparePassword(p) \/ ResetWrites(p) \/ ResetCommit(p)
  \/ UpdatePassword(p) \/ RevokeAfterChange(p) \/ RevokeEnds(p)
  \/ CreateSession(p) \/ LoginFails(p) \/ RotateCommit(p)

Next ==
  \/ \E p \in Handlers : SendReset(p) \/ BeginReset(p) \/ BeginChange(p)
                         \/ BeginLogin(p) \/ BeginRotate(p) \/ Work(p)
                         \/ RevokeFails(p) \/ StatementFails(p)
  \/ \E t \in Tokens : TokenExpires(t)
  \/ CooldownExpires

Spec == Init /\ [][Next]_vars

\* The statements that wait for a lock.
Waits(p) ==
  \/ CreateLock(p) \/ CreateCancel(p) \/ SelectToken(p)
  \/ ResetWrites(p) \/ ResetCommit(p) \/ UpdatePassword(p) \/ RevokeEnds(p)

\* A goroutine goes on running; PostgreSQL's lock queues are first come,
\* first served, so nobody is passed over for ever.  Nothing has to fail.
FairSpec == Spec /\ \A p \in Handlers : WF_vars(Work(p)) /\ SF_vars(Waits(p))

-----------------------------------------------------------------------------
(* Properties.                                                             *)

\* Every variable has its type.
TypeOK ==
  /\ password \in Passwords /\ changes \in Changes
  /\ token \in [Tokens -> {"none", "unused", "used"}]
  /\ expired \subseteq Tokens /\ cancelled \subseteq Tokens
  /\ cooldown \in BOOLEAN /\ unrevoked \in BOOLEAN
  /\ sess \in Session \cup {None}
  /\ req \in [Handlers -> Request]
  /\ spent \in [Tokens -> Nat]

\* Create: "ensuring only the most recently sent link is valid", whatever
\* requests and resets run at the same time.
OneUsableToken == Cardinality({t \in Tokens : Usable(t)}) <= 1

\* ConsumeAndReset and Create: a link sets the password at most once, and
\* never after a newer link has cancelled it, even for a reset that began
\* before the newer link was made.
TokenResetsOnce ==
  \A t \in Tokens : spent[t] <= 1 /\ (t \in cancelled => spent[t] = 0)

\* Reset and change of password: a live session that dates from an earlier
\* password was opened by a login that had compared it before the change, its
\* revocation is to come or under way, or it failed, or it ended without the
\* row: a rotation had replaced the row after the snapshot, or a login had
\* inserted it before the reset was committed.
OldPasswordSessionEnds ==
  sess # None /\ sess.read # changes =>
    \/ sess.late \/ sess.missed \/ unrevoked
    \/ \E p \in Handlers : At(p, "revoke") \/ At(p, "revoking")

\* ConsumeAndReset, Create and RevokeAllForUser: no request waits for ever on an
\* advisory or row lock.
RequestsFinish == \A p \in Handlers : ~At(p, "idle") ~> At(p, "idle")
=================================================================================
