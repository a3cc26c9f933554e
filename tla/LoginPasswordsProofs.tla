------------------------- MODULE LoginPasswordsProofs --------------------------
(***************************************************************************)
(* Proofs about Passwords for every set of tokens, passwords and handlers  *)
(* and every number of changes, and about Login for every set of pending   *)
(* logins, challenges and handlers and every setting of the lockout.       *)
(***************************************************************************)
EXTENDS Passwords, Login, FiniteSetTheorems, TLAPS

(***************************************************************************)
(* The strengthening says what each lock of PostgreSQL protects while it   *)
(* is held: between CreateCancel and CreateInsert the cancellation is not  *)
(* committed, and between SelectToken and ResetCommit the token is still   *)
(* unused, so neither property is visible in the tables alone.             *)
(***************************************************************************)

\* The types, with changes unbounded: the bound on them plays no part.
Locals == [pc : PCs, token : Tokens \cup {None}, new : Passwords \cup {None},
           read : Nat, rows : SUBSET Tokens]
Row == [read : Nat, late : BOOLEAN, missed : BOOLEAN, seen : SUBSET Handlers]
Types ==
  /\ changes \in Nat
  /\ sess \in Row \cup {None}
  /\ token \in [Tokens -> {"none", "unused", "used"}]
  /\ expired \subseteq Tokens /\ cancelled \subseteq Tokens
  /\ req \in [Handlers -> Locals]
  /\ spent \in [Tokens -> Nat]

HoldsAdvisory(p) == req[p].pc \in {"cancel", "insert"}
HoldsRow(p) == req[p].pc \in {"compare", "commit", "ending"}

\* One transaction of Create is under way at a time.
OneCreate ==
  \A p, q \in Handlers : HoldsAdvisory(p) /\ HoldsAdvisory(q) => p = q

\* A reset under way holds the row of its token, which stays unused.
RowLock ==
  \A p \in Handlers :
    /\ req[p].pc = "select" => req[p].token \in Tokens
    /\ HoldsRow(p) =>
         /\ req[p].token \in Tokens /\ token[req[p].token] = "unused"
         /\ \A q \in Handlers : HoldsRow(q) /\ req[q].token = req[p].token => q = p

\* The rows Create has marked: unused till the commit, every one that can still
\* be used, and none that a reset holds.
CancelLock ==
  \A p \in Handlers :
    req[p].pc = "insert" =>
      /\ \A t \in Tokens : Usable(t) => t \in req[p].rows
      /\ \A t \in req[p].rows :
           token[t] = "unused" /\ \A q \in Handlers : HoldsRow(q) => req[q].token # t

\* A link that can be used is the only one.
Unique == \A s, t \in Tokens : Usable(s) /\ Usable(t) => s = t

\* A token that reset the password, or was cancelled, is marked used.
Ended ==
  \A t \in Tokens :
    /\ spent[t] # 0 => token[t] = "used"
    /\ t \in cancelled => token[t] = "used"

Inv ==
  /\ Types
  /\ OneCreate
  /\ RowLock
  /\ CancelLock
  /\ Unique
  /\ Ended
  /\ TokenResetsOnce
  /\ OldPasswordSessionEnds

USE DEF At

-----------------------------------------------------------------------------
(* What a step does to the request that takes it.                          *)

\* Goto changes nothing but the next statement.
LEMMA GotoEffect ==
  ASSUME Types, NEW p \in Handlers, NEW pc \in PCs, Goto(p, pc)
  PROVE  /\ req' \in [Handlers -> Locals]
         /\ \A q \in Handlers \ {p} : req'[q] = req[q]
         /\ req'[p].pc = pc
         /\ req'[p].token = req[p].token /\ req'[p].rows = req[p].rows
BY DEF Types, Locals, Goto

\* A request given as a whole.
LEMMA BeginEffect ==
  ASSUME Types, NEW p \in Handlers, NEW r \in Locals,
         req' = [req EXCEPT ![p] = r]
  PROVE  /\ req' \in [Handlers -> Locals]
         /\ \A q \in Handlers \ {p} : req'[q] = req[q]
         /\ req'[p] = r
BY DEF Types

\* A goroutine without a request.
LEMMA DoneType == Done \in Locals /\ Done.pc = "idle"
BY DEF Done, Locals, PCs

\* A finished request is an idle one and holds no lock.
LEMMA FinishEffect ==
  ASSUME Types, NEW p \in Handlers, Finish(p)
  PROVE  /\ req' \in [Handlers -> Locals]
         /\ \A q \in Handlers \ {p} : req'[q] = req[q]
         /\ req'[p].pc = "idle"
BY DoneType, BeginEffect DEF Finish

-----------------------------------------------------------------------------
(* Steps that leave the token rows alone.                                  *)

\* One request goes on without taking a lock, tokens may expire; the session
\* is dealt with by the caller.
LEMMA QuietStep ==
  ASSUME Inv, NEW p \in Handlers,
         req' \in [Handlers -> Locals],
         \A q \in Handlers \ {p} : req'[q] = req[q],
         req'[p].pc \notin {"cancel", "insert", "compare", "commit", "ending"},
         req'[p].pc = "select" => req'[p].token \in Tokens,
         UNCHANGED <<token, cancelled, spent, expired>>, changes' \in Nat,
         sess' \in Row \cup {None}, OldPasswordSessionEnds'
  PROVE  Inv'
<1>1. Types'
  BY DEF Inv, Types
<1>2. \A q \in Handlers : /\ HoldsAdvisory(q)' => HoldsAdvisory(q) /\ q # p
                          /\ HoldsRow(q)' => HoldsRow(q) /\ q # p
                          /\ req'[q].pc = "insert" => q # p
  BY DEF HoldsAdvisory, HoldsRow
<1>3. \A t \in Tokens : Usable(t)' <=> Usable(t)
  BY DEF Usable
<1>4. OneCreate'
  BY <1>2 DEF Inv, OneCreate
<1>5. RowLock'
  BY <1>2 DEF Inv, RowLock
<1>6. CancelLock'
  BY <1>2, <1>3 DEF Inv, CancelLock
<1>7. Unique'
  BY <1>3 DEF Inv, Unique
<1>8. Ended' /\ TokenResetsOnce'
  BY DEF Inv, Ended, TokenResetsOnce
<1> QED BY <1>1, <1>4, <1>5, <1>6, <1>7, <1>8 DEF Inv

\* A revocation takes its snapshot, or a rotation replaces the row: the session
\* is the same one otherwise.
LEMMA SeenByEffect ==
  ASSUME Types, NEW S \in SUBSET Handlers, sess' = SeenBy(S)
  PROVE  /\ sess' \in Row \cup {None}
         /\ sess' # None => /\ sess # None /\ sess'.read = sess.read
                            /\ sess'.late = sess.late
                            /\ sess'.missed = sess.missed
BY DEF Types, Row, SeenBy

\* The sessions a snapshot is added to.
LEMMA SnapshotEffect ==
  ASSUME Types, NEW p \in Handlers, Snapshot(p)
  PROVE  /\ sess' \in Row \cup {None}
         /\ sess' # None => /\ sess # None /\ sess'.read = sess.read
                            /\ sess'.late = sess.late
                            /\ sess'.missed = sess.missed
<1>1. CASE sess = None
  BY <1>1 DEF Snapshot, SeenBy
<1>2. CASE sess # None
  <2>1. sess.seen \cup {p} \in SUBSET Handlers
    BY <1>2 DEF Types, Row
  <2> QED BY <2>1, SeenByEffect DEF Snapshot
<1> QED BY <1>1, <1>2

\* A revocation ends the session, or finds it not older than the n-th change, or
\* misses it.
LEMMA RevocationEffect ==
  ASSUME Types, NEW p \in Handlers, NEW n, sess' = AfterRevocation(p, n)
  PROVE  /\ sess' \in Row \cup {None}
         /\ sess' # None => sess'.read = n \/ sess'.missed
BY DEF Types, Row, AfterRevocation

\* The session keeps its excuse when the password and the session stay and
\* nobody's revocation ends.
LEMMA SessionStays ==
  ASSUME Inv, NEW p \in Handlers,
         \A q \in Handlers \ {p} : req'[q] = req[q],
         req[p].pc \notin {"revoke", "revoking"} \/ req'[p].pc = "revoking",
         UNCHANGED <<changes, unrevoked>>,
         \/ sess' = sess
         \/ sess' # None => /\ sess # None /\ sess'.read = sess.read
                            /\ sess'.late = sess.late
                            /\ sess'.missed = sess.missed
  PROVE  OldPasswordSessionEnds'
BY DEF Inv, OldPasswordSessionEnds

-----------------------------------------------------------------------------
(* Create.                                                                 *)

\* The advisory lock is free: no other transaction of Create is under way.
LEMMA CreateLockStep ==
  ASSUME Inv, NEW p \in Handlers, CreateLock(p)
  PROVE  Inv'
<1>1. Types /\ Goto(p, "cancel") /\ "cancel" \in PCs /\ req[p].pc = "lock"
  BY DEF Inv, CreateLock, PCs
<1>2. /\ req' \in [Handlers -> Locals]
      /\ \A q \in Handlers \ {p} : req'[q] = req[q]
      /\ req'[p].pc = "cancel"
  BY <1>1, GotoEffect
<1>3. UNCHANGED <<changes, token, expired, sess, cancelled, spent, unrevoked>>
  BY DEF CreateLock, hist
<1>4. \A q \in Handlers \ {p} : ~HoldsAdvisory(q)
  BY DEF CreateLock, AdvisoryLockFree, HoldsAdvisory
<1>5. OneCreate'
  BY <1>2, <1>4 DEF OneCreate, HoldsAdvisory
<1>6. RowLock'
  BY <1>2, <1>3 DEF Inv, RowLock, HoldsRow
<1>7. CancelLock'
  BY <1>2, <1>3 DEF Inv, CancelLock, HoldsRow, Usable
<1>8. Types' /\ Unique' /\ Ended' /\ TokenResetsOnce'
  BY <1>2, <1>3 DEF Inv, Types, Unique, Usable, Ended, TokenResetsOnce
<1> QED BY <1>1, <1>2, <1>3, <1>5, <1>6, <1>7, <1>8, SessionStays DEF Inv

\* The UPDATE takes the locks of the rows it marks, none of them a reset's.
LEMMA CreateCancelStep ==
  ASSUME Inv, NEW p \in Handlers, CreateCancel(p)
  PROVE  Inv'
<1> DEFINE U == {t \in Tokens : Usable(t)}
           r == [req[p] EXCEPT !.pc = "insert", !.rows = U]
<1>1. Types /\ req[p].pc = "cancel" /\ req[p] \in Locals
  BY DEF Inv, CreateCancel, Types
<1>2. req' = [req EXCEPT ![p] = r]
  BY <1>1 DEF CreateCancel, Types
<1>3. r \in Locals /\ r.pc = "insert" /\ r.rows = U
  BY <1>1 DEF Locals, PCs
<1> HIDE DEF r
<1>4. /\ req' \in [Handlers -> Locals]
      /\ \A q \in Handlers \ {p} : req'[q] = req[q]
      /\ req'[p].pc = "insert" /\ req'[p].rows = U
  BY <1>1, <1>2, <1>3, BeginEffect
<1>5. UNCHANGED <<changes, token, expired, sess, cancelled, spent, unrevoked>>
  BY DEF CreateCancel, hist
<1>6. \A t \in U : \A q \in Handlers : HoldsRow(q) => req[q].token # t
  BY DEF CreateCancel, LockedByReset, HoldsRow
<1>7. \A q \in Handlers : HoldsRow(q)' <=> HoldsRow(q) /\ q # p
  BY <1>1, <1>4 DEF HoldsRow
<1>8. \A t \in Tokens : Usable(t)' <=> Usable(t)
  BY <1>5 DEF Usable
<1>9. OneCreate'
  BY <1>1, <1>4 DEF Inv, OneCreate, HoldsAdvisory
<1>10. RowLock'
  BY <1>4, <1>5, <1>7 DEF Inv, RowLock
<1>11. CancelLock'
  <2> SUFFICES ASSUME NEW q \in Handlers, req'[q].pc = "insert"
               PROVE  /\ \A t \in Tokens : Usable(t)' => t \in req'[q].rows
                      /\ \A t \in req'[q].rows :
                           /\ token'[t] = "unused"
                           /\ \A h \in Handlers : HoldsRow(h)' => req'[h].token # t
    BY DEF CancelLock
  <2>1. CASE q = p
    <3>1. \A t \in U : token'[t] = "unused"
      BY <1>5 DEF Usable
    <3> QED BY <1>4, <1>6, <1>7, <1>8, <2>1, <3>1
  <2>2. CASE q # p
    BY <1>4, <1>5, <1>7, <1>8, <2>2 DEF Inv, CancelLock
  <2> QED BY <2>1, <2>2
<1>12. Types' /\ Unique' /\ Ended' /\ TokenResetsOnce'
  BY <1>4, <1>5, <1>8 DEF Inv, Types, Unique, Ended, TokenResetsOnce
<1> QED BY <1>1, <1>4, <1>5, <1>9, <1>10, <1>11, <1>12, SessionStays DEF Inv

\* The commit: the new token is unused, whatever could be used before is not.
LEMMA CreateInsertStep ==
  ASSUME Inv, NEW p \in Handlers, CreateInsert(p)
  PROVE  Inv'
<1> DEFINE rows == req[p].rows
<1>1. Types /\ req[p].pc = "insert" /\ rows \subseteq Tokens
  BY DEF Inv, CreateInsert, Types, Locals
<1>2. PICK n \in Tokens :
        /\ token[n] = "none"
        /\ token' = [k \in Tokens |-> IF k = n THEN "unused"
                                      ELSE IF k \in rows THEN "used" ELSE token[k]]
  BY DEF CreateInsert
<1>3. /\ cancelled' = cancelled \cup rows
      /\ UNCHANGED <<changes, expired, sess, spent, unrevoked>>
  BY DEF CreateInsert
<1>4. /\ req' \in [Handlers -> Locals]
      /\ \A q \in Handlers \ {p} : req'[q] = req[q]
      /\ req'[p].pc = "idle"
  BY <1>1, FinishEffect DEF CreateInsert
<1>5. /\ \A t \in Tokens : Usable(t) => t \in rows
      /\ \A t \in rows : /\ token[t] = "unused"
                         /\ \A q \in Handlers : HoldsRow(q) => req[q].token # t
  BY <1>1 DEF Inv, CancelLock
<1>6. \A t \in Tokens : Usable(t)' => t = n
  BY <1>2, <1>3, <1>5 DEF Usable
<1>7. \A q \in Handlers : HoldsRow(q)' => HoldsRow(q) /\ q # p
  BY <1>4 DEF HoldsRow
<1>8. \A q \in Handlers : ~HoldsAdvisory(q)'
  BY <1>1, <1>4 DEF Inv, OneCreate, HoldsAdvisory
<1>9. OneCreate' /\ CancelLock'
  BY <1>8 DEF OneCreate, CancelLock, HoldsAdvisory
<1>10. RowLock'
  <2> SUFFICES ASSUME NEW q \in Handlers
               PROVE  /\ req'[q].pc = "select" => req'[q].token \in Tokens
                      /\ HoldsRow(q)' =>
                         /\ req'[q].token \in Tokens /\ token'[req'[q].token] = "unused"
                         /\ \A h \in Handlers : HoldsRow(h)' /\ req'[h].token = req'[q].token
                                                 => h = q
    BY DEF RowLock
  <2>1. req'[q].pc = "select" => req'[q].token \in Tokens
    BY <1>4 DEF Inv, RowLock
  <2>2. ASSUME HoldsRow(q)'
        PROVE  /\ req'[q].token \in Tokens /\ token'[req'[q].token] = "unused"
               /\ \A h \in Handlers : HoldsRow(h)' /\ req'[h].token = req'[q].token
                                       => h = q
    <3>1. HoldsRow(q) /\ q # p /\ req'[q] = req[q]
      BY <1>4, <1>7, <2>2
    <3>2. req[q].token \in Tokens /\ token[req[q].token] = "unused" /\ req[q].token \notin rows
      BY <1>5, <3>1 DEF Inv, RowLock
    <3>3. \A h \in Handlers : HoldsRow(h)' => HoldsRow(h) /\ req'[h] = req[h]
      BY <1>4, <1>7
    <3> QED BY <1>2, <3>1, <3>2, <3>3 DEF Inv, RowLock
  <2> QED BY <2>1, <2>2
<1>11. Types'
  BY <1>1, <1>2, <1>3, <1>4 DEF Types
<1>12. Unique'
  BY <1>6 DEF Unique
<1>13. Ended'
  BY <1>1, <1>2, <1>3, <1>5 DEF Inv, Ended
<1>14. TokenResetsOnce'
  BY <1>1, <1>3, <1>5 DEF Inv, Ended, TokenResetsOnce, Types
<1> QED BY <1>1, <1>3, <1>4, <1>9, <1>10, <1>11, <1>12, <1>13, <1>14, SessionStays DEF Inv

-----------------------------------------------------------------------------
(* ConsumeAndReset.                                                        *)

\* FOR UPDATE: the row is locked while it is known to be unused.
LEMMA SelectStep ==
  ASSUME Inv, NEW p \in Handlers, SelectToken(p)
  PROVE  Inv'
<1> DEFINE t == req[p].token
<1>1. Types /\ req[p].pc = "select" /\ t \in Tokens
  BY DEF Inv, SelectToken, RowLock
<1>2. UNCHANGED <<changes, token, expired, sess, cancelled, spent, unrevoked>>
  BY DEF SelectToken, hist
<1>3. CASE ~Usable(t)
  <2>1. /\ req' \in [Handlers -> Locals]
        /\ \A q \in Handlers \ {p} : req'[q] = req[q]
        /\ req'[p].pc = "idle"
    BY <1>1, <1>3, FinishEffect DEF SelectToken
  <2> QED BY <1>1, <1>2, <2>1, SessionStays, QuietStep DEF Types
<1>4. CASE Usable(t)
  <2>1. Goto(p, "compare") /\ "compare" \in PCs
    BY <1>4 DEF SelectToken, PCs
  <2>2. /\ req' \in [Handlers -> Locals]
        /\ \A q \in Handlers \ {p} : req'[q] = req[q]
        /\ req'[p].pc = "compare" /\ req'[p].token = t /\ req'[p].rows = req[p].rows
    BY <1>1, <2>1, GotoEffect
  <2>3. /\ \A q \in Handlers : HoldsRow(q) => req[q].token # t
        /\ \A q \in Handlers : req[q].pc = "insert" => t \notin req[q].rows
    BY DEF SelectToken, LockedByReset, LockedByCreate, HoldsRow
  <2>4. token[t] = "unused"
    BY <1>4 DEF Usable
  <2>5. \A q \in Handlers : q # p => (HoldsRow(q)' <=> HoldsRow(q))
    BY <2>2 DEF HoldsRow
  <2>6. RowLock'
    BY <1>1, <1>2, <2>2, <2>3, <2>4, <2>5 DEF Inv, RowLock
  <2>7. CancelLock'
    <3>1. \A q \in Handlers : req'[q].pc = "insert" => q # p /\ req'[q] = req[q]
      BY <2>2
    <3>2. \A k \in Tokens : Usable(k)' <=> Usable(k)
      BY <1>2 DEF Usable
    <3>3. ASSUME NEW q \in Handlers, req'[q].pc = "insert", NEW k \in req'[q].rows,
                 NEW h \in Handlers, HoldsRow(h)'
          PROVE  req'[h].token # k
      BY <2>2, <2>3, <2>5, <3>1, <3>3 DEF Inv, CancelLock
    <3> QED BY <1>2, <3>1, <3>2, <3>3 DEF Inv, CancelLock
  <2>8. OneCreate'
    BY <2>2 DEF Inv, OneCreate, HoldsAdvisory
  <2>9. Types' /\ Unique' /\ Ended' /\ TokenResetsOnce'
    BY <1>2, <2>2 DEF Inv, Types, Unique, Usable, Ended, TokenResetsOnce
  <2> QED BY <1>1, <1>2, <2>2, <2>6, <2>7, <2>8, <2>9, SessionStays DEF Inv
<1> QED BY <1>3, <1>4

\* The comparison with the current password keeps the lock, or lets go.
LEMMA CompareStep ==
  ASSUME Inv, NEW p \in Handlers, ComparePassword(p)
  PROVE  Inv'
<1>1. Types /\ req[p].pc = "compare"
  BY DEF Inv, ComparePassword
<1>2. UNCHANGED <<changes, token, expired, sess, cancelled, spent, unrevoked>>
  BY DEF ComparePassword, hist
<1>3. CASE Finish(p)
  <2>1. /\ req' \in [Handlers -> Locals]
        /\ \A q \in Handlers \ {p} : req'[q] = req[q]
        /\ req'[p].pc = "idle"
    BY <1>1, <1>3, FinishEffect
  <2> QED BY <1>1, <1>2, <2>1, SessionStays, QuietStep DEF Types
<1>4. CASE Goto(p, "commit")
  <2>1. "commit" \in PCs
    BY DEF PCs
  <2>2. /\ req' \in [Handlers -> Locals]
        /\ \A q \in Handlers \ {p} : req'[q] = req[q]
        /\ req'[p].pc = "commit" /\ req'[p].token = req[p].token
    BY <1>1, <1>4, <2>1, GotoEffect
  <2>3. \A q \in Handlers : /\ HoldsRow(q)' <=> HoldsRow(q)
                            /\ HoldsAdvisory(q)' <=> HoldsAdvisory(q)
                            /\ req'[q].token = req[q].token
                            /\ req'[q].pc \in {"insert", "select"} => req'[q] = req[q]
    BY <1>1, <2>2 DEF HoldsRow, HoldsAdvisory
  <2>4. RowLock' /\ OneCreate'
    BY <1>2, <2>3 DEF Inv, RowLock, OneCreate
  <2>5. CancelLock'
    BY <1>2, <2>3 DEF Inv, CancelLock, Usable
  <2>6. Types' /\ Unique' /\ Ended' /\ TokenResetsOnce'
    BY <1>2, <2>2 DEF Inv, Types, Unique, Usable, Ended, TokenResetsOnce
  <2> QED BY <1>1, <1>2, <2>2, <2>4, <2>5, <2>6, SessionStays DEF Inv
<1> QED BY <1>3, <1>4 DEF ComparePassword

\* The writes of a reset keep the lock; the snapshot of its UPDATE is taken.
LEMMA ResetWritesStep ==
  ASSUME Inv, NEW p \in Handlers, ResetWrites(p)
  PROVE  Inv'
<1>1. Types /\ req[p].pc = "commit" /\ Goto(p, "ending") /\ "ending" \in PCs
  BY DEF Inv, ResetWrites, PCs
<1>2. UNCHANGED <<changes, token, expired, cancelled, spent, unrevoked>>
  BY DEF ResetWrites, hist
<1>3. /\ sess' \in Row \cup {None}
      /\ sess' # None => /\ sess # None /\ sess'.read = sess.read
                         /\ sess'.late = sess.late
                         /\ sess'.missed = sess.missed
  BY <1>1, SnapshotEffect DEF ResetWrites
<1>4. /\ req' \in [Handlers -> Locals]
      /\ \A q \in Handlers \ {p} : req'[q] = req[q]
      /\ req'[p].pc = "ending" /\ req'[p].token = req[p].token
  BY <1>1, GotoEffect
<1>5. \A q \in Handlers : /\ HoldsRow(q)' <=> HoldsRow(q)
                          /\ HoldsAdvisory(q)' <=> HoldsAdvisory(q)
                          /\ req'[q].token = req[q].token
                          /\ req'[q].pc \in {"insert", "select"} => req'[q] = req[q]
  BY <1>1, <1>4 DEF HoldsRow, HoldsAdvisory
<1>6. RowLock' /\ OneCreate'
  BY <1>2, <1>5 DEF Inv, RowLock, OneCreate
<1>7. CancelLock'
  BY <1>2, <1>5 DEF Inv, CancelLock, Usable
<1>8. Types' /\ Unique' /\ Ended' /\ TokenResetsOnce'
  BY <1>2, <1>3, <1>4 DEF Inv, Types, Unique, Usable, Ended, TokenResetsOnce
<1>9. OldPasswordSessionEnds'
  BY <1>1, <1>2, <1>3, <1>4, SessionStays
<1> QED BY <1>6, <1>7, <1>8, <1>9 DEF Inv

\* The commit of a reset: its token was unused, so this is its first.
LEMMA ResetCommitStep ==
  ASSUME Inv, NEW p \in Handlers, ResetCommit(p)
  PROVE  Inv'
<1> DEFINE t == req[p].token
<1>1. Types /\ HoldsRow(p) /\ t \in Tokens /\ token[t] = "unused"
  BY DEF Inv, ResetCommit, HoldsRow, RowLock
<1>2. /\ token' = [token EXCEPT ![t] = "used"]
      /\ spent' = [spent EXCEPT ![t] = @ + 1]
      /\ sess' = AfterRevocation(p, changes') /\ changes' = changes + 1
      /\ UNCHANGED <<expired, cancelled, unrevoked>>
  BY DEF ResetCommit, SetPassword
<1>3. /\ req' \in [Handlers -> Locals]
      /\ \A q \in Handlers \ {p} : req'[q] = req[q]
      /\ req'[p].pc = "idle"
  BY <1>1, FinishEffect DEF ResetCommit
<1>s. /\ sess' \in Row \cup {None}
      /\ sess' # None => sess'.read = changes' \/ sess'.missed
  BY <1>1, <1>2, RevocationEffect
<1>4. Types'
  BY <1>1, <1>2, <1>3, <1>s DEF Types
<1>5. \A q \in Handlers : /\ HoldsRow(q)' => HoldsRow(q) /\ q # p
                          /\ HoldsAdvisory(q)' => HoldsAdvisory(q) /\ q # p
  BY <1>3 DEF HoldsRow, HoldsAdvisory
<1>6. spent[t] = 0 /\ t \notin cancelled
  BY <1>1 DEF Inv, Ended
<1>7. /\ \A k \in Tokens : k # t => token'[k] = token[k] /\ spent'[k] = spent[k]
      /\ token'[t] = "used" /\ spent'[t] = 1
  BY <1>1, <1>2, <1>6 DEF Types
<1>8. \A k \in Tokens : Usable(k)' => Usable(k)
  BY <1>2, <1>7 DEF Usable
<1>9. OneCreate' /\ Unique'
  BY <1>5, <1>8 DEF Inv, OneCreate, Unique
<1>10. RowLock'
  <2>1. \A q \in Handlers : HoldsRow(q) /\ q # p => req[q].token # t
    BY <1>1 DEF Inv, RowLock
  <2> QED BY <1>3, <1>5, <1>7, <2>1 DEF Inv, RowLock
<1>11. CancelLock'
  <2>1. \A q \in Handlers : req'[q].pc = "insert" =>
          q # p /\ req'[q] = req[q] /\ t \notin req[q].rows /\ req[q].rows \subseteq Tokens
    BY <1>1, <1>3 DEF Inv, CancelLock, Types, Locals
  <2> QED BY <1>3, <1>5, <1>7, <1>8, <2>1 DEF Inv, CancelLock
<1>12. Ended' /\ TokenResetsOnce'
  BY <1>2, <1>6, <1>7 DEF Inv, Ended, TokenResetsOnce
<1>13. OldPasswordSessionEnds'
  BY <1>s DEF OldPasswordSessionEnds
<1> QED BY <1>4, <1>9, <1>10, <1>11, <1>12, <1>13 DEF Inv

-----------------------------------------------------------------------------
(* The other requests.                                                     *)

\* Steps that only move one request on, without a lock.
LEMMA MoveStep ==
  ASSUME Inv, NEW p \in Handlers,
         \/ SendReset(p) \/ BeginReset(p) \/ BeginChange(p) \/ BeginLogin(p)
         \/ BeginRotate(p) \/ StatementFails(p) \/ LoginFails(p)
  PROVE  Inv'
<1>1. /\ Types /\ req[p].pc \notin {"revoke", "revoking"} /\ req[p] \in Locals
      /\ sess \in Row \cup {None}
  BY DEF Inv, Types, SendReset, BeginReset, BeginChange, BeginLogin, BeginRotate,
         StatementFails, LoginFails
<1>2. UNCHANGED <<changes, token, expired, sess, cancelled, spent, unrevoked>>
  BY DEF SendReset, BeginReset, BeginChange, BeginLogin, BeginRotate,
         StatementFails, LoginFails, hist
<1>3. ASSUME NEW r \in Locals, req' = [req EXCEPT ![p] = r],
             r.pc \in {"idle", "lock", "select", "update", "session", "rotate"},
             r.pc = "select" => r.token \in Tokens
      PROVE  Inv'
  <2>1. /\ req' \in [Handlers -> Locals]
        /\ \A q \in Handlers \ {p} : req'[q] = req[q]
        /\ req'[p] = r
    BY <1>1, <1>3, BeginEffect
  <2> QED BY <1>1, <1>2, <1>3, <2>1, SessionStays, QuietStep DEF Types
<1>4. CASE SendReset(p)
  <2> DEFINE r == [req[p] EXCEPT !.pc = "lock"]
  <2>1. req' = [req EXCEPT ![p] = r]
    BY <1>1, <1>4 DEF SendReset, Goto, Types
  <2>2. r \in Locals /\ r.pc = "lock"
    BY <1>1 DEF Locals, PCs
  <2> HIDE DEF r
  <2> QED BY <1>3, <2>1, <2>2
<1>5. CASE BeginReset(p)
  <2>1. PICK t \in Tokens, new \in Passwords :
          req' = [req EXCEPT ![p].pc = "select", ![p].token = t, ![p].new = new]
    BY <1>5 DEF BeginReset
  <2> DEFINE r == [req[p] EXCEPT !.pc = "select", !.token = t, !.new = new]
  <2>2. req' = [req EXCEPT ![p] = r]
    BY <1>1, <2>1 DEF Types
  <2>3. r \in Locals /\ r.pc = "select" /\ r.token = t
    BY <1>1 DEF Locals, PCs
  <2> HIDE DEF r
  <2> QED BY <1>3, <2>2, <2>3
<1>6. CASE BeginChange(p)
  <2>1. PICK new \in Passwords :
          req' = [req EXCEPT ![p].pc = "update", ![p].new = new]
    BY <1>6 DEF BeginChange
  <2> DEFINE r == [req[p] EXCEPT !.pc = "update", !.new = new]
  <2>2. req' = [req EXCEPT ![p] = r]
    BY <1>1, <2>1 DEF Types
  <2>3. r \in Locals /\ r.pc = "update"
    BY <1>1 DEF Locals, PCs, Types
  <2> HIDE DEF r
  <2> QED BY <1>3, <2>2, <2>3
<1>7. CASE BeginLogin(p)
  <2> DEFINE r == [req[p] EXCEPT !.pc = "session", !.read = changes]
  <2>1. req' = [req EXCEPT ![p] = r]
    BY <1>1, <1>7 DEF BeginLogin, Types
  <2>2. r \in Locals /\ r.pc = "session"
    BY <1>1 DEF Locals, PCs, Types
  <2> HIDE DEF r
  <2> QED BY <1>3, <2>1, <2>2
<1>8. CASE BeginRotate(p)
  <2> DEFINE r == [req[p] EXCEPT !.pc = "rotate"]
  <2>1. req' = [req EXCEPT ![p] = r]
    BY <1>1, <1>8 DEF BeginRotate, Goto, Types
  <2>2. r \in Locals /\ r.pc = "rotate"
    BY <1>1 DEF Locals, PCs
  <2> HIDE DEF r
  <2> QED BY <1>3, <2>1, <2>2
<1>9. CASE StatementFails(p) \/ LoginFails(p)
  BY <1>3, <1>9, DoneType DEF StatementFails, LoginFails, Finish
<1> QED BY <1>4, <1>5, <1>6, <1>7, <1>8, <1>9

\* A change of password: a revocation is to come, or the answer was lost.
LEMMA UpdatePasswordStep ==
  ASSUME Inv, NEW p \in Handlers, UpdatePassword(p)
  PROVE  Inv'
<1>1. Types
  BY DEF Inv
<1>2. /\ UNCHANGED <<token, expired, sess, cancelled, spent>> /\ changes' \in Nat
      /\ sess' \in Row \cup {None}
  BY <1>1 DEF UpdatePassword, SetPassword, Types
<1>3. CASE req' = [req EXCEPT ![p] = [Done EXCEPT !.pc = "revoke"]]
  <2> DEFINE r == [Done EXCEPT !.pc = "revoke"]
  <2>1. r \in Locals /\ r.pc = "revoke" /\ req' = [req EXCEPT ![p] = r]
    BY <1>3 DEF Done, Locals, PCs
  <2> HIDE DEF r
  <2>2. /\ req' \in [Handlers -> Locals]
        /\ \A q \in Handlers \ {p} : req'[q] = req[q]
        /\ req'[p].pc = "revoke"
    BY <1>1, <2>1, BeginEffect
  <2>3. OldPasswordSessionEnds'
    BY <2>2 DEF OldPasswordSessionEnds
  <2> QED BY <1>2, <2>2, <2>3, QuietStep
<1>4. CASE Finish(p) /\ unrevoked' = TRUE
  <2>1. /\ req' \in [Handlers -> Locals]
        /\ \A q \in Handlers \ {p} : req'[q] = req[q]
        /\ req'[p].pc = "idle"
    BY <1>1, <1>4, FinishEffect
  <2>2. OldPasswordSessionEnds'
    BY <1>4 DEF OldPasswordSessionEnds
  <2> QED BY <1>2, <2>1, <2>2, QuietStep
<1> QED BY <1>3, <1>4 DEF UpdatePassword

\* The revocation after a change, and a login's or rotation's session.
LEMMA SessionStep ==
  ASSUME Inv, NEW p \in Handlers,
         \/ RevokeAfterChange(p) \/ RevokeEnds(p) \/ RevokeFails(p)
         \/ CreateSession(p) \/ RotateCommit(p)
  PROVE  Inv'
<1>1. Types /\ sess \in Row \cup {None} /\ changes \in Nat
  BY DEF Inv, Types
<1>2. UNCHANGED <<token, expired, cancelled, spent, changes>>
  BY DEF RevokeAfterChange, RevokeEnds, RevokeFails, CreateSession, RotateCommit,
         hist
<1>3. ASSUME Finish(p), sess' \in Row \cup {None}, OldPasswordSessionEnds'
      PROVE  Inv'
  <2>1. /\ req' \in [Handlers -> Locals]
        /\ \A q \in Handlers \ {p} : req'[q] = req[q]
        /\ req'[p].pc = "idle"
    BY <1>1, <1>3, FinishEffect
  <2> QED BY <1>1, <1>2, <1>3, <2>1, QuietStep
<1>4. CASE RevokeAfterChange(p)
  <2>1. Goto(p, "revoking") /\ "revoking" \in PCs /\ unrevoked' = unrevoked
    BY <1>4 DEF RevokeAfterChange, PCs, hist
  <2>2. /\ req' \in [Handlers -> Locals]
        /\ \A q \in Handlers \ {p} : req'[q] = req[q]
        /\ req'[p].pc = "revoking"
    BY <1>1, <2>1, GotoEffect
  <2>3. /\ sess' \in Row \cup {None}
        /\ sess' # None => /\ sess # None /\ sess'.read = sess.read
                           /\ sess'.late = sess.late
                           /\ sess'.missed = sess.missed
    BY <1>1, <1>4, SnapshotEffect DEF RevokeAfterChange
  <2>4. OldPasswordSessionEnds'
    BY <1>2, <2>1, <2>2, <2>3, SessionStays
  <2> QED BY <1>1, <1>2, <2>2, <2>3, <2>4, QuietStep
<1>5. CASE RevokeEnds(p)
  <2>1. /\ sess' \in Row \cup {None}
        /\ sess' # None => sess'.read = changes \/ sess'.missed
    BY <1>1, <1>5, RevocationEffect DEF RevokeEnds
  <2>2. OldPasswordSessionEnds'
    BY <1>2, <2>1 DEF OldPasswordSessionEnds
  <2> QED BY <1>3, <1>5, <2>1, <2>2 DEF RevokeEnds
<1>6. CASE RevokeFails(p)
  BY <1>1, <1>3, <1>6 DEF RevokeFails, OldPasswordSessionEnds
<1>7. CASE CreateSession(p)
  <2>1. Finish(p) /\ req[p].pc = "session" /\ unrevoked' = unrevoked
    BY <1>7 DEF CreateSession, hist
  <2>2. \A q \in Handlers \ {p} : req'[q] = req[q]
    BY <1>1, <2>1, FinishEffect
  <2>3. CASE sess = None
    <3>1. PICK b \in BOOLEAN : b = (req[p].read # changes)
      OBVIOUS
    <3>2. sess' = [read |-> req[p].read, late |-> b, missed |-> FALSE, seen |-> {}]
      BY <1>7, <2>3, <3>1 DEF CreateSession
    <3>3. req[p].read \in Nat
      BY <1>1 DEF Types, Locals
    <3>4. sess' \in Row /\ sess'.read = req[p].read /\ sess'.late = b
      BY <3>1, <3>2, <3>3 DEF Row
    <3>5. OldPasswordSessionEnds'
      BY <1>2, <3>1, <3>4 DEF OldPasswordSessionEnds
    <3> QED BY <1>3, <2>1, <3>4, <3>5
  <2>4. CASE sess # None
    <3>1. sess' = sess
      BY <1>7, <2>4 DEF CreateSession
    <3>2. OldPasswordSessionEnds'
      BY <1>2, <2>1, <2>2, <3>1, SessionStays
    <3> QED BY <1>1, <1>3, <2>1, <3>1, <3>2
  <2> QED BY <2>3, <2>4
<1>8. CASE RotateCommit(p)
  <2>1. Finish(p) /\ req[p].pc = "rotate" /\ unrevoked' = unrevoked
    BY <1>8 DEF RotateCommit, hist
  <2>2. \A q \in Handlers \ {p} : req'[q] = req[q]
    BY <1>1, <2>1, FinishEffect
  <2>3. /\ sess' \in Row \cup {None}
        /\ sess' # None => /\ sess # None /\ sess'.read = sess.read
                           /\ sess'.late = sess.late
                           /\ sess'.missed = sess.missed
    BY <1>1, <1>8, SeenByEffect DEF RotateCommit
  <2>4. OldPasswordSessionEnds'
    BY <1>2, <2>1, <2>2, <2>3, SessionStays
  <2> QED BY <1>3, <2>1, <2>3, <2>4
<1> QED BY <1>4, <1>5, <1>6, <1>7, <1>8

\* Time: a token or the cooldown expires.
LEMMA TimeStep ==
  ASSUME Inv, (\E t \in Tokens : TokenExpires(t)) \/ CooldownExpires \/ UNCHANGED vars
  PROVE  Inv'
<1>1. /\ UNCHANGED <<changes, token, sess, req, cancelled, spent, unrevoked>>
      /\ expired \subseteq expired' /\ expired' \subseteq Tokens
  <2>1. expired \subseteq Tokens
    BY DEF Inv, Types
  <2> QED BY <2>1 DEF TokenExpires, CooldownExpires, vars, hist
<1>2. \A t \in Tokens : Usable(t)' => Usable(t)
  BY <1>1 DEF Usable
<1>3. Types'
  BY <1>1 DEF Inv, Types
<1>4. OneCreate' /\ RowLock' /\ CancelLock'
  BY <1>1, <1>2 DEF Inv, OneCreate, RowLock, CancelLock, HoldsAdvisory, HoldsRow
<1>5. Unique' /\ Ended' /\ TokenResetsOnce' /\ OldPasswordSessionEnds'
  BY <1>1, <1>2 DEF Inv, Unique, Ended, TokenResetsOnce, OldPasswordSessionEnds
<1> QED BY <1>3, <1>4, <1>5 DEF Inv

-----------------------------------------------------------------------------
(* The theorems.                                                           *)

\* No token, no request, no session.
LEMMA InitInv == Init => Inv
<1> SUFFICES ASSUME Init PROVE Inv
  OBVIOUS
<1>1. \A p \in Handlers : req[p].pc = "idle"
  BY DoneType DEF Init
<1>2. Types
  BY DoneType DEF Init, Types
<1>3. OneCreate /\ RowLock /\ CancelLock
  BY <1>1 DEF OneCreate, RowLock, CancelLock, HoldsAdvisory, HoldsRow
<1> QED BY <1>2, <1>3 DEF Inv, Init, Unique, Usable, Ended, TokenResetsOnce,
             OldPasswordSessionEnds

\* Every statement keeps the invariant.
LEMMA NextInv ==
  ASSUME Inv, [Next]_vars
  PROVE  Inv'
<1>1. ASSUME NEW p \in Handlers, Work(p) PROVE Inv'
  BY <1>1, CreateLockStep, CreateCancelStep, CreateInsertStep, SelectStep,
     CompareStep, ResetWritesStep, ResetCommitStep, UpdatePasswordStep, MoveStep,
     SessionStep DEF Work
<1>2. ASSUME NEW p \in Handlers,
             \/ SendReset(p) \/ BeginReset(p) \/ BeginChange(p) \/ BeginLogin(p)
             \/ BeginRotate(p) \/ RevokeFails(p) \/ StatementFails(p)
      PROVE  Inv'
  BY <1>2, MoveStep, SessionStep
<1>3. CASE (\E t \in Tokens : TokenExpires(t)) \/ CooldownExpires \/ UNCHANGED vars
  BY <1>3, TimeStep
<1> QED BY <1>1, <1>2, <1>3 DEF Next

\* The locks of Create and ConsumeAndReset protect what the invariant says,
\* whichever requests run at the same time.
THEOREM Invariance == Spec => []Inv
<1>1. Init => Inv
  BY InitInv
<1>2. Inv /\ [Next]_vars => Inv'
  BY NextInv
<1> QED BY <1>1, <1>2, PTL DEF Spec

\* Create: only the most recently sent link is valid, for any number of
\* requests for one.
THEOREM OnlyTheLastLink == Spec => []OneUsableToken
<1>1. Inv => OneUsableToken
  <2> SUFFICES ASSUME Inv PROVE Cardinality({t \in Tokens : Usable(t)}) <= 1
    BY DEF OneUsableToken
  <2> DEFINE U == {t \in Tokens : Usable(t)}
  <2>1. CASE U = {}
    BY <2>1, FS_EmptySet
  <2>2. CASE U # {}
    <3>1. PICK t \in U : TRUE
      BY <2>2
    <3>2. U = {t}
      BY <3>1 DEF Inv, Unique
    <3>3. Cardinality({t}) = 1
      BY FS_Singleton
    <3> QED BY <3>2, <3>3
  <2> QED BY <2>1, <2>2
<1> QED BY <1>1, Invariance, PTL

\* ConsumeAndReset: a link sets the password at most once and, once a newer
\* link has cancelled it, never.
THEOREM LinksAreSingleUse == Spec => []TokenResetsOnce
<1>1. Inv => TokenResetsOnce
  BY DEF Inv
<1> QED BY <1>1, Invariance, PTL

\* A reset or change of password ends every session that dates from before it,
\* but for logins that had compared the old one, revocations that failed or were
\* not tried because an answer was lost, and a row that a rotation put in place
\* of the session's, or a login inserted, after the snapshot of the revocation.
THEOREM OldSessionsEnd == Spec => []OldPasswordSessionEnds
<1>1. Inv => OldPasswordSessionEnds
  BY DEF Inv
<1> QED BY <1>1, Invariance, PTL

-----------------------------------------------------------------------------
(***************************************************************************)
(* Login.  The strengthening follows a challenge, and a pending login,     *)
(* from the key that holds it to the request that has taken it out of      *)
(* Redis (GETDEL) and from there to its use: it is in one place at a time. *)
(* For the lockout it counts the requests that are past checkLockout and   *)
(* have not compared the password yet.                                     *)
(***************************************************************************)

\* Requests of the password step have an email; they and those of the TOTP
\* challenge have no ceremony.
PasswordLocals ==
  \A p \in Handlers :
    /\ req[p].pc \in {"clear", "factors", "second"} => req[p].challenge = None
    /\ req[p].pc \in {"compare", "incr", "lock", "clear"} => req[p].email \in Emails

\* The request has taken the ceremony of the challenge out of Redis.
Holds(p, ch) == /\ req[p].pc \in {"consume", "complete"}
                /\ req[p].challenge = ch

\* The challenge is in one of the keys, in one request, or used.
Ceremonies ==
  \A ch \in Challenges :
    /\ ceremony = ch \/ ch \in disco \/ wins[ch] # 0 => ch \in issued
    /\ ceremony = ch => ch \notin disco /\ wins[ch] = 0
    /\ ch \in disco => wins[ch] = 0
    /\ \A p \in Handlers :
         Holds(p, ch) => /\ ch \in issued /\ ceremony # ch /\ ch \notin disco
                         /\ wins[ch] = 0
                         /\ \A q \in Handlers : Holds(q, ch) => q = p

\* The request has taken the pending login out of Redis to try a code.
Guesses(p, k) == At(p, "second") /\ req[p].pending = k

\* The pending login is in its key, in one request, or used.
PendingLogins ==
  /\ \A p \in Handlers : At(p, "second") => req[p].pending \in Pending
  /\ \A k \in Pending :
       /\ pend[k] # None \/ tries[k] # 0 => k \in issued
       /\ pend[k] # None => tries[k] = 0
       /\ \A p \in Handlers :
            Guesses(p, k) => /\ k \in issued /\ pend[k] = None /\ tries[k] = 0
                             /\ \A q \in Handlers : Guesses(q, k) => q = p

\* The requests that found no lock of the spelling and are about to compare the
\* password.
Admitted(e) ==
  {p \in Handlers : At(p, "compare") /\ ~req[p].unchecked /\ req[p].email = e}

\* While there is a lock, those it came too late for are fewer than the
\* handlers: the request that set the lock was not one of them.
Overrun ==
  \A e \in Emails :
    lock[e] > 0 =>
      overrun[e] + Cardinality(Admitted(e)) < Cardinality(Handlers)

LoginInv ==
  /\ LoginTypeOK
  /\ PasswordLocals
  /\ Ceremonies /\ ChallengeOnce
  /\ PendingLogins /\ OneTryPerPending
  /\ Overrun

-----------------------------------------------------------------------------
(* What a step of Login does to the request that takes it.                 *)

\* A login request given as a whole.
LEMMA LoginEffect ==
  ASSUME LoginTypeOK, NEW p \in Handlers, NEW r \in LoginRequest,
         req' = [req EXCEPT ![p] = r]
  PROVE  /\ req' \in [Handlers -> LoginRequest]
         /\ \A q \in Handlers \ {p} : req'[q] = req[q]
         /\ req'[p] = r
BY DEF LoginTypeOK

\* A goroutine without a login.
LEMMA NoLoginType ==
  /\ NoLogin \in LoginRequest /\ NoLogin.pc = "idle" /\ NoLogin.challenge = None
  /\ NoLogin.pending = None /\ NoLogin.unchecked = FALSE
BY DEF NoLogin, LoginRequest, LoginPCs, Risks

\* A finished login leaves an idle goroutine.
LEMMA EndLoginEffect ==
  ASSUME LoginTypeOK, NEW p \in Handlers, EndLogin(p)
  PROVE  /\ req' \in [Handlers -> LoginRequest]
         /\ \A q \in Handlers \ {p} : req'[q] = req[q]
         /\ req'[p].pc = "idle"
BY NoLoginType, LoginEffect DEF EndLogin

\* The setup of a second factor may be forced.
LEMMA SetupRecord ==
  \A q \in LoginRequest, b \in BOOLEAN :
    LET r == [q EXCEPT !.pc = "save_pending", !.setup = b]
    IN  r \in LoginRequest /\ r.pc = "save_pending"
BY Zenon DEF LoginRequest, LoginPCs

\* Goto changes nothing but the next command.
LEMMA LoginGotoEffect ==
  ASSUME LoginTypeOK, NEW p \in Handlers, NEW pc \in LoginPCs, Goto(p, pc)
  PROVE  /\ req' \in [Handlers -> LoginRequest]
         /\ \A q \in Handlers \ {p} : req'[q] = req[q]
         /\ req'[p].pc = pc
         /\ req'[p].challenge = req[p].challenge
         /\ req'[p].pending = req[p].pending
BY DEF LoginTypeOK, LoginRequest, Goto

\* Begin notes the pending login and the challenge.
LEMMA LoginBeginEffect ==
  ASSUME LoginTypeOK, NEW p \in Handlers, NEW pc \in LoginPCs,
         NEW k \in Pending \cup {None}, NEW ch \in Challenges \cup {None},
         Begin(p, pc, k, ch)
  PROVE  /\ req' \in [Handlers -> LoginRequest]
         /\ \A q \in Handlers \ {p} : req'[q] = req[q]
         /\ req'[p].pc = pc /\ req'[p].pending = k /\ req'[p].challenge = ch
<1> DEFINE r == [NoLogin EXCEPT !.pc = pc, !.pending = k, !.challenge = ch]
<1>1. r \in LoginRequest /\ r.pc = pc /\ r.pending = k /\ r.challenge = ch
  BY NoLoginType DEF LoginRequest
<1>2. req' = [req EXCEPT ![p] = r]
  BY DEF Begin
<1> HIDE DEF r
<1> QED BY <1>1, <1>2, LoginEffect

\* The minutes of a lockout are a number whatever the count.
LEMMA LockMinutesType == \A n \in Nat : LockMinutes(n) \in Nat
BY LoginAssumption DEF LockMinutes

-----------------------------------------------------------------------------
(* What keeps each part of the strengthening.                              *)

\* Ceremonies may expire and be dropped; nobody gets hold of one.
LEMMA CeremoniesKept ==
  ASSUME LoginInv,
         \A q \in Handlers, ch \in Challenges : Holds(q, ch)' => Holds(q, ch),
         ceremony' \in {ceremony, None}, disco' \subseteq disco,
         issued \subseteq issued', wins' = wins
  PROVE  Ceremonies' /\ ChallengeOnce'
<1>1. \A ch \in Challenges : ceremony' = ch => ceremony = ch
  BY LoginAssumption
<1>2. Ceremonies'
  BY <1>1 DEF LoginInv, Ceremonies
<1>3. ChallengeOnce'
  BY DEF LoginInv, ChallengeOnce
<1> QED BY <1>2, <1>3

\* Pending logins may expire and be dropped; nobody gets a code to try.
LEMMA PendingKept ==
  ASSUME LoginInv,
         \A q \in Handlers : At(q, "second")' => req'[q] = req[q],
         \A k \in Pending : pend'[k] # None => pend[k] # None,
         issued \subseteq issued', tries' = tries
  PROVE  PendingLogins' /\ OneTryPerPending'
<1>1. \A q \in Handlers, k \in Pending : Guesses(q, k)' => Guesses(q, k)
  BY DEF Guesses
<1>2. \A q \in Handlers : At(q, "second")' => req'[q].pending \in Pending
  BY DEF LoginInv, PendingLogins
<1>3. PendingLogins'
  BY <1>1, <1>2 DEF LoginInv, PendingLogins
<1>4. OneTryPerPending'
  BY DEF LoginInv, OneTryPerPending
<1> QED BY <1>3, <1>4

\* The requests past checkLockout are counted in natural numbers.
LEMMA AdmittedFinite ==
  ASSUME NEW e \in Emails
  PROVE  /\ IsFiniteSet(Admitted(e)) /\ Cardinality(Admitted(e)) \in Nat
         /\ IsFiniteSet(Admitted(e)') /\ Cardinality(Admitted(e)') \in Nat
         /\ Cardinality(Handlers) \in Nat
<1>1. Admitted(e) \in SUBSET Handlers /\ Admitted(e)' \in SUBSET Handlers
  BY DEF Admitted
<1> HIDE DEF Admitted
<1> QED BY <1>1, LoginAssumption, FS_Subset, FS_CardinalityType

\* No lock begins, and nobody new is admitted while there is one.
LEMMA OverrunKept ==
  ASSUME LoginInv,
         \A e \in Emails : lock'[e] > 0 =>
           /\ lock[e] > 0 /\ overrun'[e] = overrun[e]
           /\ Admitted(e)' \subseteq Admitted(e)
  PROVE  Overrun'
<1> SUFFICES ASSUME NEW e \in Emails, lock'[e] > 0
             PROVE  overrun'[e] + Cardinality(Admitted(e)') < Cardinality(Handlers)
  BY DEF Overrun
<1>1. Cardinality(Admitted(e)') <= Cardinality(Admitted(e))
  BY AdmittedFinite, FS_Subset
<1>2. overrun[e] \in Nat /\ overrun'[e] = overrun[e]
  BY DEF LoginInv, LoginTypeOK
<1>3. overrun[e] + Cardinality(Admitted(e)) < Cardinality(Handlers)
  BY DEF LoginInv, Overrun
<1> QED BY <1>1, <1>2, <1>3, AdmittedFinite

\* A request goes on to a command that holds nothing.
LEMMA GoesOn ==
  ASSUME LoginInv, NEW p \in Handlers,
         \A q \in Handlers \ {p} : req'[q] = req[q],
         req'[p].pc \notin {"consume", "complete", "second"},
         req'[p].pc \in {"clear", "factors"} => req'[p].challenge = None,
         req'[p].pc \in {"compare", "incr", "lock", "clear"} =>
           req'[p].email \in Emails
  PROVE  /\ PasswordLocals'
         /\ \A q \in Handlers, ch \in Challenges : Holds(q, ch)' => Holds(q, ch)
         /\ \A q \in Handlers : At(q, "second")' => req'[q] = req[q]
<1>1. PasswordLocals'
  BY DEF LoginInv, PasswordLocals
<1>2. \A q \in Handlers, ch \in Challenges : Holds(q, ch)' => Holds(q, ch)
  BY DEF Holds
<1>3. \A q \in Handlers : At(q, "second")' => req'[q] = req[q]
  OBVIOUS
<1> QED BY <1>1, <1>2, <1>3

\* The request is not let through to the password.
LEMMA NotAdmitted ==
  ASSUME NEW p \in Handlers, \A q \in Handlers \ {p} : req'[q] = req[q],
         req'[p].pc = "compare" => req'[p].unchecked
  PROVE  \A e \in Emails : Admitted(e)' \subseteq Admitted(e)
BY DEF Admitted

\* A request goes on and Redis stays, or loses keys; while there is a lock it
\* does not go on to the password, unless the lock was not looked at.
LEMMA QuietLogin ==
  ASSUME LoginInv, NEW p \in Handlers, LoginTypeOK',
         \A q \in Handlers \ {p} : req'[q] = req[q],
         req'[p].pc \notin {"consume", "complete", "second"},
         req'[p].pc \in {"clear", "factors"} => req'[p].challenge = None,
         req'[p].pc \in {"compare", "incr", "lock", "clear"} =>
           req'[p].email \in Emails,
         req'[p].pc = "compare" =>
           req'[p].unchecked \/ ~(lock'[req'[p].email] > 0),
         ceremony' \in {ceremony, None}, disco' \subseteq disco, pend' = pend,
         \A e \in Emails :
           lock'[e] > 0 => lock[e] > 0 /\ overrun'[e] = overrun[e],
         UNCHANGED <<issued, wins, tries>>
  PROVE  LoginInv'
<1>1. Ceremonies' /\ ChallengeOnce'
  BY GoesOn, CeremoniesKept
<1>2. PendingLogins' /\ OneTryPerPending'
  BY GoesOn, PendingKept
<1>3. Overrun'
  <2>1. \A e \in Emails : lock'[e] > 0 => Admitted(e)' \subseteq Admitted(e)
    BY DEF Admitted
  <2> QED BY <2>1, OverrunKept
<1> QED BY GoesOn, <1>1, <1>2, <1>3 DEF LoginInv

-----------------------------------------------------------------------------
(* One lemma per action: the password step.                                *)

\* A request past checkLockout.
LEMMA AdmitRecord ==
  \A e \in Emails, b \in BOOLEAN :
    LET r == [NoLogin EXCEPT !.pc = "compare", !.email = e, !.unchecked = b]
    IN  r \in LoginRequest /\ r.pc = "compare" /\ r.email = e /\ r.unchecked = b
BY NoLoginType, Zenon DEF NoLogin, LoginRequest, LoginPCs, Risks

\* checkLockout lets a request through when there is no lock, or no answer.
LEMMA CheckLockoutStep ==
  ASSUME LoginInv, NEW p \in Handlers, NEW email \in Emails, CheckLockout(p, email)
  PROVE  LoginInv'
<1> USE DEF CheckLockout, redis, history
<1>0. LoginTypeOK
  BY DEF LoginInv
<1>1. PICK b \in BOOLEAN : Admit(p, email, b) /\ (b \/ ~Locked(email))
  OBVIOUS
<1> DEFINE r == [NoLogin EXCEPT !.pc = "compare", !.email = email, !.unchecked = b]
<1>2. r \in LoginRequest /\ r.pc = "compare" /\ r.email = email /\ r.unchecked = b
  BY NoLoginType, AdmitRecord, Zenon
<1>3. req' = [req EXCEPT ![p] = r]
  BY <1>1 DEF Admit
<1> HIDE DEF r
<1>4. /\ req' \in [Handlers -> LoginRequest]
      /\ \A q \in Handlers \ {p} : req'[q] = req[q]
      /\ req'[p] = r
  BY <1>0, <1>2, <1>3, LoginEffect
<1>5. LoginTypeOK'
  BY <1>0, <1>4 DEF LoginTypeOK
<1>6. req'[p].unchecked \/ ~(lock'[req'[p].email] > 0)
  BY <1>1, <1>2, <1>4 DEF Locked
<1> QED BY <1>2, <1>4, <1>5, <1>6, QuietLogin

\* The comparison counts an admitted request that comes after the lock.
LEMMA LoginCompareStep ==
  ASSUME LoginInv, NEW p \in Handlers, NEW right \in BOOLEAN, NEW risk \in Risks,
         Compare(p, right, risk)
  PROVE  LoginInv'
<1> USE DEF Compare, redis
<1>0. LoginTypeOK
  BY DEF LoginInv
<1>e. PICK e \in Emails : e = req[p].email
  BY DEF LoginInv, PasswordLocals
<1> DEFINE r == IF right /\ active
                  THEN [NoLogin EXCEPT !.pc = "clear", !.email = e, !.risk = risk]
                  ELSE [NoLogin EXCEPT !.pc = "incr", !.email = e]
<1>1. /\ r \in LoginRequest /\ r.pc \in {"clear", "incr"} /\ r.challenge = None
      /\ r.email = e /\ req' = [req EXCEPT ![p] = r]
  BY <1>e, NoLoginType DEF LoginRequest, LoginPCs
<1> HIDE DEF r
<1>2. /\ req' \in [Handlers -> LoginRequest]
      /\ \A q \in Handlers \ {p} : req'[q] = req[q]
      /\ req'[p] = r
  BY <1>0, <1>1, LoginEffect
<1>3. /\ overrun' \in [Emails -> Nat]
      /\ \A f \in Emails \ {e} : overrun'[f] = overrun[f]
      /\ req[p].unchecked \/ ~(lock[e] > 0) => overrun'[e] = overrun[e]
      /\ overrun'[e] <= overrun[e] + 1
  BY <1>0, <1>e DEF LoginTypeOK
<1>4. LoginTypeOK'
  BY <1>0, <1>2, <1>3 DEF LoginTypeOK
<1>5. /\ Ceremonies' /\ ChallengeOnce' /\ PendingLogins' /\ OneTryPerPending'
      /\ PasswordLocals'
  BY <1>1, <1>2, GoesOn, CeremoniesKept, PendingKept
<1>6. Overrun'
  <2> SUFFICES ASSUME NEW f \in Emails, lock[f] > 0
               PROVE  overrun'[f] + Cardinality(Admitted(f)') < Cardinality(Handlers)
    BY DEF Overrun
  <2>1. overrun[f] + Cardinality(Admitted(f)) < Cardinality(Handlers)
    BY DEF LoginInv, Overrun
  <2>2. overrun[f] \in Nat /\ overrun'[f] \in Nat
    BY <1>0, <1>3 DEF LoginTypeOK
  <2>3. CASE f # e \/ req[p].unchecked
    <3>1. Admitted(f)' = Admitted(f)
      BY <1>1, <1>2, <1>e, <2>3 DEF Admitted
    <3>2. overrun'[f] = overrun[f]
      BY <1>3, <2>3
    <3> QED BY <2>1, <3>1, <3>2
  <2>4. CASE f = e /\ ~req[p].unchecked
    <3>1. Admitted(f)' = Admitted(f) \ {p} /\ p \in Admitted(f)
      BY <1>1, <1>2, <1>e, <2>4 DEF Admitted
    <3>2. Cardinality(Admitted(f)') = Cardinality(Admitted(f)) - 1
      BY <3>1, AdmittedFinite, FS_RemoveElement
    <3>3. overrun'[f] <= overrun[f] + 1
      BY <1>3, <2>4
    <3> QED BY <2>1, <2>2, <3>2, <3>3, AdmittedFinite
  <2> QED BY <2>3, <2>4
<1> QED BY <1>4, <1>5, <1>6 DEF LoginInv

\* A failure counted, on its way to the lock.
LEMMA LockRecord ==
  \A q \in LoginRequest, n \in Nat :
    LET r == [q EXCEPT !.pc = "lock", !.count = n]
    IN  r \in LoginRequest /\ r.pc = "lock" /\ r.email = q.email
BY Zenon DEF LoginRequest, LoginPCs

\* INCR notes the count and finishes, or goes on to set the lock.
LEMMA IncrStep ==
  ASSUME LoginInv, NEW p \in Handlers, Incr(p)
  PROVE  LoginInv'
<1> USE DEF Incr, history
<1>0. LoginTypeOK /\ req[p].email \in Emails
  BY DEF LoginInv, PasswordLocals
<1> DEFINE count == fails[req[p].email] + 1
<1>c. count \in Nat /\ fails' \in [Emails -> Nat]
  BY <1>0 DEF LoginTypeOK
<1>1. /\ req' \in [Handlers -> LoginRequest]
      /\ \A q \in Handlers \ {p} : req'[q] = req[q]
      /\ \/ req'[p].pc = "idle"
         \/ req'[p].pc = "lock" /\ req'[p].email = req[p].email
  <2>1. CASE count >= MaxAttempts
    <3> DEFINE r == [req[p] EXCEPT !.pc = "lock", !.count = count]
    <3>2. req' = [req EXCEPT ![p] = r]
      BY <1>0, <2>1 DEF LoginTypeOK
    <3> HIDE DEF count
    <3>0. req[p] \in LoginRequest
      BY <1>0 DEF LoginTypeOK
    <3>1. r \in LoginRequest /\ r.pc = "lock" /\ r.email = req[p].email
      BY <1>c, <3>0, LockRecord, Zenon
    <3> HIDE DEF r
    <3> QED BY <1>0, <3>1, <3>2, LoginEffect
  <2>2. CASE EndLogin(p)
    BY <1>0, <2>2, EndLoginEffect
  <2> QED BY <2>1, <2>2
<1>2. LoginTypeOK'
  BY <1>0, <1>c, <1>1 DEF LoginTypeOK
<1> QED BY <1>0, <1>1, <1>2, QuietLogin

\* The lock begins: every other handler may be admitted, its setter is not.
LEMMA SetLockStep ==
  ASSUME LoginInv, NEW p \in Handlers, SetLock(p)
  PROVE  LoginInv'
<1> USE DEF SetLock
<1>0. LoginTypeOK
  BY DEF LoginInv
<1>e. PICK e \in Emails : e = req[p].email
  BY DEF LoginInv, PasswordLocals
<1>1. /\ req' \in [Handlers -> LoginRequest]
      /\ \A q \in Handlers \ {p} : req'[q] = req[q]
      /\ req'[p].pc = "idle"
  BY <1>0, EndLoginEffect
<1>2. /\ lock' \in [Emails -> Nat] /\ overrun' \in [Emails -> Nat]
      /\ overrun'[e] = 0
      /\ \A f \in Emails \ {e} : lock'[f] = lock[f] /\ overrun'[f] = overrun[f]
  <2>1. req[p].count \in Nat
    BY <1>0 DEF LoginTypeOK, LoginRequest
  <2>2. PICK n \in Nat : n = LockMinutes(req[p].count)
    BY <2>1, LockMinutesType
  <2> QED BY <1>0, <1>e, <2>2 DEF LoginTypeOK
<1>3. LoginTypeOK'
  BY <1>0, <1>1, <1>2 DEF LoginTypeOK
<1>4. /\ Ceremonies' /\ ChallengeOnce' /\ PendingLogins' /\ OneTryPerPending'
      /\ PasswordLocals'
  BY <1>1, GoesOn, CeremoniesKept, PendingKept
<1>5. Overrun'
  <2> SUFFICES ASSUME NEW f \in Emails, lock'[f] > 0
               PROVE  overrun'[f] + Cardinality(Admitted(f)') < Cardinality(Handlers)
    BY DEF Overrun
  <2>1. CASE f = e
    <3>1. Admitted(f)' \subseteq Handlers \ {p}
      BY <1>1 DEF Admitted
    <3>2. /\ IsFiniteSet(Handlers \ {p})
          /\ Cardinality(Handlers \ {p}) = Cardinality(Handlers) - 1
      BY LoginAssumption, FS_RemoveElement
    <3>3. Cardinality(Admitted(f)') <= Cardinality(Handlers \ {p})
      BY <3>1, <3>2, FS_Subset
    <3> QED BY <1>2, <2>1, <3>2, <3>3, AdmittedFinite
  <2>2. CASE f # e
    <3>1. /\ lock[f] > 0 /\ overrun'[f] = overrun[f] /\ overrun[f] \in Nat
      BY <1>0, <1>2, <2>2 DEF LoginTypeOK
    <3>2. Admitted(f)' \subseteq Admitted(f)
      BY <1>1, NotAdmitted
    <3>3. Cardinality(Admitted(f)') <= Cardinality(Admitted(f))
      BY <3>2, AdmittedFinite, FS_Subset
    <3>4. overrun[f] + Cardinality(Admitted(f)) < Cardinality(Handlers)
      BY <3>1 DEF LoginInv, Overrun
    <3> QED BY <3>1, <3>3, <3>4, AdmittedFinite
  <2> QED BY <2>1, <2>2
<1> QED BY <1>3, <1>4, <1>5 DEF LoginInv

\* The keys of one spelling go.
LEMMA DelLockoutEffect ==
  ASSUME LoginTypeOK, NEW email \in Emails, DelLockout(email)
  PROVE  /\ fails' \in [Emails -> Nat] /\ lock' \in [Emails -> Nat]
         /\ overrun' \in [Emails -> Nat]
         /\ \A e \in Emails :
              lock'[e] > 0 => lock[e] > 0 /\ overrun'[e] = overrun[e]
BY DEF LoginTypeOK, DelLockout

\* After the right password a request is refused, or goes on without an email.
LEMMA ProceedEffect ==
  ASSUME LoginTypeOK, NEW p \in Handlers, Proceed(p)
  PROVE  /\ req' \in [Handlers -> LoginRequest]
         /\ \A q \in Handlers \ {p} : req'[q] = req[q]
         /\ \/ req'[p].pc = "idle"
            \/ req'[p].pc = "factors" /\ req'[p].challenge = req[p].challenge
<1>1. CASE EndLogin(p)
  BY <1>1, EndLoginEffect
<1>2. CASE req' = [req EXCEPT ![p].pc = "factors", ![p].email = None]
  <2> DEFINE r == [req[p] EXCEPT !.pc = "factors", !.email = None]
  <2>1. req' = [req EXCEPT ![p] = r]
    BY <1>2 DEF LoginTypeOK
  <2>2. r \in LoginRequest /\ r.pc = "factors" /\ r.challenge = req[p].challenge
    BY DEF LoginTypeOK, LoginRequest, LoginPCs
  <2> HIDE DEF r
  <2> QED BY <2>1, <2>2, LoginEffect
<1> QED BY <1>1, <1>2 DEF Proceed

\* clearFailedAttempts ends the lock; the request is refused or goes on.
LEMMA ClearStep ==
  ASSUME LoginInv, NEW p \in Handlers, ClearFailedAttempts(p)
  PROVE  LoginInv'
<1> USE DEF ClearFailedAttempts, history
<1>0. LoginTypeOK /\ req[p].email \in Emails
  BY DEF LoginInv, PasswordLocals
<1>1. /\ req' \in [Handlers -> LoginRequest]
      /\ \A q \in Handlers \ {p} : req'[q] = req[q]
      /\ \/ req'[p].pc = "idle"
         \/ req'[p].pc = "factors" /\ req'[p].challenge = req[p].challenge
  BY <1>0, ProceedEffect
<1>2. req[p].challenge = None
  BY DEF LoginInv, PasswordLocals
<1>3. /\ fails' \in [Emails -> Nat] /\ lock' \in [Emails -> Nat]
      /\ overrun' \in [Emails -> Nat]
      /\ \A e \in Emails :
           lock'[e] > 0 => lock[e] > 0 /\ overrun'[e] = overrun[e]
  BY <1>0, DelLockoutEffect
<1>4. LoginTypeOK'
  BY <1>0, <1>1, <1>3 DEF LoginTypeOK
<1> QED BY <1>1, <1>2, <1>3, <1>4, QuietLogin

\* The password alone signs in, or a second factor is asked for.
LEMMA FactorsStep ==
  ASSUME LoginInv, NEW p \in Handlers, Factors(p)
  PROVE  LoginInv'
<1> USE DEF Factors, redis, history
<1>0. LoginTypeOK /\ req[p].challenge = None
  BY DEF LoginInv, PasswordLocals
<1>1. CASE req' = [req EXCEPT ![p].pc = "save_pending",
                              ![p].setup = ForceSetup(req[p])]
  <2>0. PICK b \in BOOLEAN : b = ForceSetup(req[p])
    BY DEF ForceSetup
  <2> DEFINE r == [req[p] EXCEPT !.pc = "save_pending", !.setup = b]
  <2>1. req' = [req EXCEPT ![p] = r]
    BY <1>0, <1>1, <2>0 DEF LoginTypeOK
  <2>2. r \in LoginRequest /\ r.pc = "save_pending"
    <3>1. req[p] \in LoginRequest
      BY <1>0 DEF LoginTypeOK
    <3> QED BY <2>0, <3>1, SetupRecord, Zenon
  <2> HIDE DEF r
  <2>3. /\ req' \in [Handlers -> LoginRequest]
        /\ \A q \in Handlers \ {p} : req'[q] = req[q]
        /\ req'[p] = r
    BY <1>0, <2>1, <2>2, LoginEffect
  <2>4. LoginTypeOK'
    BY <1>0, <2>3 DEF LoginTypeOK
  <2> QED BY <2>2, <2>3, <2>4, QuietLogin
<1>2. CASE Goto(p, "complete")
  <2>1. /\ req' \in [Handlers -> LoginRequest]
        /\ \A q \in Handlers \ {p} : req'[q] = req[q]
        /\ req'[p].pc = "complete" /\ req'[p].challenge = None
    BY <1>0, <1>2, LoginGotoEffect DEF LoginPCs
  <2>2. LoginTypeOK'
    BY <1>0, <2>1 DEF LoginTypeOK
  <2>3. \A q \in Handlers, ch \in Challenges : Holds(q, ch)' => Holds(q, ch)
    BY <2>1, LoginAssumption DEF Holds
  <2>4. Ceremonies' /\ ChallengeOnce'
    BY <2>3, CeremoniesKept
  <2>5. PendingLogins' /\ OneTryPerPending'
    BY <2>1, PendingKept
  <2>6. Overrun'
    BY <2>1, NotAdmitted, OverrunKept
  <2>7. PasswordLocals'
    BY <2>1 DEF LoginInv, PasswordLocals
  <2> QED BY <2>2, <2>4, <2>5, <2>6, <2>7 DEF LoginInv
<1> QED BY <1>1, <1>2

\* The pending login is new, so nobody has tried a code with it.
LEMMA SavePendingStep ==
  ASSUME LoginInv, NEW p \in Handlers, SavePending(p)
  PROVE  LoginInv'
<1> USE DEF SavePending
<1>0. LoginTypeOK
  BY DEF LoginInv
<1>1. /\ req' \in [Handlers -> LoginRequest]
      /\ \A q \in Handlers \ {p} : req'[q] = req[q]
      /\ req'[p].pc = "idle"
  BY <1>0, EndLoginEffect
<1>2. PICK k \in Pending \ issued :
        /\ pend' = [pend EXCEPT ![k] = IF req[p].setup THEN "setup" ELSE "challenge"]
        /\ issued' = issued \cup {k}
  OBVIOUS
<1>3. LoginTypeOK'
  BY <1>0, <1>1, <1>2 DEF LoginTypeOK
<1>4. Ceremonies' /\ ChallengeOnce' /\ PasswordLocals'
  BY <1>1, <1>2, GoesOn, CeremoniesKept
<1>5. \A q \in Handlers, l \in Pending : Guesses(q, l)' => Guesses(q, l) /\ l # k
  BY <1>1, <1>2 DEF Guesses, LoginInv, PendingLogins
<1>6. \A l \in Pending \ {k} : pend'[l] = pend[l]
  BY <1>0, <1>2 DEF LoginTypeOK
<1>7. tries[k] = 0
  BY <1>2 DEF LoginInv, PendingLogins
<1>8. \A q \in Handlers : At(q, "second")' => req'[q].pending \in Pending
  BY <1>1 DEF LoginInv, PendingLogins
<1>9. PendingLogins'
  BY <1>2, <1>5, <1>6, <1>7, <1>8 DEF LoginInv, PendingLogins
<1>10. OneTryPerPending'
  BY DEF LoginInv, OneTryPerPending
<1>11. Overrun'
  BY <1>1, NotAdmitted, OverrunKept
<1> QED BY <1>3, <1>4, <1>9, <1>10, <1>11 DEF LoginInv

-----------------------------------------------------------------------------
(* One lemma per action: the second factor.                                *)

\* A request with a pending login to try a code for.
LEMMA SecondRecord ==
  \A k \in Pending, b \in BOOLEAN :
    LET r == [NoLogin EXCEPT !.pc = "second", !.pending = k, !.setup = b]
    IN  /\ r \in LoginRequest /\ r.pc = "second" /\ r.pending = k
        /\ r.challenge = None
<1> SUFFICES ASSUME NEW k \in Pending, NEW b \in BOOLEAN
             PROVE  LET r == [NoLogin EXCEPT !.pc = "second", !.pending = k,
                                             !.setup = b]
                    IN  /\ r \in LoginRequest /\ r.pc = "second" /\ r.pending = k
                        /\ r.challenge = None
  OBVIOUS
<1> QED BY NoLoginType, Zenon DEF NoLogin, LoginRequest, LoginPCs, Risks

\* GETDEL: the pending login passes from its key to one request.
LEMMA MFAChallengeStep ==
  ASSUME LoginInv, NEW p \in Handlers, NEW k \in Pending, MFAChallenge(p, k)
  PROVE  LoginInv'
<1> USE DEF MFAChallenge, history
<1>0. LoginTypeOK
  BY DEF LoginInv
<1>1. PICK b \in BOOLEAN : b = (pend[k] = "setup")
  OBVIOUS
<1> DEFINE r == [NoLogin EXCEPT !.pc = "second", !.pending = k, !.setup = b]
<1>2. r \in LoginRequest /\ r.pc = "second" /\ r.pending = k /\ r.challenge = None
  BY <1>1, SecondRecord, Zenon
<1>3. req' = [req EXCEPT ![p] = r]
  BY <1>1
<1> HIDE DEF r
<1>4. /\ req' \in [Handlers -> LoginRequest]
      /\ \A q \in Handlers \ {p} : req'[q] = req[q]
      /\ req'[p] = r
  BY <1>0, <1>2, <1>3, LoginEffect
<1>5. pend' = [pend EXCEPT ![k] = None]
  OBVIOUS
<1>6. LoginTypeOK'
  BY <1>0, <1>4, <1>5 DEF LoginTypeOK
<1>7. \A q \in Handlers, ch \in Challenges : Holds(q, ch)' => Holds(q, ch)
  BY <1>2, <1>4 DEF Holds
<1>8. Ceremonies' /\ ChallengeOnce'
  BY <1>7, CeremoniesKept
<1>9. PendingLogins'
  <2>1. \A q \in Handlers, l \in Pending :
          Guesses(q, l)' <=> IF q = p THEN l = k ELSE Guesses(q, l)
    BY <1>2, <1>4 DEF Guesses
  <2>2. k \in issued /\ tries[k] = 0 /\ \A q \in Handlers : ~Guesses(q, k)
    BY DEF LoginInv, PendingLogins
  <2>3. pend'[k] = None /\ \A l \in Pending \ {k} : pend'[l] = pend[l]
    BY <1>0, <1>5 DEF LoginTypeOK
  <2>4. \A q \in Handlers : At(q, "second")' => req'[q].pending \in Pending
    BY <1>2, <1>4 DEF LoginInv, PendingLogins
  <2>5. \A q \in Handlers : ~Guesses(p, k) /\ ~Guesses(q, k)
    BY <2>2
  <2>6. \A l \in Pending \ {k} : ~Guesses(p, l)
    BY DEF Guesses
  <2>7. ASSUME NEW l \in Pending
        PROVE  /\ pend'[l] # None \/ tries'[l] # 0 => l \in issued'
               /\ pend'[l] # None => tries'[l] = 0
    BY <2>2, <2>3 DEF LoginInv, PendingLogins
  <2>8. ASSUME NEW l \in Pending, NEW q \in Handlers, Guesses(q, l)'
        PROVE  /\ l \in issued' /\ pend'[l] = None /\ tries'[l] = 0
               /\ \A s \in Handlers : Guesses(s, l)' => s = q
    BY <2>1, <2>2, <2>3, <2>6, <2>8 DEF LoginInv, PendingLogins
  <2> QED BY <2>4, <2>7, <2>8 DEF PendingLogins
<1>10. OneTryPerPending'
  BY DEF LoginInv, OneTryPerPending
<1>11. Overrun'
  BY <1>2, <1>4, NotAdmitted, OverrunKept
<1>12. PasswordLocals'
  BY <1>2, <1>4 DEF LoginInv, PasswordLocals
<1> QED BY <1>6, <1>8, <1>9, <1>10, <1>11, <1>12 DEF LoginInv

\* The one request that has the pending login tries its code.
LEMMA SecondFactorStep ==
  ASSUME LoginInv, NEW p \in Handlers, NEW right \in BOOLEAN, SecondFactor(p, right)
  PROVE  LoginInv'
<1> USE DEF SecondFactor, redis
<1>0. LoginTypeOK /\ req[p].challenge = None
  BY DEF LoginInv, PasswordLocals
<1>1. PICK k \in Pending : k = req[p].pending
  BY DEF LoginInv, PendingLogins
<1>2. /\ req' \in [Handlers -> LoginRequest]
      /\ \A q \in Handlers \ {p} : req'[q] = req[q]
      /\ \/ req'[p].pc = "idle"
         \/ req'[p].pc = "complete" /\ req'[p].challenge = None
  BY <1>0, EndLoginEffect, LoginGotoEffect DEF LoginPCs
<1>3. Guesses(p, k) /\ tries[k] = 0 /\ k \in issued /\ pend[k] = None
  BY <1>1 DEF Guesses, LoginInv, PendingLogins
<1>4. tries' = [tries EXCEPT ![k] = 1]
  BY <1>1, <1>3 DEF More
<1>5. factors' \subseteq {"totp", "passkey"}
  BY <1>0 DEF LoginTypeOK
<1>6. LoginTypeOK'
  <2>1. UNCHANGED <<redis, active, issued, wins, overrun>>
    OBVIOUS
  <2> HIDE DEF SecondFactor
  <2>2. tries' \in [Pending -> Nat]
    BY <1>0, <1>4 DEF LoginTypeOK
  <2> QED BY <1>0, <1>2, <1>5, <2>1, <2>2 DEF LoginTypeOK
<1>7. \A q \in Handlers, ch \in Challenges : Holds(q, ch)' => Holds(q, ch)
  BY <1>2, LoginAssumption DEF Holds
<1>8. Ceremonies' /\ ChallengeOnce'
  BY <1>7, CeremoniesKept
<1>9. tries'[k] = 1 /\ \A l \in Pending \ {k} : tries'[l] = tries[l]
  BY <1>0, <1>4 DEF LoginTypeOK
<1>10. \A q \in Handlers, l \in Pending : Guesses(q, l)' => Guesses(q, l) /\ l # k
  BY <1>2, <1>3 DEF Guesses, LoginInv, PendingLogins
<1>11. \A q \in Handlers : At(q, "second")' => req'[q].pending \in Pending
  BY <1>2 DEF LoginInv, PendingLogins
<1>12. PendingLogins'
  BY <1>3, <1>9, <1>10, <1>11 DEF LoginInv, PendingLogins
<1>13. OneTryPerPending'
  BY <1>9 DEF LoginInv, OneTryPerPending
<1>14. Overrun'
  BY <1>2, NotAdmitted, OverrunKept
<1>15. PasswordLocals'
  BY <1>2 DEF LoginInv, PasswordLocals
<1> QED BY <1>6, <1>8, <1>12, <1>13, <1>14, <1>15 DEF LoginInv

\* Both requests of the passkey begin by reading the pending login.
LEMMA WebAuthnLoginStep ==
  ASSUME LoginInv, NEW p \in Handlers, NEW k \in Pending,
         WebAuthnLoginBegin(p, k) \/ \E ch \in Challenges : WebAuthnLoginFinish(p, k, ch)
  PROVE  LoginInv'
<1>0. LoginTypeOK
  BY DEF LoginInv
<1>1. /\ UNCHANGED <<redis, active, factors, history>>
      /\ \E ch \in Challenges \cup {None}, pc \in {"save_ceremony", "load"} :
           Begin(p, pc, k, ch)
  BY DEF WebAuthnLoginBegin, WebAuthnLoginFinish
<1>2. /\ req' \in [Handlers -> LoginRequest]
      /\ \A q \in Handlers \ {p} : req'[q] = req[q]
      /\ req'[p].pc \in {"save_ceremony", "load"}
  BY <1>0, <1>1, LoginBeginEffect DEF LoginPCs
<1>3. LoginTypeOK'
  BY <1>0, <1>1, <1>2 DEF LoginTypeOK, redis, history
<1> QED BY <1>1, <1>2, <1>3, QuietLogin DEF redis, history

\* A new ceremony has a challenge nobody holds.
LEMMA SaveSessionStep ==
  ASSUME LoginInv, NEW p \in Handlers, SaveSession(p)
  PROVE  LoginInv'
<1> USE DEF SaveSession
<1>0. LoginTypeOK
  BY DEF LoginInv
<1>1. /\ req' \in [Handlers -> LoginRequest]
      /\ \A q \in Handlers \ {p} : req'[q] = req[q]
      /\ req'[p].pc = "idle"
  BY <1>0, EndLoginEffect
<1>2. PICK c \in Challenges \ issued : ceremony' = c /\ issued' = issued \cup {c}
  OBVIOUS
<1>3. LoginTypeOK'
  BY <1>0, <1>1, <1>2 DEF LoginTypeOK
<1>4. \A q \in Handlers, ch \in Challenges : Holds(q, ch)' => Holds(q, ch) /\ ch # c
  BY <1>1, <1>2 DEF Holds, LoginInv, Ceremonies
<1>5. c \notin disco /\ wins[c] = 0
  BY <1>2 DEF LoginInv, Ceremonies
<1>6. Ceremonies'
  BY <1>2, <1>4, <1>5 DEF LoginInv, Ceremonies
<1>7. ChallengeOnce'
  BY DEF LoginInv, ChallengeOnce
<1>8. PendingLogins' /\ OneTryPerPending'
  BY <1>1, <1>2, PendingKept
<1>9. Overrun'
  BY <1>1, NotAdmitted, OverrunKept
<1>10. PasswordLocals'
  BY <1>1, GoesOn
<1> QED BY <1>3, <1>6, <1>7, <1>8, <1>9, <1>10 DEF LoginInv

\* A request gets hold of a challenge that leaves its key in the same step.
LEMMA TakesCeremony ==
  ASSUME LoginInv, NEW p \in Handlers, NEW c \in Challenges,
         \A q \in Handlers \ {p} : req'[q] = req[q],
         req'[p].pc \in {"consume", "complete"}, req'[p].challenge = c,
         req[p].pc \notin {"consume", "complete"},
         \/ ceremony = c /\ ceremony' = None /\ disco' = disco
         \/ c \in disco /\ disco' = disco \ {c} /\ ceremony' = ceremony,
         UNCHANGED <<issued, wins>>
  PROVE  Ceremonies' /\ ChallengeOnce'
<1>1. c \in issued /\ wins[c] = 0 /\ \A q \in Handlers : ~Holds(q, c)
  BY DEF LoginInv, Ceremonies
<1>2. ceremony' # c /\ c \notin disco'
  BY LoginAssumption DEF LoginInv, Ceremonies
<1>3. \A q \in Handlers, ch \in Challenges :
        Holds(q, ch)' <=> IF q = p THEN ch = c ELSE Holds(q, ch)
  BY DEF Holds
<1>4. \A ch \in Challenges : ~Holds(p, ch)
  BY DEF Holds
<1>5. \A ch \in Challenges : ceremony' = ch => ceremony = ch
  BY LoginAssumption
<1>6. disco' \subseteq disco
  OBVIOUS
<1>7. ASSUME NEW ch \in Challenges
      PROVE  /\ ceremony' = ch \/ ch \in disco' \/ wins'[ch] # 0 => ch \in issued'
             /\ ceremony' = ch => ch \notin disco' /\ wins'[ch] = 0
             /\ ch \in disco' => wins'[ch] = 0
  BY <1>5, <1>6 DEF LoginInv, Ceremonies
<1>8. ASSUME NEW ch \in Challenges, NEW q \in Handlers, Holds(q, ch)'
      PROVE  /\ ch \in issued' /\ ceremony' # ch /\ ch \notin disco'
             /\ wins'[ch] = 0
             /\ \A s \in Handlers : Holds(s, ch)' => s = q
  <2>1. CASE ch = c
    BY <1>1, <1>2, <1>3, <1>8, <2>1
  <2>2. CASE ch # c
    <3>1. Holds(q, ch) /\ q # p
      BY <1>3, <1>8, <2>2
    <3>2. \A s \in Handlers : Holds(s, ch)' => Holds(s, ch)
      BY <1>3, <2>2
    <3> QED BY <1>5, <1>6, <3>1, <3>2 DEF LoginInv, Ceremonies
  <2> QED BY <2>1, <2>2
<1>9. Ceremonies'
  BY <1>7, <1>8 DEF Ceremonies
<1>10. ChallengeOnce'
  BY DEF LoginInv, ChallengeOnce
<1> QED BY <1>9, <1>10

\* GETDEL: the ceremony passes from its key to the request, or is dropped.
LEMMA LoadSessionStep ==
  ASSUME LoginInv, NEW p \in Handlers, LoadSession(p)
  PROVE  LoginInv'
<1> USE DEF LoadSession, AfterLoad, history
<1>0. LoginTypeOK
  BY DEF LoginInv
<1>1. CASE EndLogin(p)
  <2>1. /\ req' \in [Handlers -> LoginRequest]
        /\ \A q \in Handlers \ {p} : req'[q] = req[q]
        /\ req'[p].pc = "idle"
    BY <1>0, <1>1, EndLoginEffect
  <2>2. LoginTypeOK'
    BY <1>0, <2>1 DEF LoginTypeOK
  <2> QED BY <2>1, <2>2, QuietLogin
<1>2. CASE ceremony = req[p].challenge /\ Goto(p, "consume")
  <2>1. /\ req' \in [Handlers -> LoginRequest]
        /\ \A q \in Handlers \ {p} : req'[q] = req[q]
        /\ req'[p].pc = "consume" /\ req'[p].challenge = ceremony
    BY <1>0, <1>2, LoginGotoEffect DEF LoginPCs
  <2>2. LoginTypeOK'
    BY <1>0, <2>1 DEF LoginTypeOK
  <2>3. Ceremonies' /\ ChallengeOnce'
    <3>1. CASE ceremony \in Challenges
      BY <2>1, <3>1, TakesCeremony
    <3>2. CASE ceremony \notin Challenges
      <4>1. \A q \in Handlers, ch \in Challenges : Holds(q, ch)' => Holds(q, ch)
        BY <2>1, <3>2 DEF Holds
      <4> QED BY <4>1, CeremoniesKept
    <3> QED BY <3>1, <3>2
  <2>4. PendingLogins' /\ OneTryPerPending'
    BY <2>1, PendingKept
  <2>5. Overrun'
    BY <2>1, NotAdmitted, OverrunKept
  <2>6. PasswordLocals'
    BY <2>1 DEF LoginInv, PasswordLocals
  <2> QED BY <2>2, <2>3, <2>4, <2>5, <2>6 DEF LoginInv
<1> QED BY <1>1, <1>2

\* The pending login goes, or its DEL fails; the ceremony stays taken.
LEMMA ConsumePendingStep ==
  ASSUME LoginInv, NEW p \in Handlers, ConsumePending(p)
  PROVE  LoginInv'
<1> USE DEF ConsumePending, history
<1>0. LoginTypeOK
  BY DEF LoginInv
<1>1. /\ req' \in [Handlers -> LoginRequest]
      /\ \A q \in Handlers \ {p} : req'[q] = req[q]
      /\ req'[p].pc = "complete" /\ req'[p].challenge = req[p].challenge
  BY <1>0, LoginGotoEffect DEF LoginPCs
<1>2. /\ pend' \in [Pending -> {"challenge", "setup", None}]
      /\ \A k \in Pending : pend'[k] # None => pend[k] # None
  BY <1>0 DEF LoginTypeOK
<1>3. LoginTypeOK'
  BY <1>0, <1>1, <1>2 DEF LoginTypeOK
<1>4. \A q \in Handlers, ch \in Challenges : Holds(q, ch)' => Holds(q, ch)
  BY <1>1 DEF Holds
<1>5. Ceremonies' /\ ChallengeOnce'
  BY <1>4, CeremoniesKept
<1>6. PendingLogins' /\ OneTryPerPending'
  BY <1>1, <1>2, PendingKept
<1>7. Overrun'
  BY <1>1, NotAdmitted, OverrunKept
<1>8. PasswordLocals'
  BY <1>1 DEF LoginInv, PasswordLocals
<1> QED BY <1>3, <1>5, <1>6, <1>7, <1>8 DEF LoginInv

-----------------------------------------------------------------------------
(* One lemma per action: the passwordless login, its end, and the rest.    *)

\* A passwordless ceremony begins with a challenge nobody holds.
LEMMA PasswordlessBeginStep ==
  ASSUME LoginInv, NEW p \in Handlers, PasswordlessBegin(p)
  PROVE  LoginInv'
<1> USE DEF PasswordlessBegin
<1>0. LoginTypeOK
  BY DEF LoginInv
<1>1. PICK c \in Challenges \ issued :
        disco' = disco \cup {c} /\ issued' = issued \cup {c}
  OBVIOUS
<1>2. LoginTypeOK'
  BY <1>0, <1>1 DEF LoginTypeOK
<1>3. \A q \in Handlers, ch \in Challenges : Holds(q, ch)' => Holds(q, ch) /\ ch # c
  BY <1>1 DEF Holds, LoginInv, Ceremonies
<1>4. ceremony # c /\ wins[c] = 0
  BY <1>1 DEF LoginInv, Ceremonies
<1>5. Ceremonies'
  BY <1>1, <1>3, <1>4 DEF LoginInv, Ceremonies
<1>6. ChallengeOnce'
  BY DEF LoginInv, ChallengeOnce
<1>7. PendingLogins' /\ OneTryPerPending'
  BY <1>1, PendingKept
<1>8. Overrun'
  BY OverrunKept DEF Admitted
<1>9. PasswordLocals'
  BY DEF LoginInv, PasswordLocals
<1> QED BY <1>2, <1>5, <1>6, <1>7, <1>8, <1>9 DEF LoginInv

\* GETDEL: the passwordless ceremony passes to the request, or is dropped.
LEMMA PasswordlessFinishStep ==
  ASSUME LoginInv, NEW p \in Handlers, NEW c \in Challenges, NEW right \in BOOLEAN,
         PasswordlessFinish(p, c, right)
  PROVE  LoginInv'
<1> USE DEF PasswordlessFinish, history
<1>0. LoginTypeOK
  BY DEF LoginInv
<1>1. CASE UNCHANGED req
  <2>1. LoginTypeOK'
    BY <1>0, <1>1 DEF LoginTypeOK
  <2> QED BY <1>1, <2>1, QuietLogin
<1>2. CASE Begin(p, "complete", None, c)
  <2>1. /\ req' \in [Handlers -> LoginRequest]
        /\ \A q \in Handlers \ {p} : req'[q] = req[q]
        /\ req'[p].pc = "complete" /\ req'[p].challenge = c
    BY <1>0, <1>2, LoginBeginEffect DEF LoginPCs
  <2>2. LoginTypeOK'
    BY <1>0, <2>1 DEF LoginTypeOK
  <2>3. Ceremonies' /\ ChallengeOnce'
    BY <2>1, TakesCeremony
  <2>4. PendingLogins' /\ OneTryPerPending'
    BY <2>1, PendingKept
  <2>5. Overrun'
    BY <2>1, NotAdmitted, OverrunKept
  <2>6. PasswordLocals'
    BY <2>1 DEF LoginInv, PasswordLocals
  <2> QED BY <2>2, <2>3, <2>4, <2>5, <2>6 DEF LoginInv
<1> QED BY <1>1, <1>2

\* completeLogin uses up the challenge its request holds.
LEMMA CompleteStep ==
  ASSUME LoginInv, NEW p \in Handlers, Complete(p)
  PROVE  LoginInv'
<1> USE DEF Complete, redis
<1>0. LoginTypeOK
  BY DEF LoginInv
<1>1. /\ req' \in [Handlers -> LoginRequest]
      /\ \A q \in Handlers \ {p} : req'[q] = req[q]
      /\ req'[p].pc = "idle"
  BY <1>0, EndLoginEffect
<1>2. wins' \in [Challenges -> Nat]
  BY <1>0 DEF LoginTypeOK, More
<1>3. LoginTypeOK'
  BY <1>0, <1>1, <1>2 DEF LoginTypeOK
<1>4. \A ch \in Challenges :
        wins'[ch] # wins[ch] => Holds(p, ch) /\ wins[ch] = 0 /\ wins'[ch] = 1
  BY DEF Holds, LoginInv, Ceremonies, More
<1>5. \A q \in Handlers, ch \in Challenges :
        Holds(q, ch)' => Holds(q, ch) /\ ~Holds(p, ch)
  BY <1>1 DEF Holds, LoginInv, Ceremonies
<1>6. Ceremonies'
  BY <1>4, <1>5 DEF LoginInv, Ceremonies
<1>7. ChallengeOnce'
  BY <1>4 DEF LoginInv, ChallengeOnce
<1>8. PendingLogins' /\ OneTryPerPending'
  BY <1>1, PendingKept
<1>9. Overrun'
  BY <1>1, NotAdmitted, OverrunKept
<1>10. PasswordLocals'
  BY <1>1, GoesOn
<1> QED BY <1>3, <1>6, <1>7, <1>8, <1>9, <1>10 DEF LoginInv

\* A Redis command fails: the request ends, or goes on without the DEL.
LEMMA CommandFailsStep ==
  ASSUME LoginInv, NEW p \in Handlers, CommandFails(p)
  PROVE  LoginInv'
<1> USE DEF CommandFails, redis, history
<1>0. LoginTypeOK
  BY DEF LoginInv
<1>1. /\ req' \in [Handlers -> LoginRequest]
      /\ \A q \in Handlers \ {p} : req'[q] = req[q]
      /\ \/ req'[p].pc = "idle"
         \/ /\ req'[p].pc = "factors" /\ req[p].pc = "clear"
            /\ req'[p].challenge = req[p].challenge
  BY <1>0, EndLoginEffect, ProceedEffect
<1>2. req[p].pc = "clear" => req[p].challenge = None
  BY DEF LoginInv, PasswordLocals
<1>3. LoginTypeOK'
  BY <1>0, <1>1 DEF LoginTypeOK
<1> QED BY <1>1, <1>2, <1>3, QuietLogin

\* Steps of nobody's request: keys expire, an administrator unlocks or
\* deactivates the account, time passes.
LEMMA OtherLoginStep ==
  ASSUME LoginInv, UnlockUser \/ SetActive \/ Expire \/ Tick \/ UNCHANGED loginVars
  PROVE  LoginInv'
<1> USE DEF redis, history
<1>0. LoginTypeOK
  BY DEF LoginInv
<1>1. /\ req' = req /\ ceremony' \in {ceremony, None} /\ disco' \subseteq disco
      /\ UNCHANGED <<issued, tries, wins, factors>>
  BY DEF UnlockUser, SetActive, Expire, Tick, loginVars
<1>2. /\ pend' \in [Pending -> {"challenge", "setup", None}]
      /\ \A k \in Pending : pend'[k] # None => pend[k] # None
  BY <1>0 DEF LoginTypeOK, UnlockUser, SetActive, Expire, Tick, loginVars
<1>3. active' \in BOOLEAN
  <2>1. active' = ~active \/ active' = active
    BY DEF UnlockUser, SetActive, Expire, Tick, loginVars
  <2> QED BY <1>0, <2>1 DEF LoginTypeOK
<1>4. /\ fails' \in [Emails -> Nat] /\ lock' \in [Emails -> Nat]
      /\ overrun' \in [Emails -> Nat]
      /\ \A e \in Emails :
           lock'[e] > 0 => lock[e] > 0 /\ overrun'[e] = overrun[e]
  <2>1. CASE Tick
    BY <1>0, <2>1 DEF LoginTypeOK, Tick
  <2>2. CASE UnlockUser
    BY <1>0, <2>2, LoginAssumption, DelLockoutEffect DEF UnlockUser
  <2>3. CASE SetActive \/ Expire \/ UNCHANGED loginVars
    BY <1>0, <2>3 DEF LoginTypeOK, SetActive, Expire, loginVars
  <2> QED BY <2>1, <2>2, <2>3
<1>5. LoginTypeOK'
  BY <1>0, <1>1, <1>2, <1>3, <1>4 DEF LoginTypeOK
<1>6. Ceremonies' /\ ChallengeOnce'
  BY <1>1, CeremoniesKept DEF Holds
<1>7. PendingLogins' /\ OneTryPerPending'
  BY <1>1, <1>2, PendingKept
<1>8. Overrun'
  BY <1>1, <1>4, OverrunKept DEF Admitted
<1>9. PasswordLocals'
  BY <1>1 DEF LoginInv, PasswordLocals
<1> QED BY <1>5, <1>6, <1>7, <1>8, <1>9 DEF LoginInv

-----------------------------------------------------------------------------
(* The theorems about Login.                                               *)

\* Nothing is issued, held, locked or counted at the start.
LEMMA InitLoginInv == LoginInit => LoginInv
<1> SUFFICES ASSUME LoginInit PROVE LoginInv
  OBVIOUS
<1> USE DEF LoginInit
<1>1. \A p \in Handlers : req[p].pc = "idle"
  BY NoLoginType
<1>2. LoginTypeOK
  BY NoLoginType DEF LoginTypeOK
<1>3. PasswordLocals
  BY <1>1 DEF PasswordLocals
<1>4. Ceremonies /\ ChallengeOnce
  BY <1>1, LoginAssumption DEF Ceremonies, Holds, ChallengeOnce
<1>5. PendingLogins /\ OneTryPerPending
  BY <1>1 DEF PendingLogins, Guesses, OneTryPerPending
<1>6. Overrun
  BY DEF Overrun
<1> QED BY <1>2, <1>3, <1>4, <1>5, <1>6 DEF LoginInv

\* Every step of a request, of the administrator or of time keeps LoginInv.
LEMMA NextLoginInv == LoginInv /\ [LoginNext]_loginVars => LoginInv'
<1> SUFFICES ASSUME LoginInv, [LoginNext]_loginVars PROVE LoginInv'
  OBVIOUS
<1>1. ASSUME NEW p \in Handlers, Start(p) PROVE LoginInv'
  BY <1>1, CheckLockoutStep, MFAChallengeStep, WebAuthnLoginStep,
     PasswordlessBeginStep, PasswordlessFinishStep
  DEF Start, PendingRequest, PasswordlessRequest
<1>2. ASSUME NEW p \in Handlers, Step(p) PROVE LoginInv'
  BY <1>2, LoginCompareStep, IncrStep, SetLockStep, ClearStep, FactorsStep,
     SavePendingStep, SaveSessionStep, LoadSessionStep, ConsumePendingStep,
     SecondFactorStep, CompleteStep
  DEF Step
<1>3. ASSUME NEW p \in Handlers, CommandFails(p) PROVE LoginInv'
  BY <1>3, CommandFailsStep
<1>4. CASE UnlockUser \/ SetActive \/ Expire \/ Tick \/ UNCHANGED loginVars
  BY <1>4, OtherLoginStep
<1> QED BY <1>1, <1>2, <1>3, <1>4 DEF LoginNext

\* The keys of the lockout, the pending logins and the ceremonies keep their
\* types, and the strengthening holds, however requests interleave.
THEOREM LoginInvariance == LoginSpec => []LoginInv
<1>1. LoginInit => LoginInv
  BY InitLoginInv
<1>2. LoginInv /\ [LoginNext]_loginVars => LoginInv'
  BY NextLoginInv
<1> QED BY <1>1, <1>2, PTL DEF LoginSpec

\* webauthn.LoadSession is a GETDEL: an assertion for one challenge signs in at
\* most once, for any number of racing finishes and ceremonies.
THEOREM ChallengesSignInOnce == LoginSpec => []ChallengeOnce
<1>1. LoginInv => ChallengeOnce
  BY DEF LoginInv
<1> QED BY <1>1, LoginInvariance, PTL

\* MFAChallenge takes the pending login with a GETDEL before it looks at the
\* code: one password buys one guess, for any number of racing requests.
THEOREM OneGuessPerPassword == LoginSpec => []OneTryPerPending
<1>1. LoginInv => OneTryPerPending
  BY DEF LoginInv
<1> QED BY <1>1, LoginInvariance, PTL

\* checkLockout: once the lock of a spelling of the email is set, only requests
\* that were past it compare a password under that spelling, so fewer than there
\* are handlers, whatever the number of attempts allowed and the length of the
\* lockout.
THEOREM LockoutHolds == LoginSpec => []OverrunBounded
<1>1. LoginInv => OverrunBounded
  <2> SUFFICES ASSUME LoginInv, NEW e \in Emails, lock[e] > 0
               PROVE  overrun[e] < Cardinality(Handlers)
    BY DEF OverrunBounded
  <2>1. /\ overrun[e] + Cardinality(Admitted(e)) < Cardinality(Handlers)
        /\ overrun[e] \in Nat
    BY DEF LoginInv, Overrun, LoginTypeOK
  <2> QED BY <2>1, AdmittedFinite
<1> QED BY <1>1, LoginInvariance, PTL
===============================================================================
