---------------------------- MODULE SessionsProofs ----------------------------
(***************************************************************************)
(* Proofs about Sessions for every set of users, tokens and handlers, every *)
(* timeout and every schedule of statements.                               *)
(***************************************************************************)
EXTENDS Sessions, TLAPS

(***************************************************************************)
(* The strengthening.  A row lock is what turns "the row was live when it   *)
(* was selected" into "it is live when the rotation commits".              *)
(***************************************************************************)

\* Issued tokens: a row, a predecessor, a chain or an ended chain refers only
\* to tokens that were issued.
IssuedInv ==
  \A t \in Tokens :
    /\ row[t] # None => root[t] # None
    /\ parent[t] # None => root[t] # None /\ root[parent[t]] # None
    /\ root[t] # None => root[root[t]] # None
    /\ t \in ended => root[t] # None

\* A rotation under way holds the only lock on a row that is still live.
LockInv ==
  /\ \A p \in Procs :
       req[p].pc \in {"rotate", "generate", "commit", "reuse"} =>
         req[p].token \in Tokens /\ root[req[p].token] # None
  /\ \A p \in Procs :
       req[p].pc \in {"generate", "commit"} => Live(req[p].token)
  /\ \A p, q \in Procs :
       /\ req[p].pc \in {"generate", "commit"}
       /\ req[q].pc \in {"generate", "commit"}
       /\ req[p].token = req[q].token
       => p = q

\* A request that needs its user has one.
UserInv ==
  \A p \in Procs :
    /\ req[p].pc \in {"device_replaced", "evict", "evicted", "create"} =>
         req[p].user \in Users /\ req[p].device \in Devices
    /\ req[p].pc = "mass" => req[p].user \in Users

\* A live token has no successor yet.
LiveIsTip == \A s, t \in Tokens : Live(t) => parent[s] # t

Inv ==
  /\ TypeOK
  /\ IssuedInv
  /\ LockInv
  /\ UserInv
  /\ LiveIsTip
  /\ SingleSuccessor
  /\ OneLivePerChain
  /\ EndedStaysEnded
  /\ ChainDeadline
  /\ RotationMeansSuperseded

\* The part of the invariant that only the table and its history decide.
DbInv ==
  /\ IssuedInv
  /\ LiveIsTip
  /\ SingleSuccessor
  /\ OneLivePerChain
  /\ EndedStaysEnded
  /\ ChainDeadline
  /\ RotationMeansSuperseded

USE DEF Procs, At

-----------------------------------------------------------------------------
(* Helper lemmas.                                                          *)

\* The records the actions build are rows and requests.
LEMMA NewRowType ==
  ASSUME NEW u \in Users, NEW d \in Devices, NEW at \in Nat,
         NEW used \in Nat \cup {None}, NEW exp \in Nat
  PROVE  /\ NewRow(u, d, at, used, exp) \in Row
         /\ NewRow(u, d, at, used, exp) # None
         /\ ~NewRow(u, d, at, used, exp).revoked
         /\ NewRow(u, d, at, used, exp).expires = exp
         /\ NewRow(u, d, at, used, exp).reason = None
<1>1. NewRow(u, d, at, used, exp) \in Row
  BY DEF NewRow, Row
<1>2. NewRow(u, d, at, used, exp) # None
  BY <1>1, NoneAssumption
<1> QED BY <1>1, <1>2 DEF NewRow

\* Revoking a row keeps its owner and its expiry and sets only the reason given.
LEMMA RevokedType ==
  ASSUME NEW r \in Row, NEW why \in Reasons, NEW at \in Nat \cup {None}
  PROVE  /\ Revoked(r, why, at) \in Row
         /\ Revoked(r, why, at).revoked
         /\ Revoked(r, why, at).reason = why
         /\ Revoked(r, why, at).expires = r.expires
         /\ Revoked(r, why, at).user = r.user
BY DEF Revoked, Row

\* A finished request is an idle one.
LEMMA DoneType == Done \in Request /\ Done.pc = "idle"
BY DEF Done, Request, PCs

\* A step that leaves the table alone keeps everything the table decides.
LEMMA DbUnchanged ==
  ASSUME DbInv, UNCHANGED db
  PROVE  DbInv'
BY DEF DbInv, db, IssuedInv, LiveIsTip, SingleSuccessor, OneLivePerChain,
       EndedStaysEnded, ChainDeadline, RotationMeansSuperseded, Live

\* A statement that revokes live rows or deletes rows, and ends the chains of
\* the live ones among them.
Shrink(S) ==
  /\ \A t \in Tokens \ S : row'[t] = row[t]
  /\ \A t \in S : \/ row'[t] = None
                  \/ /\ row[t] # None
                     /\ row'[t].revoked
                     /\ row'[t].reason = "deliberate"
                     /\ row'[t].expires = row[t].expires
  /\ ended' = ended \cup {root[t] : t \in {s \in S : Live(s)}}
  /\ UNCHANGED <<root, parent, deadline>>

\* Revoking and deleting rows keeps everything the table decides.
LEMMA ShrinkKeepsDb ==
  ASSUME TypeOK, DbInv, NEW S \in SUBSET Tokens, Shrink(S)
  PROVE  DbInv'
<1>1. ASSUME NEW t \in Tokens, Live(t)' PROVE t \notin S /\ Live(t)
  BY <1>1 DEF Live, Shrink
<1>2. IssuedInv'
  <2>1. ASSUME NEW t \in Tokens, t \in ended' PROVE root[t] # None
    <3>1. CASE t \in ended
      BY <3>1 DEF DbInv, IssuedInv
    <3>2. CASE \E s \in S : Live(s) /\ t = root[s]
      <4>1. PICK s \in S : Live(s) /\ t = root[s]
        BY <3>2
      <4>2. row[s] # None /\ s \in Tokens
        BY <4>1 DEF Live
      <4> QED BY <4>1, <4>2 DEF DbInv, IssuedInv
    <3> QED BY <2>1, <3>1, <3>2 DEF Shrink
  <2>2. ASSUME NEW t \in Tokens, row'[t] # None PROVE row[t] # None
    BY <2>2 DEF Shrink
  <2> QED BY <2>1, <2>2 DEF DbInv, IssuedInv, Shrink
<1>3. LiveIsTip' /\ SingleSuccessor' /\ OneLivePerChain'
  BY <1>1 DEF DbInv, LiveIsTip, SingleSuccessor, OneLivePerChain, Shrink
<1>4. EndedStaysEnded'
  <2> SUFFICES ASSUME NEW t \in Tokens, Live(t)' PROVE root[t] \notin ended'
    BY DEF EndedStaysEnded, Shrink
  <2>1. t \notin S /\ Live(t)
    BY <1>1
  <2>2. root[t] \notin ended
    BY <2>1 DEF DbInv, EndedStaysEnded
  <2>3. \A s \in S : Live(s) => root[s] # root[t]
    BY <2>1 DEF DbInv, OneLivePerChain
  <2> QED BY <2>2, <2>3 DEF Shrink
<1>5. ChainDeadline'
  BY DEF DbInv, ChainDeadline, Shrink
<1>6. RotationMeansSuperseded'
  BY DEF DbInv, RotationMeansSuperseded, Shrink
<1> QED BY <1>2, <1>3, <1>4, <1>5, <1>6 DEF DbInv

\* One request changes to a step that holds no lock; the rows the others have
\* locked stay live.
LEMMA LockLeft ==
  ASSUME LockInv, NEW p \in Procs,
         \A q \in Procs \ {p} : req'[q] = req[q],
         req'[p].pc \notin {"rotate", "generate", "commit", "reuse"},
         \A t \in Tokens : root[t] # None => root'[t] # None,
         \A q \in Procs \ {p} :
           req[q].pc \in {"generate", "commit"} =>
             row'[req[q].token] # None /\ ~row'[req[q].token].revoked
  PROVE  LockInv'
BY DEF LockInv, Live

\* The request a Goto, a Finish or a Begin leaves behind.
LEMMA GotoEffect ==
  ASSUME TypeOK, NEW p \in Procs, NEW pc \in PCs, Goto(p, pc)
  PROVE  /\ req' \in [Procs -> Request]
         /\ \A q \in Procs \ {p} : req'[q] = req[q]
         /\ req'[p].pc = pc
         /\ req'[p].token = req[p].token
         /\ req'[p].user = req[p].user
         /\ req'[p].device = req[p].device
BY DEF TypeOK, Request, Goto

\* Finish leaves an idle request.
LEMMA FinishEffect ==
  ASSUME TypeOK, NEW p \in Procs, Finish(p)
  PROVE  /\ req' \in [Procs -> Request]
         /\ \A q \in Procs \ {p} : req'[q] = req[q]
         /\ req'[p].pc = "idle"
BY DoneType DEF TypeOK, Finish

\* Begin leaves the request it was given, with a typed snapshot.
LEMMA BeginEffect ==
  ASSUME TypeOK, NEW p \in Procs, NEW pc \in PCs, NEW u \in Users \cup {None},
         NEW t \in Tokens \cup {None}, NEW d \in Devices \cup {None},
         NEW now \in Nat, NEW S \in SUBSET Tokens,
         Begin(p, pc, u, t, d, now, S)
  PROVE  /\ req' \in [Procs -> Request]
         /\ \A q \in Procs \ {p} : req'[q] = req[q]
         /\ req'[p].pc = pc
         /\ req'[p].token = t
         /\ req'[p].user = u
         /\ req'[p].device = d
BY DEF TypeOK, Request, Begin

-----------------------------------------------------------------------------
(* Steps that leave the table alone.                                       *)

\* What is left to show of a step with UNCHANGED db.
LEMMA QuietStep ==
  ASSUME Inv, UNCHANGED db, clock' \in Nat, active' \in [Users -> BOOLEAN],
         NEW p \in Procs, req' \in [Procs -> Request],
         \A q \in Procs \ {p} : req'[q] = req[q],
         req'[p].pc \notin {"rotate", "generate", "commit", "reuse"},
         req'[p].pc \in {"device_replaced", "evict", "evicted", "create"} =>
           req'[p].user \in Users /\ req'[p].device \in Devices,
         req'[p].pc = "mass" => req'[p].user \in Users
  PROVE  Inv'
<1>1. TypeOK'
  BY DEF Inv, TypeOK, db
<1>2. LockInv'
  BY LockLeft DEF Inv, LockInv, db, Live
<1>3. UserInv'
  BY DEF Inv, UserInv
<1>4. DbInv'
  BY DbUnchanged DEF Inv, DbInv
<1> QED BY <1>1, <1>2, <1>3, <1>4 DEF Inv, DbInv

\* A statement begins: only its own request changes.
LEMMA BeginQuiet ==
  ASSUME Inv, UNCHANGED <<clock, db>>, active' \in [Users -> BOOLEAN],
         NEW p \in Procs, NEW pc \in PCs, NEW u \in Users \cup {None},
         NEW t \in Tokens \cup {None}, NEW d \in Devices \cup {None},
         NEW now \in Nat, NEW S \in SUBSET Tokens,
         Begin(p, pc, u, t, d, now, S),
         pc \notin {"rotate", "generate", "commit", "reuse"},
         pc \in {"device_replaced", "evict", "evicted", "create"} =>
           u \in Users /\ d \in Devices,
         pc = "mass" => u \in Users
  PROVE  Inv'
<1>1. TypeOK
  BY DEF Inv
<1>2. /\ req' \in [Procs -> Request]
      /\ \A q \in Procs \ {p} : req'[q] = req[q]
      /\ req'[p].pc = pc
      /\ req'[p].user = u
      /\ req'[p].device = d
  BY <1>1, BeginEffect
<1>3. UNCHANGED db /\ clock' \in Nat
  BY <1>1 DEF TypeOK
<1> QED BY <1>2, <1>3, QuietStep

\* A request that ends without writing keeps the invariant.
LEMMA FinishQuiet ==
  ASSUME Inv, UNCHANGED <<clock, active, db>>, NEW p \in Procs, Finish(p)
  PROVE  Inv'
<1>1. TypeOK
  BY DEF Inv
<1>2. /\ req' \in [Procs -> Request]
      /\ \A q \in Procs \ {p} : req'[q] = req[q]
      /\ req'[p].pc = "idle"
  BY <1>1, FinishEffect
<1>3. UNCHANGED db /\ clock' \in Nat /\ active' \in [Users -> BOOLEAN]
  BY <1>1 DEF TypeOK
<1> QED BY <1>2, <1>3, QuietStep

\* completeLogin takes the snapshot of RevokeForDevice.
LEMMA BeginLoginStep ==
  ASSUME Inv, NEW p \in Handlers, NEW u \in Users, NEW d \in Devices,
         BeginLogin(p, u, d)
  PROVE  Inv'
<1> DEFINE S == {t \in Tokens : DeviceWhere(t, u, d, clock)}
<1>1. Begin(p, "device_replaced", u, None, d, clock, S)
  BY DEF BeginLogin
<1>2. S \in SUBSET Tokens /\ "device_replaced" \in PCs
  BY DEF PCs
<1> HIDE DEF S
<1>3. TypeOK /\ p \in Procs /\ clock \in Nat
  BY DEF Inv, TypeOK
<1> QED BY <1>1, <1>2, <1>3, BeginQuiet DEF BeginLogin, TypeOK

\* EvictExcessSessions takes its snapshot.
LEMMA BeginEvictStep ==
  ASSUME Inv, NEW p \in Handlers, BeginEvict(p)
  PROVE  Inv'
<1>1. PICK S \in SUBSET Tokens :
        Begin(p, "evicted", req[p].user, None, req[p].device, 0, S)
  BY DEF BeginEvict, LiveOf
<1>2. TypeOK /\ p \in Procs /\ clock \in Nat /\ "evicted" \in PCs
  BY DEF Inv, TypeOK, PCs
<1>3. req[p].user \in Users /\ req[p].device \in Devices
  BY <1>2 DEF BeginEvict, Inv, UserInv
<1> QED BY <1>1, <1>2, <1>3, BeginQuiet DEF BeginEvict, TypeOK

\* RevokeAllForUser takes its snapshot.
LEMMA BeginRevokeAllStep ==
  ASSUME Inv, NEW p \in Handlers, NEW u \in Users,
         \/ BeginRevokeAll(p, u)
         \/ ContinueRevokeAll(p) /\ u = req[p].user
  PROVE  Inv'
<1>1. Begin(p, "mass_revoke", u, None, None, 0, LiveOf(u))
  BY DEF BeginRevokeAll, ContinueRevokeAll
<1>2. TypeOK /\ p \in Procs /\ clock \in Nat /\ "mass_revoke" \in PCs
  BY DEF Inv, TypeOK, PCs
<1>3. LiveOf(u) \in SUBSET Tokens
  BY DEF LiveOf
<1>4. UNCHANGED <<clock, active, db>>
  BY DEF BeginRevokeAll, ContinueRevokeAll
<1> QED BY <1>1, <1>2, <1>3, <1>4, BeginQuiet DEF TypeOK

\* SetStatus changes only users.is_active and its own request.
LEMMA SetStatusStep ==
  ASSUME Inv, NEW p \in Handlers, NEW u \in Users, SetStatus(p, u)
  PROVE  Inv'
<1>1. TypeOK /\ p \in Procs /\ clock \in Nat /\ "mass" \in PCs
  BY DEF Inv, TypeOK, PCs
<1>2. active' \in [Users -> BOOLEAN] /\ UNCHANGED <<clock, db>>
  BY <1>1 DEF SetStatus, TypeOK
<1>3. CASE active[u]
  <2>1. Begin(p, "mass", u, None, None, 0, {})
    BY <1>3 DEF SetStatus
  <2> QED BY <1>1, <1>2, <2>1, BeginQuiet
<1>4. CASE ~active[u]
  <2>1. req' = req /\ req[p].pc = "idle"
    BY <1>4 DEF SetStatus
  <2> QED BY <1>1, <1>2, <2>1, QuietStep DEF TypeOK
<1> QED BY <1>3, <1>4

\* RevokeOtherSessions takes its snapshot.
LEMMA BeginRevokeOthersStep ==
  ASSUME Inv, NEW p \in Handlers, NEW t \in Tokens, BeginRevokeOthers(p, t)
  PROVE  Inv'
<1> DEFINE S == {s \in Tokens : OthersWhere(s, row[t].user, t, clock)}
<1>1. Begin(p, "revoke_others", row[t].user, t, None, clock, S)
  BY DEF BeginRevokeOthers
<1>2. S \in SUBSET Tokens /\ "revoke_others" \in PCs
  BY DEF PCs
<1> HIDE DEF S
<1>3. TypeOK /\ p \in Procs /\ clock \in Nat
  BY DEF Inv, TypeOK
<1>4. row[t].user \in Users
  BY <1>3 DEF BeginRevokeOthers, Live, TypeOK, Row
<1> QED BY <1>1, <1>2, <1>3, <1>4, BeginQuiet
        DEF BeginRevokeOthers, TypeOK

\* The cleanup worker takes a snapshot.
LEMMA BeginCleanupStep ==
  ASSUME Inv, BeginRevokeStale \/ BeginDeleteExpired
  PROVE  Inv'
<1>1. PICK S \in SUBSET Tokens, pc \in {"stale_initial", "purge"} :
        Begin(Worker, pc, None, None, None, clock, S)
  BY DEF BeginRevokeStale, BeginDeleteExpired
<1>2. TypeOK /\ Worker \in Procs /\ clock \in Nat /\ pc \in PCs
  BY DEF Inv, TypeOK, PCs
<1>3. UNCHANGED <<clock, active, db>>
  BY DEF BeginRevokeStale, BeginDeleteExpired
<1> QED BY <1>1, <1>2, <1>3, BeginQuiet DEF TypeOK

\* Presenting a token: the request now refers to an issued token.
LEMMA RefreshStep ==
  ASSUME Inv, NEW p \in Handlers, NEW t \in Tokens, Refresh(p, t)
  PROVE  Inv'
<1>1. Begin(p, "rotate", None, t, None, clock, {})
  BY DEF Refresh
<1>2. TypeOK /\ p \in Procs /\ clock \in Nat /\ "rotate" \in PCs
  BY DEF Inv, TypeOK, PCs
<1>3. /\ req' \in [Procs -> Request]
      /\ \A q \in Procs \ {p} : req'[q] = req[q]
      /\ req'[p].pc = "rotate"
      /\ req'[p].token = t
  BY <1>1, <1>2 DEF Begin, TypeOK, Request
<1>4. UNCHANGED <<clock, active, db>> /\ root[t] # None
  BY DEF Refresh
<1>5. TypeOK'
  BY <1>2, <1>3, <1>4 DEF TypeOK, db
<1>6. LockInv'
  <2>1. \A q \in Procs :
          /\ req'[q].pc \in {"generate", "commit"} => q # p
          /\ q # p => req'[q] = req[q]
    BY <1>3
  <2> QED BY <1>3, <1>4, <2>1 DEF Inv, LockInv, db, Live
<1>7. UserInv'
  BY <1>3 DEF Inv, UserInv
<1>8. DbInv'
  BY <1>4, DbUnchanged DEF Inv, DbInv
<1> QED BY <1>5, <1>6, <1>7, <1>8 DEF Inv, DbInv

\* Moving on inside RefreshTokens without leaving it: a lock is taken only
\* when nobody else holds it and the row is live.
LEMMA RotatePcStep ==
  ASSUME Inv, NEW p \in Procs, NEW pc \in {"generate", "commit", "reuse"},
         req[p].pc \in {"rotate", "generate", "commit"},
         Goto(p, pc), UNCHANGED <<clock, active, db>>,
         pc \in {"generate", "commit"} =>
           /\ Live(req[p].token)
           /\ \/ Unlocked({req[p].token})
              \/ req[p].pc \in {"generate", "commit"}
  PROVE  Inv'
<1>1. TypeOK /\ pc \in PCs
  BY DEF Inv, PCs
<1>2. /\ req' \in [Procs -> Request]
      /\ \A q \in Procs \ {p} : req'[q] = req[q]
      /\ req'[p].pc = pc
      /\ req'[p].token = req[p].token
  BY <1>1, GotoEffect
<1>3. TypeOK'
  BY <1>1, <1>2 DEF TypeOK, db
<1>4. LockInv'
  <2>1. /\ req[p].token \in Tokens
        /\ root[req[p].token] # None
    BY DEF Inv, LockInv
  <2>2. \A q \in Procs \ {p} :
          /\ req[q].pc \in {"generate", "commit"}
          /\ pc \in {"generate", "commit"}
          => req[q].token # req[p].token
    BY DEF Inv, LockInv, Unlocked, LockedBy
  <2> QED BY <1>2, <2>1, <2>2 DEF Inv, LockInv, db, Live
<1>5. UserInv'
  BY <1>2 DEF Inv, UserInv
<1>6. DbInv'
  BY DbUnchanged DEF Inv, DbInv
<1> QED BY <1>3, <1>4, <1>5, <1>6 DEF Inv, DbInv

\* SELECT ... FOR UPDATE takes the lock, or finds no live row.
LEMMA RotateSelectStep ==
  ASSUME Inv, NEW p \in Handlers, RotateSelect(p)
  PROVE  Inv'
<1> DEFINE pc == IF RotateWhere(req[p].token, req[p].at)
                   THEN "generate" ELSE "reuse"
<1>1. Goto(p, pc) /\ req[p].pc = "rotate" /\ Unlocked({req[p].token})
  BY DEF RotateSelect
<1>2. pc \in {"generate", "commit", "reuse"}
  OBVIOUS
<1>3. pc = "generate" => Live(req[p].token)
  BY DEF RotateWhere
<1>4. pc # "commit" /\ p \in Procs /\ UNCHANGED <<clock, active, db>>
  BY DEF RotateSelect
<1> HIDE DEF pc
<1> QED BY <1>1, <1>2, <1>3, <1>4, RotatePcStep

\* The generate callback keeps the lock, or rolls back.
LEMMA GenerateStep ==
  ASSUME Inv, NEW p \in Handlers, Generate(p)
  PROVE  Inv'
<1> DEFINE pc == IF MayRotate(req[p].token) THEN "commit" ELSE "reuse"
<1>1. Goto(p, pc) /\ req[p].pc = "generate"
  BY DEF Generate
<1>2. pc \in {"generate", "commit", "reuse"} /\ p \in Procs
  OBVIOUS
<1>3. Live(req[p].token)
  BY <1>1 DEF Inv, LockInv
<1>4. UNCHANGED <<clock, active, db>>
  BY DEF Generate
<1> HIDE DEF pc
<1> QED BY <1>1, <1>2, <1>3, <1>4, RotatePcStep

\* CheckReuse writes nothing.
LEMMA CheckReuseStep ==
  ASSUME Inv, NEW p \in Handlers, CheckReuse(p)
  PROVE  Inv'
<1>1. TypeOK /\ p \in Procs /\ "mass" \in PCs
  BY DEF Inv, PCs
<1>2. UNCHANGED <<clock, active, db>> /\ req[p].pc = "reuse"
  BY DEF CheckReuse
<1>3. CASE IsReuse(req[p].token)
  <2> DEFINE u == row[req[p].token].user
  <2>1. Begin(p, "mass", u, None, None, 0, {})
    BY <1>3 DEF CheckReuse
  <2>2. u \in Users
    BY <1>1, <1>2, <1>3 DEF IsReuse, Inv, LockInv, TypeOK, Row
  <2>3. active' \in [Users -> BOOLEAN] /\ UNCHANGED <<clock, db>>
    BY <1>1, <1>2 DEF TypeOK
  <2> HIDE DEF u
  <2> QED BY <1>1, <2>1, <2>2, <2>3, BeginQuiet
<1>4. CASE ~IsReuse(req[p].token)
  <2>1. Finish(p)
    BY <1>4 DEF CheckReuse
  <2> QED BY <1>1, <1>2, <2>1, FinishQuiet
<1> QED BY <1>3, <1>4

\* A failed statement leaves the table alone and drops the lock, if any.
LEMMA StatementFailsStep ==
  ASSUME Inv, NEW p \in Procs, StatementFails(p)
  PROVE  Inv'
<1>1. TypeOK /\ {"evict", "create", "reuse"} \subseteq PCs
  BY DEF Inv, PCs
<1>2. UNCHANGED <<clock, active, db>>
  BY DEF StatementFails
<1>3. CASE \/ At(p, "device_replaced") /\ Goto(p, "evict")
           \/ At(p, "evicted") /\ Goto(p, "create")
  <2>1. PICK pc \in {"evict", "create"} : Goto(p, pc)
    BY <1>3
  <2>2. req[p].user \in Users /\ req[p].device \in Devices
    BY <1>3 DEF Inv, UserInv
  <2>3. pc \in PCs
    BY <1>1
  <2> HIDE DEF Goto
  <2> QED BY <1>1, <1>2, <2>1, <2>2, <2>3, GotoEffect, QuietStep DEF TypeOK
<1>4. CASE req[p].pc \in {"rotate", "generate", "commit"} /\ Goto(p, "reuse")
  BY <1>2, <1>4, RotatePcStep
<1>5. CASE Finish(p)
  BY <1>1, <1>2, <1>5, FinishQuiet
<1> QED BY <1>3, <1>4, <1>5 DEF StatementFails

\* The passing of time writes nothing.
LEMMA TickStep ==
  ASSUME Inv, Tick
  PROVE  Inv'
<1>1. TypeOK'
  BY DEF Inv, Tick, TypeOK
<1>2. DbInv'
  BY DbUnchanged DEF Inv, DbInv, Tick, db
<1>3. LockInv' /\ UserInv'
  BY DEF Inv, LockInv, UserInv, Tick, Live
<1> QED BY <1>1, <1>2, <1>3 DEF Inv, DbInv

-----------------------------------------------------------------------------
(* Steps that revoke or delete rows.                                       *)

\* A multi-row statement is applied: it waited for the locks, so no row that
\* a rotation holds is touched.
LEMMA ShrinkStep ==
  ASSUME Inv, NEW S \in SUBSET Tokens, Shrink(S), Unlocked(S),
         row' \in [Tokens -> Row \cup {None}], UNCHANGED <<clock, active>>,
         NEW p \in Procs, req' \in [Procs -> Request],
         \A q \in Procs \ {p} : req'[q] = req[q],
         \/ req' = req
         \/ req'[p].pc \notin {"rotate", "generate", "commit", "reuse"},
         req'[p].pc \in {"device_replaced", "evict", "evicted", "create"} =>
           req'[p].user \in Users /\ req'[p].device \in Devices,
         req'[p].pc = "mass" => req'[p].user \in Users
  PROVE  Inv'
<1>1. DbInv'
  BY ShrinkKeepsDb DEF Inv, DbInv
<1>2. ended' \subseteq Tokens
  <2>1. \A t \in S : Live(t) => root[t] \in Tokens
    BY DEF Inv, TypeOK, IssuedInv, Live
  <2> QED BY <2>1 DEF Inv, TypeOK, Shrink
<1>3. TypeOK'
  BY <1>2 DEF Inv, TypeOK, Shrink
<1>4. \A q \in Procs :
        req[q].pc \in {"generate", "commit"} =>
          row'[req[q].token] # None /\ ~row'[req[q].token].revoked
  <2> SUFFICES ASSUME NEW q \in Procs, req[q].pc \in {"generate", "commit"}
               PROVE  row'[req[q].token] # None /\ ~row'[req[q].token].revoked
    OBVIOUS
  <2>1. req[q].token \in Tokens /\ Live(req[q].token)
    BY DEF Inv, LockInv
  <2>2. req[q].token \notin S
    BY DEF Unlocked, LockedBy
  <2>3. row'[req[q].token] = row[req[q].token]
    BY <2>1, <2>2 DEF Shrink
  <2> QED BY <2>1, <2>3 DEF Live
<1>5. LockInv'
  <2>1. CASE req' = req
    BY <1>4, <2>1 DEF Inv, LockInv, Shrink, Live
  <2>2. CASE req'[p].pc \notin {"rotate", "generate", "commit", "reuse"}
    BY <1>4, <2>2, LockLeft DEF Inv, Shrink
  <2> QED BY <2>1, <2>2
<1>6. UserInv'
  BY DEF Inv, UserInv
<1> QED BY <1>1, <1>3, <1>5, <1>6 DEF Inv, DbInv

\* RevokeRows and RevokeRowsUntouched on live rows are such statements.
LEMMA RevokeShrinks ==
  ASSUME TypeOK, NEW S \in SUBSET Tokens, \A t \in S : Live(t),
         RevokeRowsUntouched(S) \/ (\E at \in Nat : RevokeRows(S, at))
  PROVE  /\ Shrink(S)
         /\ Unlocked(S)
         /\ row' \in [Tokens -> Row \cup {None}]
         /\ UNCHANGED <<clock, active>>
<1>1. \A t \in S : row[t] \in Row
  BY DEF TypeOK, Live
<1>2. \A t \in Tokens \ S : row'[t] = row[t]
  BY DEF RevokeRows, RevokeRowsUntouched
<1>3. ASSUME NEW t \in S
      PROVE  \E at \in Nat \cup {None} :
               row'[t] = Revoked(row[t], "deliberate", at)
  <2>1. row[t].lastUsed \in Nat \cup {None}
    BY <1>1 DEF Row
  <2> QED BY <2>1 DEF RevokeRows, RevokeRowsUntouched
<1>4. \A t \in S : /\ row'[t] \in Row
                   /\ row'[t].revoked
                   /\ row'[t].reason = "deliberate"
                   /\ row'[t].expires = row[t].expires
  BY <1>1, <1>3, RevokedType DEF Reasons
<1>5. {s \in S : Live(s)} = S
  OBVIOUS
<1>6. Unlocked(S) /\ UNCHANGED <<clock, active, root, parent, deadline>>
  BY DEF RevokeRows, RevokeRowsUntouched
<1>7. ended' = ended \cup {root[t] : t \in S}
  BY DEF RevokeRows, RevokeRowsUntouched, EndChains
<1>8. row' \in [Tokens -> Row \cup {None}]
  <2>1. \A t \in Tokens : row'[t] \in Row \cup {None}
    BY <1>2, <1>4 DEF TypeOK
  <2>2. \E f : row' = [t \in Tokens |-> f[t]]
    BY DEF RevokeRows, RevokeRowsUntouched
  <2> QED BY <2>1, <2>2
<1>9. Shrink(S)
  BY <1>2, <1>4, <1>5, <1>6, <1>7 DEF Shrink, Live
<1> QED BY <1>6, <1>8, <1>9

\* RevokeForDevice revokes live rows of the snapshot; the login goes on.
LEMMA RevokeForDeviceStep ==
  ASSUME Inv, NEW p \in Handlers, RevokeForDevice(p)
  PROVE  Inv'
<1> DEFINE S == {t \in req[p].snap :
                   DeviceWhere(t, req[p].user, req[p].device, req[p].at)}
<1>1. TypeOK /\ p \in Procs /\ "evict" \in PCs
  BY DEF Inv, PCs
<1>2. S \in SUBSET Tokens /\ req[p].at \in Nat /\ \A t \in S : Live(t)
  BY <1>1 DEF TypeOK, Request, DeviceWhere
<1>3. RevokeRows(S, req[p].at) /\ Goto(p, "evict")
  BY DEF RevokeForDevice
<1>4. req[p].user \in Users /\ req[p].device \in Devices
  BY <1>1 DEF Inv, UserInv, RevokeForDevice
<1> HIDE DEF S
<1>5. /\ Shrink(S)
      /\ Unlocked(S)
      /\ row' \in [Tokens -> Row \cup {None}]
      /\ UNCHANGED <<clock, active>>
  BY <1>1, <1>2, <1>3, RevokeShrinks
<1>6. /\ req' \in [Procs -> Request]
      /\ \A q \in Procs \ {p} : req'[q] = req[q]
      /\ req'[p].pc = "evict"
      /\ req'[p].user = req[p].user
      /\ req'[p].device = req[p].device
  BY <1>1, <1>3, GotoEffect
<1> QED BY <1>1, <1>2, <1>4, <1>5, <1>6, ShrinkStep

\* EvictExcessSessions revokes live rows of the snapshot; the login goes on.
LEMMA EvictStep ==
  ASSUME Inv, NEW p \in Handlers, EvictExcessSessions(p)
  PROVE  Inv'
<1> DEFINE S == {t \in req[p].snap : Live(t)}
<1>1. TypeOK /\ p \in Procs /\ "create" \in PCs
  BY DEF Inv, PCs
<1>2. S \in SUBSET Tokens /\ \A t \in S : Live(t)
  BY <1>1 DEF TypeOK, Request
<1>3. RevokeRowsUntouched(S) /\ Goto(p, "create")
  BY DEF EvictExcessSessions
<1>4. req[p].user \in Users /\ req[p].device \in Devices
  BY <1>1 DEF Inv, UserInv, EvictExcessSessions
<1> HIDE DEF S
<1>5. /\ Shrink(S)
      /\ Unlocked(S)
      /\ row' \in [Tokens -> Row \cup {None}]
      /\ UNCHANGED <<clock, active>>
  BY <1>1, <1>2, <1>3, RevokeShrinks
<1>6. /\ req' \in [Procs -> Request]
      /\ \A q \in Procs \ {p} : req'[q] = req[q]
      /\ req'[p].pc = "create"
      /\ req'[p].user = req[p].user
      /\ req'[p].device = req[p].device
  BY <1>1, <1>3, GotoEffect
<1> QED BY <1>1, <1>2, <1>4, <1>5, <1>6, ShrinkStep

\* A revocation that is the last statement of its request or cleanup run.
LEMMA LastRevocation ==
  ASSUME Inv, NEW p \in Procs, NEW S \in SUBSET Tokens, \A t \in S : Live(t),
         RevokeRowsUntouched(S) \/ (\E at \in Nat : RevokeRows(S, at)),
         Finish(p)
  PROVE  Inv'
<1>1. TypeOK
  BY DEF Inv
<1>2. /\ Shrink(S)
      /\ Unlocked(S)
      /\ row' \in [Tokens -> Row \cup {None}]
      /\ UNCHANGED <<clock, active>>
  BY <1>1, RevokeShrinks
<1>3. /\ req' \in [Procs -> Request]
      /\ \A q \in Procs \ {p} : req'[q] = req[q]
      /\ req'[p].pc = "idle"
  BY <1>1, FinishEffect
<1> QED BY <1>2, <1>3, ShrinkStep

\* RevokeAllForUser revokes live rows of its snapshot.
LEMMA RevokeAllStep ==
  ASSUME Inv, NEW p \in Handlers, RevokeAllForUser(p)
  PROVE  Inv'
<1> DEFINE S == {t \in req[p].snap : Live(t)}
<1>1. S \in SUBSET Tokens /\ p \in Procs /\ \A t \in S : Live(t)
  BY DEF Inv, TypeOK, Request
<1>2. RevokeRowsUntouched(S) /\ Finish(p)
  BY DEF RevokeAllForUser
<1> HIDE DEF S
<1> QED BY <1>1, <1>2, LastRevocation

\* RevokeOtherSessions revokes live rows of its snapshot.
LEMMA RevokeOthersStep ==
  ASSUME Inv, NEW p \in Handlers, RevokeOtherSessions(p)
  PROVE  Inv'
<1> DEFINE S == {t \in req[p].snap :
                   OthersWhere(t, req[p].user, req[p].token, req[p].at)}
<1>1. /\ S \in SUBSET Tokens /\ p \in Procs /\ req[p].at \in Nat
      /\ \A t \in S : Live(t)
  BY DEF Inv, TypeOK, Request, OthersWhere
<1>2. RevokeRows(S, req[p].at) /\ Finish(p)
  BY DEF RevokeOtherSessions
<1> HIDE DEF S
<1> QED BY <1>1, <1>2, LastRevocation

\* RevokeStaleInitialSessions revokes live rows of its snapshot.
LEMMA RevokeStaleStep ==
  ASSUME Inv, RevokeStaleInitialSessions
  PROVE  Inv'
<1> DEFINE S == {t \in req[Worker].snap : StaleWhere(t, req[Worker].at)}
<1>1. /\ S \in SUBSET Tokens /\ Worker \in Procs /\ req[Worker].at \in Nat
      /\ \A t \in S : Live(t)
  BY DEF Inv, TypeOK, Request, StaleWhere
<1>2. RevokeRows(S, req[Worker].at) /\ Finish(Worker)
  BY DEF RevokeStaleInitialSessions
<1> HIDE DEF S
<1> QED BY <1>1, <1>2, LastRevocation

\* Logout and RevokeByID revoke one live row.
LEMMA RevokeStep ==
  ASSUME Inv, NEW p \in Handlers, NEW t \in Tokens,
         Logout(p, t) \/ RevokeByID(p, t)
  PROVE  Inv'
<1>1. TypeOK /\ p \in Procs /\ clock \in Nat
  BY DEF Inv, TypeOK
<1>2. RevokeRows({t}, clock) /\ Live(t) /\ UNCHANGED req
  BY DEF Logout, RevokeByID
<1>3. {t} \in SUBSET Tokens /\ \A s \in {t} : Live(s)
  BY <1>2
<1>4. /\ Shrink({t})
      /\ Unlocked({t})
      /\ row' \in [Tokens -> Row \cup {None}]
      /\ UNCHANGED <<clock, active>>
  BY <1>1, <1>2, <1>3, RevokeShrinks
<1>5. req' \in [Procs -> Request] /\ req'[p].pc = "idle"
  BY <1>1, <1>2 DEF TypeOK, Logout, RevokeByID, At
<1> QED BY <1>1, <1>2, <1>3, <1>4, <1>5, ShrinkStep

\* DeleteExpired removes unlocked rows and ends the chains of the live ones.
LEMMA DeleteExpiredStep ==
  ASSUME Inv, DeleteExpired
  PROVE  Inv'
<1> DEFINE S == {t \in req[Worker].snap : PurgeWhere(t, req[Worker].at)}
<1>1. TypeOK /\ Worker \in Procs
  BY DEF Inv
<1>2. S \in SUBSET Tokens
  BY <1>1 DEF TypeOK, Request
<1>3. /\ Unlocked(S)
      /\ row' = [t \in Tokens |-> IF t \in S THEN None ELSE row[t]]
      /\ ended' = ended \cup {root[t] : t \in {s \in S : Live(s)}}
      /\ Finish(Worker)
      /\ UNCHANGED <<clock, active, root, parent, deadline>>
  BY DEF DeleteExpired, EndChains
<1> HIDE DEF S
<1>4. Shrink(S) /\ row' \in [Tokens -> Row \cup {None}]
  BY <1>1, <1>2, <1>3 DEF Shrink, TypeOK
<1>5. /\ req' \in [Procs -> Request]
      /\ \A q \in Procs \ {Worker} : req'[q] = req[q]
      /\ req'[Worker].pc = "idle"
  BY <1>1, <1>3, FinishEffect
<1> QED BY <1>1, <1>2, <1>3, <1>4, <1>5, ShrinkStep

-----------------------------------------------------------------------------
(* Steps that insert a row.                                                *)

\* The INSERT of a login starts a chain of its own.
LEMMA CreateStep ==
  ASSUME Inv, NEW p \in Handlers, Create(p)
  PROVE  Inv'
<1>1. TypeOK /\ p \in Procs /\ clock \in Nat /\ clock + Absolute \in Nat
  BY TimeAssumption DEF Inv, TypeOK
<1>2. req[p].user \in Users /\ req[p].device \in Devices
  BY <1>1 DEF Create, Inv, UserInv
<1> DEFINE r == NewRow(req[p].user, req[p].device, clock, None,
                       clock + Absolute)
<1>3. PICK t \in Fresh :
        /\ row' = [row EXCEPT ![t] = r]
        /\ root' = [root EXCEPT ![t] = t]
        /\ deadline' = [deadline EXCEPT ![t] = clock + Absolute]
  BY DEF Create
<1>4. /\ UNCHANGED <<clock, active, parent, ended>>
      /\ Finish(p)
  BY DEF Create
<1>5. /\ r \in Row /\ r # None /\ ~r.revoked
      /\ r.expires = clock + Absolute /\ r.reason = None
  <2> DEFINE e == clock + Absolute
  <2>1. e \in Nat /\ None \in Nat \cup {None}
    BY <1>1
  <2> HIDE DEF e
  <2>2. /\ NewRow(req[p].user, req[p].device, clock, None, e) \in Row
        /\ NewRow(req[p].user, req[p].device, clock, None, e) # None
        /\ ~NewRow(req[p].user, req[p].device, clock, None, e).revoked
        /\ NewRow(req[p].user, req[p].device, clock, None, e).expires = e
        /\ NewRow(req[p].user, req[p].device, clock, None, e).reason = None
    BY <1>1, <1>2, <2>1, NewRowType
  <2> QED BY <2>2 DEF e
<1> HIDE DEF r
<1>6. /\ t \in Tokens /\ root[t] = None /\ row[t] = None
      /\ t \notin ended /\ t # None
      /\ \A s \in Tokens : root[s] # t /\ parent[s] # t
  BY NoneAssumption DEF Fresh, Inv, IssuedInv
<1>7. /\ req' \in [Procs -> Request]
      /\ \A q \in Procs \ {p} : req'[q] = req[q]
      /\ req'[p].pc = "idle"
  BY <1>1, <1>4, FinishEffect
<1>8. /\ row'[t] = r /\ root'[t] = t /\ deadline'[t] = clock + Absolute
      /\ \A s \in Tokens \ {t} : /\ row'[s] = row[s]
                                 /\ root'[s] = root[s]
                                 /\ deadline'[s] = deadline[s]
  BY <1>1, <1>3, <1>6 DEF TypeOK
<1>9. TypeOK'
  BY <1>1, <1>3, <1>4, <1>5, <1>6, <1>7 DEF TypeOK
<1>10. LockInv'
  <2>1. \A s \in Tokens : root[s] # None => root'[s] # None
    BY <1>6, <1>8
  <2>2. \A q \in Procs \ {p} :
          req[q].pc \in {"generate", "commit"} =>
            row'[req[q].token] # None /\ ~row'[req[q].token].revoked
    BY <1>6, <1>8 DEF Inv, LockInv, Live
  <2> QED BY <1>1, <1>7, <2>1, <2>2, LockLeft DEF Inv
<1>11. UserInv'
  BY <1>7 DEF Inv, UserInv
<1>12. IssuedInv'
  <2> SUFFICES ASSUME NEW s \in Tokens
               PROVE  /\ row'[s] # None => root'[s] # None
                      /\ parent'[s] # None => /\ root'[s] # None
                                              /\ root'[parent'[s]] # None
                      /\ root'[s] # None => root'[root'[s]] # None
                      /\ s \in ended' => root'[s] # None
    BY DEF IssuedInv
  <2>1. parent[s] # None => parent[s] \in Tokens
    BY <1>1 DEF TypeOK
  <2>2. root[s] # None => root[s] \in Tokens
    BY <1>1 DEF TypeOK
  <2>3. CASE s = t
    BY <1>4, <1>6, <1>8, <2>1, <2>2, <2>3 DEF Inv, IssuedInv
  <2>4. CASE s # t
    BY <1>4, <1>6, <1>8, <2>1, <2>2, <2>4 DEF Inv, IssuedInv
  <2> QED BY <2>3, <2>4
<1>13. LiveIsTip' /\ SingleSuccessor'
  BY <1>4, <1>6, <1>8 DEF Inv, LiveIsTip, SingleSuccessor, Live
<1>14. OneLivePerChain'
  BY <1>6, <1>8 DEF Inv, OneLivePerChain, Live
<1>15. EndedStaysEnded'
  BY <1>4, <1>6, <1>8 DEF Inv, EndedStaysEnded, Live
<1>16. ChainDeadline'
  <2>1. \A s \in Tokens \ {t} : row[s] # None => root[s] \in Tokens \ {t}
    BY <1>1, <1>6 DEF Inv, IssuedInv, TypeOK
  <2> QED BY <1>5, <1>6, <1>8, <2>1 DEF Inv, ChainDeadline
<1>17. RotationMeansSuperseded'
  <2>1. r.reason # "rotation"
    BY <1>5, NoneAssumption DEF Reasons
  <2> QED BY <1>4, <1>6, <1>8, <2>1 DEF Inv, RotationMeansSuperseded
<1> QED BY <1>9, <1>10, <1>11, <1>12, <1>13, <1>14, <1>15, <1>16, <1>17 DEF Inv

\* The commit of a rotation: the old row stops being live in the same instant
\* in which its only successor appears.
LEMMA RotateCommitStep ==
  ASSUME Inv, NEW p \in Handlers, RotateCommit(p)
  PROVE  Inv'
<1> DEFINE o == req[p].token
<1>1. TypeOK /\ p \in Procs /\ req[p].at \in Nat /\ req[p].pc = "commit"
  BY DEF Inv, TypeOK, Request, RotateCommit
<1>2. /\ o \in Tokens /\ root[o] # None /\ Live(o) /\ row[o] \in Row
      /\ row[o].user \in Users /\ row[o].expires \in Nat
  BY <1>1 DEF Inv, LockInv, Live, TypeOK, Row
<1>3. PICK t \in Fresh, d \in Devices :
        /\ row' = [row EXCEPT ![o] = Superseded(row[o], req[p].at),
                              ![t] = Replacement(row[o], d, req[p].at)]
        /\ root' = [root EXCEPT ![t] = root[o]]
        /\ parent' = [parent EXCEPT ![t] = o]
  BY DEF RotateCommit
<1> DEFINE old == Superseded(row[o], req[p].at)
           new == Replacement(row[o], d, req[p].at)
<1>4. /\ old \in Row /\ old.revoked /\ old.reason = "rotation"
      /\ old.expires = row[o].expires
  <2>1. "rotation" \in Reasons /\ req[p].at \in Nat \cup {None}
    BY <1>1 DEF Reasons
  <2>2. old = Revoked(row[o], "rotation", req[p].at)
    BY DEF Superseded
  <2> HIDE DEF old, o
  <2> QED BY <1>2, <2>1, <2>2, RevokedType
<1>5. /\ new \in Row /\ new # None /\ ~new.revoked
      /\ new.expires = row[o].expires /\ new.reason = None
  BY <1>1, <1>2, NewRowType DEF Replacement
<1>6. /\ t \in Tokens /\ root[t] = None /\ row[t] = None /\ parent[t] = None
      /\ t \notin ended /\ t # None /\ t # o
      /\ \A s \in Tokens : root[s] # t /\ parent[s] # t
  BY <1>2, NoneAssumption DEF Fresh, Inv, IssuedInv
<1> HIDE DEF old, new, o
<1>7. /\ row' = [row EXCEPT ![o] = old, ![t] = new]
      /\ row'[t] = new /\ row'[o] = old
      /\ \A s \in Tokens \ {t, o} : row'[s] = row[s]
  BY <1>1, <1>2, <1>3, <1>6 DEF TypeOK, old, new
<1>8. /\ root'[t] = root[o] /\ parent'[t] = o
      /\ \A s \in Tokens \ {t} : root'[s] = root[s] /\ parent'[s] = parent[s]
      /\ root'[o] = root[o]
  BY <1>1, <1>2, <1>3, <1>6 DEF TypeOK
<1>9. UNCHANGED <<clock, active, deadline, ended>>
  BY DEF RotateCommit
<1>10. /\ req' \in [Procs -> Request]
       /\ \A q \in Procs \ {p} : req'[q] = req[q]
       /\ \/ req'[p].pc = "idle"
          \/ req'[p].pc = "reuse" /\ req'[p].token = o
  <2>1. CASE Finish(p)
    BY <1>1, <2>1, FinishEffect
  <2>2. CASE Goto(p, "reuse")
    BY <1>1, <2>2, GotoEffect DEF PCs, o
  <2> QED BY <2>1, <2>2 DEF RotateCommit
<1>11. root[o] \in Tokens /\ root[o] # t /\ root[root[o]] # None
  BY <1>1, <1>2, <1>6 DEF TypeOK, Inv, IssuedInv
<1>12. TypeOK'
  BY <1>1, <1>2, <1>3, <1>4, <1>5, <1>6, <1>7, <1>9, <1>10, <1>11 DEF TypeOK
<1>13. LockInv'
  <2>1. \A s \in Tokens : root[s] # None => root'[s] # None
    BY <1>6, <1>8
  <2>2. \A q \in Procs \ {p} :
          req[q].pc \in {"generate", "commit"} =>
            /\ req[q].token \in Tokens \ {t, o}
            /\ Live(req[q].token)
    <3> SUFFICES ASSUME NEW q \in Procs \ {p},
                        req[q].pc \in {"generate", "commit"}
                 PROVE  req[q].token \in Tokens \ {t, o} /\ Live(req[q].token)
      OBVIOUS
    <3>1. req[q].token \in Tokens /\ Live(req[q].token)
      BY DEF Inv, LockInv
    <3>2. req[q].token # o
      BY <1>1 DEF Inv, LockInv, o
    <3>3. req[q].token # t
      BY <1>6, <3>1 DEF Live
    <3> QED BY <3>1, <3>2, <3>3
  <2>3. \A q \in Procs \ {p} :
          req[q].pc \in {"generate", "commit"} =>
            row'[req[q].token] # None /\ ~row'[req[q].token].revoked
    BY <1>7, <2>2 DEF Live
  <2>4. CASE req'[p].pc = "idle"
    BY <1>1, <1>10, <2>1, <2>3, <2>4, LockLeft DEF Inv
  <2>5. CASE req'[p].pc = "reuse" /\ req'[p].token = o
    BY <1>2, <1>8, <1>10, <2>1, <2>3, <2>5 DEF Inv, LockInv, Live
  <2> QED BY <1>10, <2>4, <2>5
<1>14. UserInv'
  BY <1>10 DEF Inv, UserInv
<1>15. IssuedInv'
  <2> SUFFICES ASSUME NEW s \in Tokens
               PROVE  /\ row'[s] # None => root'[s] # None
                      /\ parent'[s] # None => /\ root'[s] # None
                                              /\ root'[parent'[s]] # None
                      /\ root'[s] # None => root'[root'[s]] # None
                      /\ s \in ended' => root'[s] # None
    BY DEF IssuedInv
  <2>1. parent[s] # None => parent[s] \in Tokens \ {t}
    BY <1>1, <1>6 DEF TypeOK
  <2>2. root[s] # None => root[s] \in Tokens \ {t}
    BY <1>1, <1>6 DEF TypeOK
  <2>3. CASE s = t
    BY <1>2, <1>6, <1>8, <1>11, <2>3
  <2>4. CASE s # t
    <3>1. /\ row[s] # None => root[s] # None
          /\ parent[s] # None => root[s] # None /\ root[parent[s]] # None
          /\ root[s] # None => root[root[s]] # None
          /\ s \in ended => root[s] # None
      BY DEF Inv, IssuedInv
    <3>2. root'[s] = root[s] /\ parent'[s] = parent[s]
      BY <1>8, <2>4
    <3>3. row'[s] # None => root'[s] # None
      BY <1>2, <1>7, <2>4, <3>1, <3>2
    <3> QED BY <1>8, <1>9, <2>1, <2>2, <3>1, <3>2, <3>3
  <2> QED BY <2>3, <2>4
<1>16. ASSUME NEW s \in Tokens, Live(s)'
       PROVE  s = t \/ (s \notin {t, o} /\ Live(s))
  BY <1>4, <1>7, <1>16 DEF Live
<1>17. LiveIsTip'
  <2> SUFFICES ASSUME NEW s \in Tokens, NEW x \in Tokens, Live(x)'
               PROVE  parent'[s] # x
    BY DEF LiveIsTip
  <2>1. CASE x = t
    BY <1>6, <1>8, <2>1
  <2>2. CASE x \notin {t, o} /\ Live(x)
    BY <1>8, <2>2 DEF Inv, LiveIsTip
  <2> QED BY <1>16, <2>1, <2>2
<1>18. SingleSuccessor'
  <2>1. \A s \in Tokens : parent[s] # o
    BY <1>2 DEF Inv, LiveIsTip
  <2> QED BY <1>8, <2>1 DEF Inv, SingleSuccessor
<1>19. \A s \in Tokens : Live(s) /\ root[s] = root[o] => s = o
  BY <1>2 DEF Inv, OneLivePerChain
<1>20. OneLivePerChain'
  <2> SUFFICES ASSUME NEW x \in Tokens, NEW y \in Tokens, Live(x)', Live(y)',
                      root'[x] = root'[y]
               PROVE  x = y
    BY DEF OneLivePerChain
  <2>1. x = t \/ (x \notin {t, o} /\ Live(x))
    BY <1>16
  <2>2. y = t \/ (y \notin {t, o} /\ Live(y))
    BY <1>16
  <2> QED BY <1>8, <1>19, <2>1, <2>2 DEF Inv, OneLivePerChain
<1>21. EndedStaysEnded'
  BY <1>2, <1>8, <1>9, <1>16 DEF Inv, EndedStaysEnded
<1>22. ChainDeadline'
  <2>1. row[o].expires = deadline[root[o]]
    BY <1>2 DEF Inv, ChainDeadline, Live
  <2> SUFFICES ASSUME NEW s \in Tokens, row'[s] # None
               PROVE  row'[s].expires = deadline[root'[s]]
    BY <1>9 DEF ChainDeadline
  <2>2. CASE s \in {t, o}
    BY <1>4, <1>5, <1>7, <1>8, <2>1, <2>2
  <2>3. CASE s \notin {t, o}
    BY <1>7, <1>8, <2>3 DEF Inv, ChainDeadline
  <2> QED BY <2>2, <2>3
<1>23. RotationMeansSuperseded'
  <2>1. new.reason # "rotation"
    BY <1>5, NoneAssumption DEF Reasons
  <2> SUFFICES ASSUME NEW s \in Tokens, row'[s] # None,
                      row'[s].reason = "rotation"
               PROVE  \E x \in Tokens : parent'[x] = s
    BY DEF RotationMeansSuperseded
  <2>2. CASE s = o
    BY <1>6, <1>8, <2>2
  <2>3. CASE s # o
    <3>1. s # t /\ row'[s] = row[s]
      BY <1>7, <2>1, <2>3
    <3>2. PICK x \in Tokens : parent[x] = s
      BY <3>1 DEF Inv, RotationMeansSuperseded
    <3>3. x # t
      BY <1>6, <3>2, NoneAssumption
    <3> QED BY <1>8, <3>2, <3>3
  <2> QED BY <2>2, <2>3
<1> QED BY <1>12, <1>13, <1>14, <1>15, <1>17, <1>18, <1>20, <1>21, <1>22, <1>23
        DEF Inv

-----------------------------------------------------------------------------
(* The theorems.                                                           *)

\* The empty table satisfies the invariant.
LEMMA InitInv == Init => Inv
<1> SUFFICES ASSUME Init PROVE Inv
  OBVIOUS
<1>1. TypeOK
  BY DoneType DEF Init, TypeOK
<1>2. \A p \in Procs : req[p].pc = "idle"
  BY DoneType DEF Init
<1>3. LockInv /\ UserInv
  BY <1>2 DEF LockInv, UserInv
<1>4. DbInv
  BY DEF Init, DbInv, IssuedInv, LiveIsTip, SingleSuccessor, OneLivePerChain,
         EndedStaysEnded, ChainDeadline, RotationMeansSuperseded, Live
<1> QED BY <1>1, <1>3, <1>4 DEF Inv, DbInv

\* The snapshot of a RevokeAllForUser after a reuse or a deactivation.
LEMMA ContinueRevokeAllStep ==
  ASSUME Inv, NEW p \in Handlers, ContinueRevokeAll(p)
  PROVE  Inv'
<1>1. req[p].user \in Users
  BY DEF ContinueRevokeAll, Inv, UserInv
<1> QED BY <1>1, BeginRevokeAllStep

\* Every statement of every goroutine preserves the invariant.
LEMMA NextInv == Inv /\ [Next]_vars => Inv'
<1> SUFFICES ASSUME Inv, [Next]_vars PROVE Inv'
  OBVIOUS
<1>1. ASSUME NEW p \in Handlers, Start(p) PROVE Inv'
  BY <1>1, BeginLoginStep, RefreshStep, BeginRevokeOthersStep, RevokeStep,
     SetStatusStep, BeginRevokeAllStep
     DEF Start, AuthRequest, SessionRequest, AdminRequest
<1>2. ASSUME NEW p \in Handlers, Step(p) PROVE Inv'
  BY <1>2, RevokeForDeviceStep, BeginEvictStep, EvictStep, CreateStep,
     RotateSelectStep, GenerateStep, RotateCommitStep, CheckReuseStep,
     ContinueRevokeAllStep, RevokeAllStep, RevokeOthersStep DEF Step
<1>3. CASE \E p \in Procs : StatementFails(p)
  BY <1>3, StatementFailsStep
<1>4. CASE Cleanup
  BY <1>4, BeginCleanupStep, RevokeStaleStep, DeleteExpiredStep DEF Cleanup
<1>5. CASE Tick
  BY <1>5, TickStep
<1>6. CASE UNCHANGED vars
  <2>1. TypeOK' /\ LockInv' /\ UserInv'
    BY <1>6 DEF Inv, vars, TypeOK, LockInv, UserInv, Live
  <2>2. DbInv'
    BY <1>6, DbUnchanged DEF Inv, DbInv, vars, db
  <2> QED BY <2>1, <2>2 DEF Inv, DbInv
<1> QED BY <1>1, <1>2, <1>3, <1>4, <1>5, <1>6 DEF Next

\* The inductive invariant holds in every reachable state.
THEOREM Invariance == Spec => []Inv
<1>1. Init => Inv
  BY InitInv
<1>2. Inv /\ [Next]_vars => Inv'
  BY NextInv
<1> QED BY <1>1, <1>2, PTL DEF Spec

\* The sessions table, the requests and the history keep their types under
\* every handler and the cleanup worker.
THEOREM TypeCorrect == Spec => []TypeOK
<1>1. Inv => TypeOK
  BY DEF Inv
<1> QED BY <1>1, Invariance, PTL

\* RotateSession: two refresh requests with the same token never both succeed.
THEOREM RotationHasOneWinner == Spec => []SingleSuccessor
<1>1. Inv => SingleSuccessor
  BY DEF Inv
<1> QED BY <1>1, Invariance, PTL

\* However a login is refreshed, replaced, evicted or revoked, at most one of
\* its refresh tokens is usable.
THEOREM ChainHasOneLiveToken == Spec => []OneLivePerChain
<1>1. Inv => OneLivePerChain
  BY DEF Inv
<1> QED BY <1>1, Invariance, PTL

\* A session that a revocation or the purge has ended is not revived by a
\* RotateSession under way.
THEOREM RevocationIsFinal == Spec => []EndedStaysEnded
<1>1. Inv => EndedStaysEnded
  BY DEF Inv
<1> QED BY <1>1, Invariance, PTL

\* Refreshing never extends a session past its login's deadline.
THEOREM DeadlineIsFixed == Spec => []ChainDeadline
<1>1. Inv => ChainDeadline
  BY DEF Inv
<1> QED BY <1>1, Invariance, PTL

\* The reason CheckReuse acts on is only ever the trace of a real rotation.
THEOREM RotationReasonIsEvidence == Spec => []RotationMeansSuperseded
<1>1. Inv => RotationMeansSuperseded
  BY DEF Inv
<1> QED BY <1>1, Invariance, PTL

-----------------------------------------------------------------------------
(* A revoked row is rewritten by no statement.                             *)

Frozen == \A t \in Tokens :
            row[t] # None /\ row[t].revoked => row'[t] \in {row[t], None}

\* Every statement writes rows that are live at that instant, or deletes.
LEMMA StepFreezes == Inv /\ [Next]_vars => Frozen
<1> SUFFICES ASSUME Inv, [Next]_vars, NEW t \in Tokens,
                    row[t] # None, row[t].revoked
             PROVE  row'[t] \in {row[t], None}
  BY DEF Frozen
<1>1. ~Live(t)
  BY DEF Live
<1>2. ASSUME NEW S, t \notin S,
             RevokeRowsUntouched(S) \/ (\E at : RevokeRows(S, at))
      PROVE  row'[t] = row[t]
  BY <1>2 DEF RevokeRows, RevokeRowsUntouched
<1>3. ASSUME NEW p \in Handlers, Create(p) PROVE row'[t] = row[t]
  <2>1. PICK x \in Fresh : \E r : row' = [row EXCEPT ![x] = r]
    BY <1>3 DEF Create
  <2>2. x # t
    BY DEF Fresh, Inv, IssuedInv
  <2> QED BY <2>1, <2>2 DEF Inv, TypeOK
<1>4. ASSUME NEW p \in Handlers, RotateCommit(p) PROVE row'[t] = row[t]
  <2> DEFINE o == req[p].token
  <2>1. PICK x \in Fresh, d \in Devices :
          row' = [row EXCEPT ![o] = Superseded(row[o], req[p].at),
                             ![x] = Replacement(row[o], d, req[p].at)]
    BY <1>4, Zenon DEF RotateCommit
  <2>2. x # t
    BY DEF Fresh, Inv, IssuedInv
  <2>3. req[p].token # t
    BY <1>1, <1>4 DEF RotateCommit, Inv, LockInv
  <2> QED BY <2>1, <2>2, <2>3 DEF Inv, TypeOK
<1>5. ASSUME NEW p \in Handlers,
             \/ RevokeForDevice(p) \/ EvictExcessSessions(p)
             \/ RevokeAllForUser(p) \/ RevokeOtherSessions(p)
             \/ \E s \in Tokens : Logout(p, s) \/ RevokeByID(p, s)
      PROVE  row'[t] = row[t]
  <2>1. CASE RevokeForDevice(p)
    BY <1>1, <1>2, <2>1 DEF RevokeForDevice, DeviceWhere
  <2>2. CASE EvictExcessSessions(p)
    BY <1>1, <1>2, <2>2 DEF EvictExcessSessions
  <2>3. CASE RevokeAllForUser(p)
    BY <1>1, <1>2, <2>3 DEF RevokeAllForUser
  <2>4. CASE RevokeOtherSessions(p)
    BY <1>1, <1>2, <2>4 DEF RevokeOtherSessions, OthersWhere
  <2>5. CASE \E s \in Tokens : Logout(p, s) \/ RevokeByID(p, s)
    BY <1>1, <1>2, <2>5 DEF Logout, RevokeByID
  <2> QED BY <1>5, <2>1, <2>2, <2>3, <2>4, <2>5
<1>6. CASE DeleteExpired
  BY <1>6 DEF DeleteExpired
<1>7. CASE RevokeStaleInitialSessions
  BY <1>1, <1>2, <1>7 DEF RevokeStaleInitialSessions, StaleWhere
<1>8. CASE UNCHANGED row
  BY <1>8
<1>9. ASSUME NEW p \in Handlers, Start(p) PROVE row'[t] = row[t]
  BY <1>5, <1>9 DEF Start, AuthRequest, SessionRequest, AdminRequest,
                    BeginLogin, Refresh, BeginRevokeOthers, SetStatus,
                    BeginRevokeAll, db
<1>10. ASSUME NEW p \in Handlers, Step(p) PROVE row'[t] = row[t]
  BY <1>3, <1>4, <1>5, <1>10 DEF Step, BeginEvict, RotateSelect, Generate,
                                 CheckReuse, ContinueRevokeAll, db
<1>11. CASE Cleanup
  BY <1>6, <1>7, <1>11 DEF Cleanup, BeginRevokeStale, BeginDeleteExpired, db
<1>12. CASE Tick \/ (\E p \in Procs : StatementFails(p)) \/ UNCHANGED vars
  BY <1>8, <1>12 DEF Tick, StatementFails, vars, db
<1> QED BY <1>9, <1>10, <1>11, <1>12 DEF Next

\* Neither the reason nor the time of a revocation is ever overwritten.
THEOREM RevocationIsFrozen == Spec => RevokedRowIsFrozen
<1>1. Inv /\ [Next]_vars => [Frozen]_vars
  BY StepFreezes
<1>2. Spec => [][Frozen]_vars
  BY <1>1, Invariance, PTL DEF Spec
<1> QED BY <1>2 DEF RevokedRowIsFrozen, Frozen
=============================================================================
