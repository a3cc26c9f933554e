---------------------------- MODULE MfaStepUpProofs ----------------------------
(***************************************************************************)
(* Proofs about Mfa for every set of secrets, recovery codes and handlers, *)
(* every batch size and every length of time, and about StepUp for every   *)
(* set of sessions and handlers, every window and all limits.              *)
(***************************************************************************)
EXTENDS Mfa, StepUp, FiniteSetTheorems, TLAPS

(***************************************************************************)
(* The strengthening.  For the TOTP codes: the key of an accepted string   *)
(* outlives the periods in which its code is valid, and a request is about *)
(* to mark a code whose validity had begun.  For the recovery codes: the   *)
(* lists of the row are generated, disjoint and unredeemed, and while a    *)
(* request holds the row's lock the list it read is the row's.             *)
(***************************************************************************)

MarkPCs == {"setup_mark", "disable_mark", "mark"}

\* The code a request is about to mark was valid when it was checked, now or
\* earlier.
Checked ==
  \A p \in Handlers :
    req[p].pc \in MarkPCs => /\ req[p].code \in Totp
                             /\ req[p].code[2] - 1 <= clock

\* usedCodeTTL: the key of an accepted string stays as long as its code is valid.
Remembered == \A c \in accepted : used[c] >= c[2] + 2

\* One request at a time is between the SELECT ... FOR UPDATE and the commit,
\* and nobody writes the row under it.
RowLock ==
  /\ \A p, q \in Handlers :
       req[p].pc = "recover_commit" /\ req[q].pc = "recover_commit" => p = q
  /\ \A p \in Handlers :
       req[p].pc = "recover_commit" =>
         /\ rec # None /\ rec.codes = req[p].read
         /\ req[p].code \in Recovery /\ req[p].code \in req[p].read

\* The recovery codes of the row.
Lists ==
  rec # None => /\ rec.codes \subseteq generated
                /\ rec.pendingCodes \subseteq generated
                /\ rec.codes \cap rec.pendingCodes = {}
Redeemed ==
  \A r \in Recovery :
    redeemed[r] # 0 => /\ r \in generated
                       /\ rec # None => r \notin rec.codes /\ r \notin rec.pendingCodes

Inv ==
  /\ TypeOK
  /\ Checked
  /\ Remembered
  /\ RowLock
  /\ Lists
  /\ Redeemed
  /\ CodeAcceptedOnce
  /\ RecoveryCodeOnce

USE DEF At

-----------------------------------------------------------------------------
(* What a step does to the request that takes it.                          *)

\* A request given as a whole.
LEMMA BeginEffect ==
  ASSUME TypeOK, NEW p \in Handlers, NEW r \in Request,
         req' = [req EXCEPT ![p] = r]
  PROVE  /\ req' \in [Handlers -> Request]
         /\ \A q \in Handlers \ {p} : req'[q] = req[q]
         /\ req'[p] = r
BY DEF TypeOK

\* A goroutine without a request.
LEMMA DoneType == Done \in Request /\ Done.pc = "idle"
BY DEF Done, Request, PCs, Modes

\* A finished request is an idle one.
LEMMA FinishEffect ==
  ASSUME TypeOK, NEW p \in Handlers, Finish(p)
  PROVE  /\ req' \in [Handlers -> Request]
         /\ \A q \in Handlers \ {p} : req'[q] = req[q]
         /\ req'[p].pc = "idle"
BY DoneType, BeginEffect DEF Finish

\* Goto changes nothing but the next statement.
LEMMA GotoEffect ==
  ASSUME TypeOK, NEW p \in Handlers, NEW pc \in PCs, Goto(p, pc)
  PROVE  /\ req' \in [Handlers -> Request]
         /\ \A q \in Handlers \ {p} : req'[q] = req[q]
         /\ req'[p].pc = pc
BY DEF TypeOK, Request, Goto

\* Begin notes the code.
LEMMA BeginCodeEffect ==
  ASSUME TypeOK, NEW p \in Handlers, NEW pc \in PCs, NEW mode \in Modes,
         NEW code \in Totp \cup Recovery \cup {None}, Begin(p, pc, code, mode)
  PROVE  /\ req' \in [Handlers -> Request]
         /\ \A q \in Handlers \ {p} : req'[q] = req[q]
         /\ req'[p].pc = pc /\ req'[p].code = code
<1> DEFINE r == [req[p] EXCEPT !.pc = pc, !.code = code, !.mode = mode]
<1>1. req[p] \in Request
  BY DEF TypeOK
<1>2. r \in Request /\ r.pc = pc /\ r.code = code
  BY <1>1 DEF Request
<1>3. req' = [req EXCEPT ![p] = r]
  BY DEF TypeOK, Begin
<1> HIDE DEF r
<1> QED BY <1>2, <1>3, BeginEffect

-----------------------------------------------------------------------------
(* Steps that move one request on.                                         *)

\* A request goes on to something that neither marks nor holds the lock.
LEMMA QuietStep ==
  ASSUME Inv, NEW p \in Handlers,
         req' \in [Handlers -> Request],
         \A q \in Handlers \ {p} : req'[q] = req[q],
         req'[p].pc \notin MarkPCs, req'[p].pc # "recover_commit",
         UNCHANGED <<clock, rec, used, generated, accepted, again, redeemed>>
  PROVE  Inv'
<1>1. TypeOK'
  BY DEF Inv, TypeOK
<1>2. Checked'
  BY DEF Inv, Checked
<1>3. RowLock'
  BY DEF Inv, RowLock
<1>4. Remembered' /\ Lists' /\ Redeemed' /\ CodeAcceptedOnce' /\ RecoveryCodeOnce'
  BY DEF Inv, Remembered, Lists, Redeemed, CodeAcceptedOnce, RecoveryCodeOnce
<1> QED BY <1>1, <1>2, <1>3, <1>4 DEF Inv

\* totp.Validate: the validity of a code it accepts has begun.
LEMMA ValidBegun ==
  ASSUME TypeOK, NEW code, NEW secret, ValidTotp(code, secret)
  PROVE  code \in Totp /\ code[2] - 1 <= clock
BY DEF ValidTotp, TypeOK, Totp, Periods

\* TrimSpace makes another spelling of the same code.
LEMMA TrimmedCode ==
  ASSUME NEW code \in Totp
  PROVE  Trimmed(code) \in Totp /\ Trimmed(code)[2] = code[2]
BY MfaAssumption DEF Trimmed, Totp

\* A code that was found valid goes to the replay check.
LEMMA ValidStep ==
  ASSUME Inv, NEW p \in Handlers, NEW pc \in MarkPCs, NEW mode \in Modes,
         NEW code \in Totp, code[2] - 1 <= clock, Begin(p, pc, code, mode),
         UNCHANGED <<clock, rec, used, generated, accepted, again, redeemed>>
  PROVE  Inv'
<1>1. TypeOK /\ pc \in PCs
  BY DEF Inv, MarkPCs, PCs
<1>2. /\ req' \in [Handlers -> Request]
      /\ \A q \in Handlers \ {p} : req'[q] = req[q]
      /\ req'[p].pc = pc /\ req'[p].code = code
  BY <1>1, BeginCodeEffect
<1>4. TypeOK'
  BY <1>1, <1>2 DEF TypeOK
<1>5. Checked'
  BY <1>1, <1>2 DEF Inv, Checked
<1>6. RowLock'
  BY <1>2 DEF Inv, RowLock, MarkPCs
<1>7. Remembered' /\ Lists' /\ Redeemed' /\ CodeAcceptedOnce' /\ RecoveryCodeOnce'
  BY DEF Inv, Remembered, Lists, Redeemed, CodeAcceptedOnce, RecoveryCodeOnce
<1> QED BY <1>4, <1>5, <1>6, <1>7 DEF Inv

\* markUsed and the acceptance: while the code is valid, the key of an earlier
\* acceptance of the string is still there.
LEMMA AcceptStep ==
  ASSUME Inv, NEW p \in Handlers, req[p].pc \in MarkPCs,
         Unused(req[p].code), MarkUsed(req[p].code), Accept(p),
         req' \in [Handlers -> Request],
         \A q \in Handlers \ {p} : req'[q] = req[q],
         req'[p].pc \notin MarkPCs, req'[p].pc # "recover_commit",
         UNCHANGED <<clock, rec, generated, redeemed>>
  PROVE  Inv'
<1> DEFINE c == req[p].code
<1>1. /\ TypeOK /\ c \in Totp /\ c[2] \in Nat /\ clock \in Nat
      /\ c[2] - 1 <= clock
  BY DEF Inv, Checked, TypeOK, Totp, Periods
<1>2. UsedTTL \in Nat /\ UsedTTL >= 3
  BY MfaAssumption
<1>3. used' = [used EXCEPT ![c] = clock + UsedTTL] /\ used[c] <= clock
  BY DEF MarkUsed, Unused, UsedUntil
<1>4. accepted' = accepted \cup {c}
  BY DEF Accept
<1>5. again' = again
  <2>1. c \in accepted => used[c] >= c[2] + 2
    BY DEF Inv, Remembered
  <2>2. used[c] \in Nat
    BY <1>1 DEF TypeOK
  <2>3. c \in accepted => ~(clock <= c[2] + 1)
    BY <1>1, <1>3, <2>1, <2>2
  <2> QED BY <2>3 DEF Accept
<1>6. TypeOK'
  BY <1>1, <1>2, <1>3, <1>4, <1>5 DEF TypeOK
<1>7. Remembered'
  <2> SUFFICES ASSUME NEW d \in accepted' PROVE used'[d] >= d[2] + 2
    BY DEF Remembered
  <2>1. CASE d = c
    BY <1>1, <1>2, <1>3, <2>1 DEF TypeOK
  <2>2. CASE d # c
    BY <1>1, <1>3, <1>4, <2>2 DEF TypeOK, Inv, Remembered
  <2> QED BY <2>1, <2>2
<1>8. Checked'
  BY DEF Inv, Checked
<1>9. RowLock'
  BY DEF Inv, RowLock
<1>10. Lists' /\ Redeemed' /\ CodeAcceptedOnce' /\ RecoveryCodeOnce'
  BY <1>5 DEF Inv, Lists, Redeemed, CodeAcceptedOnce, RecoveryCodeOnce
<1> QED BY <1>6, <1>7, <1>8, <1>9, <1>10 DEF Inv

\* The steps that end in the replay check.
LEMMA ReplayStep ==
  ASSUME Inv, NEW p \in Handlers, SetupMark(p) \/ DisableMark(p) \/ Mark(p)
  PROVE  Inv'
<1>1. TypeOK /\ req[p].pc \in MarkPCs
  BY DEF Inv, SetupMark, DisableMark, Mark, MarkPCs
<1>2. UNCHANGED <<clock, rec, generated, redeemed>>
  BY DEF SetupMark, DisableMark, Mark
<1>3. /\ req' \in [Handlers -> Request]
      /\ \A q \in Handlers \ {p} : req'[q] = req[q]
      /\ req'[p].pc \notin MarkPCs /\ req'[p].pc # "recover_commit"
  <2>1. CASE Finish(p)
    BY <1>1, <2>1, FinishEffect DEF MarkPCs
  <2>2. CASE Goto(p, "upsert")
    BY <1>1, <2>2, GotoEffect DEF MarkPCs, PCs
  <2>3. CASE Goto(p, "delete")
    BY <1>1, <2>3, GotoEffect DEF MarkPCs, PCs
  <2> QED BY <2>1, <2>2, <2>3 DEF SetupMark, DisableMark, Mark
<1>4. CASE UNCHANGED <<used, accepted, again>>
  BY <1>2, <1>3, <1>4, QuietStep
<1>5. CASE Unused(req[p].code) /\ MarkUsed(req[p].code) /\ Accept(p)
  BY <1>1, <1>2, <1>3, <1>5, AcceptStep
<1> QED BY <1>4, <1>5 DEF SetupMark, DisableMark, Mark

\* The steps that look at a code or at the row and write nothing.
LEMMA ReadStep ==
  ASSUME Inv, NEW p \in Handlers,
         \/ BeginSetup(p) \/ BeginRegenerate(p) \/ Abort(p)
         \/ \E c \in Totp : SetupCode(p, c) \/ Verify(p, c) \/ Disable(p, c)
         \/ \E c \in Totp \cup Recovery, m \in {"login", "stepup"} :
              Validate(p, c, m)
  PROVE  Inv'
<1>1. TypeOK
  BY DEF Inv
<1>2. UNCHANGED <<clock, rec, used, generated, accepted, again, redeemed>>
  BY DEF BeginSetup, BeginRegenerate, Abort, SetupCode, Verify, Disable,
         Validate, hist
<1>3. ASSUME NEW pc \in {"setup_code", "upsert", "enable", "regenerate"}, Goto(p, pc)
      PROVE  Inv'
  <2>1. pc \in PCs /\ pc \notin MarkPCs /\ pc # "recover_commit"
    BY DEF PCs, MarkPCs
  <2> QED BY <1>1, <1>2, <1>3, <2>1, GotoEffect, QuietStep
<1>4. CASE Finish(p)
  BY <1>1, <1>2, <1>4, FinishEffect, QuietStep DEF MarkPCs
<1>5. CASE BeginSetup(p) \/ BeginRegenerate(p) \/ Abort(p)
  BY <1>3, <1>4, <1>5 DEF BeginSetup, BeginRegenerate, Abort
<1>6. ASSUME NEW c \in Totp, SetupCode(p, c) PROVE Inv'
  <2>1. CASE ValidTotp(c, SecretOf)
    BY <1>1, <1>2, <1>6, <2>1, ValidBegun, ValidStep DEF SetupCode, MarkPCs, Modes
  <2> QED BY <1>4, <1>6, <2>1 DEF SetupCode
<1>7. ASSUME NEW c \in Totp, Verify(p, c) PROVE Inv'
  BY <1>3, <1>7 DEF Verify
<1>8. ASSUME NEW c \in Totp, Disable(p, c) PROVE Inv'
  BY <1>1, <1>2, <1>8, ValidBegun, ValidStep DEF Disable, MarkPCs, Modes
<1>9. ASSUME NEW c \in Totp \cup Recovery, NEW m \in {"login", "stepup"},
             Validate(p, c, m)
      PROVE  Inv'
  <2>1. CASE ValidTotp(c, SecretOf)
    <3>1. Trimmed(c) \in Totp /\ Trimmed(c)[2] - 1 <= clock
      BY <1>1, <2>1, ValidBegun, TrimmedCode
    <3> QED BY <1>2, <1>9, <2>1, <3>1, ValidStep DEF Validate, MarkPCs, Modes
  <2>2. CASE ~ValidTotp(c, SecretOf)
    <3>1. PICK d \in Totp \cup Recovery \cup {None} : Begin(p, "recover", d, None)
      BY <1>9, <2>2 DEF Validate
    <3>2. "recover" \in PCs /\ None \in Modes /\ "recover" \notin MarkPCs
      BY DEF PCs, Modes, MarkPCs
    <3>3. /\ req' \in [Handlers -> Request]
          /\ \A q \in Handlers \ {p} : req'[q] = req[q]
          /\ req'[p].pc = "recover"
      BY <1>1, <3>1, <3>2, BeginCodeEffect
    <3> QED BY <1>2, <3>2, <3>3, QuietStep
  <2> QED BY <2>1, <2>2
<1> QED BY <1>5, <1>6, <1>7, <1>8, <1>9

-----------------------------------------------------------------------------
(* Recovery codes.                                                         *)

\* FOR UPDATE: the lock is taken when nobody holds it.
LEMMA RecoverStep ==
  ASSUME Inv, NEW p \in Handlers, Recover(p)
  PROVE  Inv'
<1>1. TypeOK /\ req[p] \in Request /\ RowUnlocked
  BY DEF Inv, TypeOK, Recover
<1>2. UNCHANGED <<clock, rec, used, generated, accepted, again, redeemed>>
  BY DEF Recover, hist
<1>3. CASE Finish(p)
  BY <1>1, <1>2, <1>3, FinishEffect, QuietStep DEF MarkPCs
<1>4. CASE ~Finish(p)
  <2> DEFINE r == [req[p] EXCEPT !.pc = "recover_commit", !.read = rec.codes]
  <2>1. /\ rec # None /\ req[p].code \in rec.codes
        /\ req' = [req EXCEPT ![p].pc = "recover_commit", ![p].read = rec.codes]
    BY <1>4 DEF Recover
  <2>2. rec.codes \in SUBSET Recovery
    BY <1>1, <2>1 DEF TypeOK, Record
  <2>3. req' = [req EXCEPT ![p] = r]
    BY <1>1, <2>1 DEF TypeOK
  <2>4. /\ r \in Request /\ r.pc = "recover_commit" /\ r.read = rec.codes
        /\ r.code = req[p].code
    BY <1>1, <2>2 DEF Request, PCs
  <2> HIDE DEF r
  <2>5. /\ req' \in [Handlers -> Request] /\ req'[p] = r
        /\ \A q \in Handlers \ {p} : req'[q] = req[q]
    BY <1>1, <2>3, <2>4, BeginEffect
  <2>6. TypeOK'
    BY <1>1, <1>2, <2>5 DEF TypeOK
  <2>7. RowLock'
    BY <1>1, <1>2, <2>1, <2>2, <2>4, <2>5 DEF RowLock, RowUnlocked
  <2>8. Checked'
    BY <1>2, <2>4, <2>5 DEF Inv, Checked, MarkPCs
  <2>9. Remembered' /\ Lists' /\ Redeemed' /\ CodeAcceptedOnce' /\ RecoveryCodeOnce'
    BY <1>2 DEF Inv, Remembered, Lists, Redeemed, CodeAcceptedOnce, RecoveryCodeOnce
  <2> QED BY <2>6, <2>7, <2>8, <2>9 DEF Inv
<1> QED BY <1>3, <1>4

\* The commit: the list is still the one that was read, the code was in it and
\* so had not been redeemed; now it is in no list.
LEMMA RecoverCommitStep ==
  ASSUME Inv, NEW p \in Handlers, RecoverCommit(p)
  PROVE  Inv'
<1> DEFINE c == req[p].code
<1>1. /\ TypeOK /\ req[p].pc = "recover_commit" /\ rec # None /\ rec \in Record
      /\ rec.codes = req[p].read /\ c \in Recovery /\ c \in rec.codes
  BY DEF Inv, RecoverCommit, RowLock, TypeOK
<1>2. /\ rec' = [rec EXCEPT !.codes = rec.codes \ {c}]
      /\ redeemed' = [redeemed EXCEPT ![c] = More(redeemed[c])]
      /\ UNCHANGED <<clock, used, generated, accepted, again>>
  BY <1>1 DEF RecoverCommit
<1>3. redeemed[c] = 0
  BY <1>1 DEF Inv, Redeemed
<1>4. /\ redeemed'[c] = 1
      /\ \A r \in Recovery : r # c => redeemed'[r] = redeemed[r]
      /\ redeemed' \in [Recovery -> Nat]
  BY <1>1, <1>2, <1>3 DEF TypeOK, More
<1>5. /\ rec' \in Record /\ rec'.codes = rec.codes \ {c}
      /\ rec'.pendingCodes = rec.pendingCodes
  BY <1>1, <1>2 DEF Record
<1>6. /\ req' \in [Handlers -> Request]
      /\ \A q \in Handlers \ {p} : req'[q] = req[q]
      /\ req'[p].pc = "idle"
  BY <1>1, FinishEffect DEF RecoverCommit
<1>7. TypeOK'
  BY <1>1, <1>2, <1>4, <1>5, <1>6 DEF TypeOK
<1>8. RowLock'
  BY <1>1, <1>6 DEF Inv, RowLock
<1>9. Checked'
  BY <1>2, <1>6 DEF Inv, Checked, MarkPCs
<1>10. Lists'
  BY <1>1, <1>2, <1>5 DEF Inv, Lists
<1>11. Redeemed'
  BY <1>1, <1>2, <1>4, <1>5 DEF Inv, Redeemed, Lists
<1>12. Remembered' /\ CodeAcceptedOnce'
  BY <1>2 DEF Inv, Remembered, CodeAcceptedOnce
<1>13. RecoveryCodeOnce'
  <2>1. \A r \in Recovery : redeemed'[r] <= 1
    BY <1>4 DEF Inv, RecoveryCodeOnce
  <2>2. \A r \in Recovery : redeemed'[r] = 1 /\ rec' # None =>
          r \notin rec'.codes \cup rec'.pendingCodes
    BY <1>11 DEF Redeemed
  <2> QED BY <2>1, <2>2 DEF RecoveryCodeOnce
<1> QED BY <1>7, <1>8, <1>9, <1>10, <1>11, <1>12, <1>13 DEF Inv

\* The writes of the row wait for the lock; they bring codes that were never
\* generated, or move or drop those that are there.
LEMMA WriteStep ==
  ASSUME Inv, NEW p \in Handlers, RowUnlocked, Finish(p),
         rec' \in Record \cup {None}, generated \subseteq generated',
         generated' \subseteq Secrets \cup Recovery,
         rec' # None =>
           /\ \A r \in rec'.codes :
                \/ r \in generated' \ generated
                \/ rec # None /\ (r \in rec.codes \/ r \in rec.pendingCodes)
           /\ \A r \in rec'.pendingCodes :
                \/ r \in generated' \ generated
                \/ rec # None /\ r \in rec.pendingCodes
           /\ rec'.codes \cap rec'.pendingCodes = {},
         UNCHANGED <<clock, used, accepted, again, redeemed>>
  PROVE  Inv'
<1>1. TypeOK
  BY DEF Inv
<1>2. /\ req' \in [Handlers -> Request]
      /\ \A q \in Handlers \ {p} : req'[q] = req[q]
      /\ req'[p].pc = "idle"
  BY <1>1, FinishEffect
<1>3. TypeOK'
  BY <1>1, <1>2 DEF TypeOK
<1>4. RowLock'
  BY <1>2 DEF RowLock, RowUnlocked
<1>5. Checked'
  BY <1>2 DEF Inv, Checked, MarkPCs
<1>6. Lists'
  BY DEF Inv, Lists
<1>7. Redeemed'
  BY DEF Inv, Redeemed
<1>8. Remembered' /\ CodeAcceptedOnce'
  BY DEF Inv, Remembered, CodeAcceptedOnce
<1>9. RecoveryCodeOnce'
  BY <1>7 DEF Inv, RecoveryCodeOnce, Redeemed
<1> QED BY <1>3, <1>4, <1>5, <1>6, <1>7, <1>8, <1>9 DEF Inv

\* UpsertPending, Enable, Delete and UpdateRecoveryCodes are such writes.
LEMMA RowStep ==
  ASSUME Inv, NEW p \in Handlers,
         UpsertPending(p) \/ Enable(p) \/ Delete(p) \/ UpdateRecoveryCodes(p)
  PROVE  Inv'
<1>1. /\ TypeOK /\ RowUnlocked /\ Finish(p)
      /\ UNCHANGED <<clock, used, accepted, again, redeemed>>
      /\ rec # None => rec \in Record
      /\ generated \subseteq Secrets \cup Recovery
  BY DEF Inv, TypeOK, UpsertPending, Enable, Delete, UpdateRecoveryCodes, hist
<1>2. /\ rec # None => rec.codes \subseteq generated /\ rec.pendingCodes \subseteq generated
      /\ rec # None => rec.codes \cap rec.pendingCodes = {}
  BY DEF Inv, Lists
<1>3. CASE UpsertPending(p)
  <2>1. PICK s \in Secrets \ generated, B \in Batches :
          /\ rec' = IF rec = None
                      THEN [secret |-> None, pending |-> s, enabled |-> FALSE,
                            codes |-> {}, pendingCodes |-> B]
                      ELSE [rec EXCEPT !.pending = s, !.pendingCodes = B]
          /\ generated' = generated \cup {s} \cup B
    BY <1>3 DEF UpsertPending
  <2>2. B \subseteq Recovery /\ B \cap generated = {}
    BY DEF Batches
  <2>3. /\ rec' \in Record /\ rec'.pendingCodes = B
        /\ rec'.codes = IF rec = None THEN {} ELSE rec.codes
    BY <1>1, <2>1, <2>2 DEF Record
  <2>4. generated' \subseteq Secrets \cup Recovery /\ B \subseteq generated' \ generated
    BY <1>1, <2>1, <2>2
  <2> QED BY <1>1, <1>2, <2>1, <2>2, <2>3, <2>4, WriteStep
<1>4. CASE Enable(p)
  <2>1. generated' = generated
    BY <1>4 DEF Enable, hist
  <2>2. CASE PendingOf = None
    <3>1. rec' = rec
      BY <1>4, <2>2 DEF Enable
    <3> QED BY <1>1, <1>2, <2>1, <3>1, WriteStep
  <2>3. CASE PendingOf # None
    <3>1. rec # None
      BY <2>3 DEF PendingOf
    <3>2. rec' = [rec EXCEPT !.secret = rec.pending, !.pending = None,
                             !.enabled = TRUE, !.codes = rec.pendingCodes,
                             !.pendingCodes = {}]
      BY <1>4, <2>3 DEF Enable
    <3>3. rec' \in Record /\ rec'.codes = rec.pendingCodes /\ rec'.pendingCodes = {}
      BY <1>1, <3>1, <3>2 DEF Record
    <3> QED BY <1>1, <1>2, <2>1, <3>1, <3>3, WriteStep
  <2> QED BY <2>2, <2>3
<1>5. CASE Delete(p)
  BY <1>1, <1>5, WriteStep DEF Delete, hist
<1>6. CASE UpdateRecoveryCodes(p)
  <2>1. PICK B \in Batches :
          /\ rec' = IF rec = None THEN None ELSE [rec EXCEPT !.codes = B]
          /\ generated' = generated \cup B
    BY <1>6 DEF UpdateRecoveryCodes
  <2>2. B \subseteq Recovery /\ B \cap generated = {}
    BY DEF Batches
  <2>3. generated' \subseteq Secrets \cup Recovery /\ B \subseteq generated' \ generated
    BY <1>1, <2>1, <2>2
  <2>4. CASE rec = None
    BY <1>1, <2>1, <2>3, <2>4, WriteStep
  <2>5. CASE rec # None
    <3>1. rec' \in Record /\ rec'.codes = B /\ rec'.pendingCodes = rec.pendingCodes
      BY <1>1, <2>1, <2>2, <2>5 DEF Record
    <3> QED BY <1>1, <1>2, <2>1, <2>2, <2>3, <2>5, <3>1, WriteStep
  <2> QED BY <2>4, <2>5
<1> QED BY <1>3, <1>4, <1>5, <1>6

\* A period passes: what is under way is late from now on.
LEMMA TickStep ==
  ASSUME Inv, Tick
  PROVE  Inv'
<1>1. /\ TypeOK /\ clock \in Nat /\ clock' = clock + 1
      /\ UNCHANGED <<rec, used, generated, accepted, again, redeemed>>
      /\ req' = [p \in Handlers |-> [req[p] EXCEPT !.late = ~At(p, "idle")]]
  BY DEF Inv, TypeOK, Tick, hist
<1>2. ASSUME NEW p \in Handlers
      PROVE  /\ req'[p] \in Request
             /\ req'[p].pc = req[p].pc /\ req'[p].code = req[p].code
             /\ req'[p].read = req[p].read
             /\ req[p].pc # "idle" => req'[p].late
  <2> DEFINE b == req[p].pc # "idle"
  <2>1. req'[p] = [req[p] EXCEPT !.late = b] /\ req[p] \in Request /\ b \in BOOLEAN
    BY <1>1 DEF TypeOK
  <2>2. b => b = TRUE
    OBVIOUS
  <2> HIDE DEF b
  <2>3. /\ req'[p] \in Request /\ req'[p].late = b
        /\ req'[p].pc = req[p].pc /\ req'[p].code = req[p].code
        /\ req'[p].read = req[p].read
    BY <2>1 DEF Request
  <2> QED BY <2>3 DEF b
<1>3. TypeOK'
  <2>1. req' \in [Handlers -> Request]
    BY <1>1, <1>2
  <2> QED BY <1>1, <2>1 DEF TypeOK
<1>4. Checked'
  BY <1>1, <1>2 DEF Inv, Checked, MarkPCs, Totp, Periods
<1>5. RowLock'
  <2>1. /\ rec' = rec
        /\ \A p \in Handlers : /\ req'[p].pc = req[p].pc /\ req'[p].code = req[p].code
                               /\ req'[p].read = req[p].read
    BY <1>1, <1>2
  <2> QED BY <2>1 DEF Inv, RowLock
<1>6. Remembered' /\ Lists' /\ Redeemed' /\ CodeAcceptedOnce' /\ RecoveryCodeOnce'
  BY <1>1 DEF Inv, Remembered, Lists, Redeemed, CodeAcceptedOnce, RecoveryCodeOnce
<1> QED BY <1>3, <1>4, <1>5, <1>6 DEF Inv

-----------------------------------------------------------------------------
(* The theorems.                                                           *)

\* No row, no key, no request.
LEMMA InitInv == Init => Inv
<1> SUFFICES ASSUME Init PROVE Inv
  OBVIOUS
<1>1. \A p \in Handlers : req[p].pc = "idle"
  BY DoneType DEF Init
<1>2. TypeOK
  BY DoneType DEF Init, TypeOK
<1>3. Checked /\ RowLock
  BY <1>1 DEF Checked, RowLock, MarkPCs
<1> QED BY <1>2, <1>3 DEF Inv, Init, Remembered, Lists, Redeemed, CodeAcceptedOnce,
             RecoveryCodeOnce

\* Every statement and command keeps the invariant.
LEMMA NextInv ==
  ASSUME Inv, [Next]_vars
  PROVE  Inv'
<1>1. CASE UNCHANGED vars
  BY <1>1 DEF vars, Inv, TypeOK, Checked, Remembered, RowLock, Lists, Redeemed,
              CodeAcceptedOnce, RecoveryCodeOnce
<1>2. ASSUME NEW p \in Handlers, Start(p) \/ Step(p) \/ Abort(p)
      PROVE  Inv'
  BY <1>2, ReadStep, ReplayStep, RecoverStep, RecoverCommitStep, RowStep
     DEF Start, Step
<1> QED BY <1>1, <1>2, TickStep DEF Next

\* The invariant of the row, the replay store and the requests.
THEOREM Invariance == Spec => []Inv
<1>1. Init => Inv
  BY InitInv
<1>2. Inv /\ [Next]_vars => Inv'
  BY NextInv
<1> QED BY <1>1, <1>2, PTL DEF Spec

\* markUsed: as long as the replay store answers, no string it is given is
\* accepted a second time while its code is valid, whatever races; usedCodeTTL is
\* enough.  Login and step-up give it the trimmed code, Setup and Disable what
\* the client sent.
THEOREM TotpCodesAreSingleUse == Spec => []CodeAcceptedOnce
<1>1. Inv => CodeAcceptedOnce
  BY DEF Inv
<1> QED BY <1>1, Invariance, PTL

\* ConsumeRecoveryCode: no recovery code is redeemed twice, and no other write
\* of the row brings a redeemed one back.
THEOREM RecoveryCodesAreSingleUse == Spec => []RecoveryCodeOnce
<1>1. Inv => RecoveryCodeOnce
  BY DEF Inv
<1> QED BY <1>1, Invariance, PTL

-----------------------------------------------------------------------------
(***************************************************************************)
(* StepUp.  The strengthening for RequireRecentMFA says where a proof of   *)
(* the second factor can be on its way from ValidateStepUp to a served     *)
(* request.  For the counter of wrong codes it relates the codes looked at *)
(* to the ones counted: below the limit they differ by the requests about  *)
(* to count theirs; at the limit nobody comes through any more, and only   *)
(* the requests that had come through can still look at a code.            *)
(***************************************************************************)

\* What a request does between the guards and a code.
SessionPCs == {"enabled", "recent", "attempts", "validate", "fails_incr",
               "fails_expire", "clear", "mark"}

\* The limiter's requests are apart from those of a session.
Apart ==
  \A p \in Handlers :
    /\ req[p].pc \in SessionPCs => req[p].token \in Tokens
    /\ req[p].pc \in {"rate_incr", "rate_expire", "rate_ttl"} =>
         req[p].route = "limited"

\* A mark, or a request past ValidateStepUp, comes from an accepted code.
Marked ==
  /\ \A t \in Tokens : recent[t] > 0 => t \in proved
  /\ \A p \in Handlers : req[p].pc \in {"clear", "mark"} => req[p].token \in proved

\* The requests that passed the check of the counter and have a code to look
\* at, and those that looked at a wrong one and have not counted it.
Looking == {p \in Handlers : At(p, "validate") /\ ~req[p].blind}
Uncounted == {p \in Handlers : At(p, "fails_incr") /\ ~req[p].blind}

WrongCodes ==
  /\ Cardinality(Uncounted) <= tries
  /\ cnt["fails"].n < MaxFails => tries <= cnt["fails"].n + Cardinality(Uncounted)
  /\ cnt["fails"].n >= MaxFails => tries + Cardinality(Looking) < MaxTries

StepUpInv ==
  /\ StepUpTypeOK
  /\ Apart
  /\ Marked /\ ServedWasProved
  /\ WrongCodes

-----------------------------------------------------------------------------
(* What a step of StepUp does to the request that takes it.                *)

\* A guarded request given as a whole.
LEMMA StepUpEffect ==
  ASSUME StepUpTypeOK, NEW p \in Handlers, NEW r \in StepUpRequest,
         req' = [req EXCEPT ![p] = r]
  PROVE  /\ req' \in [Handlers -> StepUpRequest]
         /\ \A q \in Handlers \ {p} : req'[q] = req[q]
         /\ req'[p] = r
BY DEF StepUpTypeOK

\* A goroutine without a guarded request.
LEMMA IdleType == Idle \in StepUpRequest /\ Idle.pc = "idle"
BY DEF Idle, StepUpRequest, StepUpPCs, Routes

\* A request that is answered leaves an idle goroutine.
LEMMA EndRequestEffect ==
  ASSUME StepUpTypeOK, NEW p \in Handlers, EndRequest(p)
  PROVE  /\ req' \in [Handlers -> StepUpRequest]
         /\ \A q \in Handlers \ {p} : req'[q] = req[q]
         /\ req'[p].pc = "idle"
BY IdleType, StepUpEffect DEF EndRequest

\* Goto changes nothing but the next command.
LEMMA StepUpGotoEffect ==
  ASSUME StepUpTypeOK, NEW p \in Handlers, NEW pc \in StepUpPCs, Goto(p, pc)
  PROVE  /\ req' \in [Handlers -> StepUpRequest]
         /\ \A q \in Handlers \ {p} : req'[q] = req[q]
         /\ req'[p].pc = pc
         /\ req'[p].token = req[p].token /\ req'[p].route = req[p].route
         /\ req'[p].blind = req[p].blind
BY DEF StepUpTypeOK, StepUpRequest, Goto

\* A command that goes on and notes whether the count could be read.
LEMMA BlindEffect ==
  ASSUME StepUpTypeOK, NEW p \in Handlers, NEW pc \in StepUpPCs, NEW b \in BOOLEAN,
         req' = [req EXCEPT ![p].pc = pc, ![p].blind = b]
  PROVE  /\ req' \in [Handlers -> StepUpRequest]
         /\ \A q \in Handlers \ {p} : req'[q] = req[q]
         /\ req'[p].pc = pc /\ req'[p].blind = b
         /\ req'[p].token = req[p].token /\ req'[p].route = req[p].route
<1> DEFINE r == [req[p] EXCEPT !.pc = pc, !.blind = b]
<1>1. req[p] \in StepUpRequest
  BY DEF StepUpTypeOK
<1>2. /\ r \in StepUpRequest /\ r.pc = pc /\ r.blind = b
      /\ r.token = req[p].token /\ r.route = req[p].route
  BY <1>1, Zenon DEF StepUpRequest
<1>3. req' = [req EXCEPT ![p] = r]
  BY DEF StepUpTypeOK
<1> HIDE DEF r
<1> QED BY <1>2, <1>3, StepUpEffect

\* A command that notes whether the count was over the limit and goes on.
LEMMA OverEffect ==
  ASSUME StepUpTypeOK, NEW p \in Handlers, NEW pc \in StepUpPCs, NEW b \in BOOLEAN,
         req' = [req EXCEPT ![p].over = b, ![p].pc = pc]
  PROVE  /\ req' \in [Handlers -> StepUpRequest]
         /\ \A q \in Handlers \ {p} : req'[q] = req[q]
         /\ req'[p].pc = pc
         /\ req'[p].token = req[p].token /\ req'[p].route = req[p].route
<1> DEFINE r == [req[p] EXCEPT !.over = b, !.pc = pc]
<1>1. req[p] \in StepUpRequest
  BY DEF StepUpTypeOK
<1>2. /\ r \in StepUpRequest /\ r.pc = pc
      /\ r.token = req[p].token /\ r.route = req[p].route
  BY <1>1, Zenon DEF StepUpRequest
<1>3. req' = [req EXCEPT ![p] = r]
  BY DEF StepUpTypeOK
<1> HIDE DEF r
<1> QED BY <1>2, <1>3, StepUpEffect

-----------------------------------------------------------------------------
(* The counters.                                                           *)

\* INCR adds one below the cap, and keeps the type.
LEMMA IncrementedType ==
  ASSUME StepUpTypeOK, NEW k \in Counters
  PROVE  /\ Incremented(k) \in Counter
         /\ Incremented(k).n = Min(cnt[k].n + 1, Cap[k])
<1>1. cnt[k] \in Counter
  BY DEF StepUpTypeOK
<1>2. Cap[k] \in {MaxRate + 1, MaxFails + 1}
  BY DEF Counters, Cap
<1>3. Min(cnt[k].n + 1, Cap[k]) \in 0..(MaxRate + MaxFails + 1)
  BY <1>1, <1>2, StepUpAssumption DEF Min, Counter
<1> DEFINE m == Min(cnt[k].n + 1, Cap[k])
<1>4. Incremented(k) = [cnt[k] EXCEPT !.n = m]
  BY <1>1 DEF Incremented, Counter
<1> HIDE DEF m
<1> QED BY <1>1, <1>3, <1>4 DEF Counter, m

\* EXPIRE and the passing of time keep the type; EXPIRE keeps the count, and
\* time keeps it or removes the key.
LEMMA AgedType ==
  ASSUME NEW c \in Counter
  PROVE  /\ Expiring(c) \in Counter /\ Expiring(c).n = c.n
         /\ Aged(c) \in Counter /\ Aged(c).n \in {c.n, 0}
         /\ NoKey \in Counter /\ NoKey.n = 0
<1>1. NoKey \in Counter /\ NoKey.n = 0
  BY StepUpAssumption DEF NoKey, Counter
<1>2. Expiring(c) \in Counter /\ Expiring(c).n = c.n
  BY StepUpAssumption DEF Expiring, Counter
<1>3. Aged(c) \in Counter /\ Aged(c).n \in {c.n, 0}
  BY <1>1, StepUpAssumption DEF Aged, Counter
<1> QED BY <1>1, <1>2, <1>3

\* The two sets of requests are finite and have nobody in common.
LEMMA CodesFinite ==
  /\ IsFiniteSet(Looking) /\ IsFiniteSet(Uncounted)
  /\ Cardinality(Looking) \in Nat /\ Cardinality(Uncounted) \in Nat
  /\ Cardinality(Handlers) \in Nat
  /\ Cardinality(Looking) + Cardinality(Uncounted) <= Cardinality(Handlers)
<1>1. Looking \in SUBSET Handlers /\ Uncounted \in SUBSET Handlers
  BY DEF Looking, Uncounted
<1>2. Looking \cap Uncounted = {} /\ Looking \cup Uncounted \in SUBSET Handlers
  BY DEF Looking, Uncounted
<1> HIDE DEF Looking, Uncounted
<1>3. /\ IsFiniteSet(Looking) /\ IsFiniteSet(Uncounted)
      /\ Cardinality(Looking) \in Nat /\ Cardinality(Uncounted) \in Nat
      /\ Cardinality(Handlers) \in Nat
  BY <1>1, StepUpAssumption, FS_Subset, FS_CardinalityType
<1>4. Cardinality(Looking \cup Uncounted) = Cardinality(Looking) + Cardinality(Uncounted)
  BY <1>2, <1>3, FS_EmptySet, FS_Union
<1>5. Cardinality(Looking \cup Uncounted) <= Cardinality(Handlers)
  BY <1>2, StepUpAssumption, FS_Subset
<1> QED BY <1>3, <1>4, <1>5

\* The same of the next state.
LEMMA CodesFinitePrimed ==
  /\ IsFiniteSet(Looking') /\ IsFiniteSet(Uncounted')
  /\ Cardinality(Looking') \in Nat /\ Cardinality(Uncounted') \in Nat
<1>1. Looking' \in SUBSET Handlers /\ Uncounted' \in SUBSET Handlers
  BY DEF Looking, Uncounted
<1> HIDE DEF Looking, Uncounted
<1> QED BY <1>1, StepUpAssumption, FS_Subset, FS_CardinalityType

\* What is not counted yet, as the model counts it.
LEMMA PendingIsUncounted == Pending = Cardinality(Uncounted)
BY DEF Pending, Uncounted

-----------------------------------------------------------------------------
(* Steps of a request that neither look at a code nor count one.           *)

\* The count and the codes stay; at the limit nobody new comes to look at one.
LEMMA CountKept ==
  ASSUME StepUpInv, cnt'["fails"].n = cnt["fails"].n, tries' = tries,
         Uncounted' = Uncounted,
         Looking' \subseteq Looking \/ cnt["fails"].n < MaxFails
  PROVE  WrongCodes'
<1>0. cnt["fails"].n \in Nat /\ tries \in Nat /\ MaxFails \in Nat
  BY StepUpAssumption DEF StepUpInv, StepUpTypeOK, Counters, Counter
<1>1. CASE cnt["fails"].n < MaxFails
  BY <1>0, <1>1 DEF StepUpInv, WrongCodes
<1>2. CASE ~(cnt["fails"].n < MaxFails)
  <2>1. Cardinality(Looking') <= Cardinality(Looking)
    BY <1>2, CodesFinite, FS_Subset
  <2>2. MaxTries \in Nat
    BY <1>0, CodesFinite DEF MaxTries
  <2>3. tries + Cardinality(Looking') < MaxTries
    BY <1>0, <1>2, <2>1, <2>2, CodesFinite, CodesFinitePrimed DEF StepUpInv, WrongCodes
  <2> QED BY <1>0, <1>2, <2>3 DEF StepUpInv, WrongCodes, MaxTries
<1> QED BY <1>1, <1>2

\* A request goes on; what it comes to is its own session's, and proved.
LEMMA GuardKept ==
  ASSUME StepUpInv, NEW p \in Handlers,
         \A q \in Handlers \ {p} : req'[q] = req[q],
         req'[p].pc \in SessionPCs => req'[p].token \in Tokens,
         req'[p].pc \in {"rate_incr", "rate_expire", "rate_ttl"} =>
           req'[p].route = "limited",
         req'[p].pc \in {"clear", "mark"} => req'[p].token \in proved',
         req'[p].pc = "served" /\ req'[p].route = "required" =>
           req'[p].token \in proved',
         \A t \in Tokens : recent'[t] > 0 => t \in proved',
         proved \subseteq proved'
  PROVE  Apart' /\ Marked' /\ ServedWasProved'
<1>1. Apart'
  BY DEF StepUpInv, Apart
<1>2. Marked'
  BY DEF StepUpInv, Marked
<1>3. ServedWasProved'
  BY DEF StepUpInv, ServedWasProved
<1> QED BY <1>1, <1>2, <1>3

\* Both for a request that is not at a code.
LEMMA GuardStep ==
  ASSUME StepUpInv, NEW p \in Handlers, StepUpTypeOK',
         \A q \in Handlers \ {p} : req'[q] = req[q],
         req[p].pc # "fails_incr", req'[p].pc # "fails_incr",
         req'[p].pc = "validate" => cnt["fails"].n < MaxFails \/ req'[p].blind,
         req'[p].pc \in SessionPCs => req'[p].token \in Tokens,
         req'[p].pc \in {"rate_incr", "rate_expire", "rate_ttl"} =>
           req'[p].route = "limited",
         req'[p].pc \in {"clear", "mark"} => req'[p].token \in proved,
         req'[p].pc = "served" /\ req'[p].route = "required" =>
           req'[p].token \in proved,
         \A t \in Tokens : recent'[t] > 0 => t \in proved,
         proved' = proved, tries' = tries, cnt'["fails"].n = cnt["fails"].n
  PROVE  StepUpInv'
<1>1. Apart' /\ Marked' /\ ServedWasProved'
  BY GuardKept
<1>2. Uncounted' = Uncounted
  BY DEF Uncounted
<1>3. Looking' \subseteq Looking \/ cnt["fails"].n < MaxFails
  BY DEF Looking
<1>4. WrongCodes'
  BY <1>2, <1>3, CountKept
<1> QED BY <1>1, <1>4 DEF StepUpInv

-----------------------------------------------------------------------------
(* One lemma per action: the ways in and the rate limiter.                 *)

\* A request arrives at the first command of its route.
LEMMA ArriveStep ==
  ASSUME StepUpInv, NEW p \in Handlers, NEW t \in Tokens \cup {None},
         NEW route \in Routes, Arrive(p, t, route),
         IF route = "limited" THEN t = None ELSE t \in Tokens
  PROVE  StepUpInv'
<1> USE DEF Arrive
<1>0. StepUpTypeOK
  BY DEF StepUpInv
<1> DEFINE r == [Idle EXCEPT !.pc = Entry[route], !.route = route, !.token = t]
<1>1. /\ Entry[route] \in {"rate_incr", "enabled", "attempts"}
      /\ Entry[route] = "rate_incr" => route = "limited"
      /\ route = "limited" => Entry[route] = "rate_incr"
  BY DEF Entry, Routes
<1>2. r \in StepUpRequest /\ r.pc = Entry[route] /\ r.route = route /\ r.token = t
  BY <1>1, IdleType DEF StepUpRequest, StepUpPCs
<1>3. req' = [req EXCEPT ![p] = r]
  OBVIOUS
<1> HIDE DEF r
<1>4. /\ req' \in [Handlers -> StepUpRequest]
      /\ \A q \in Handlers \ {p} : req'[q] = req[q]
      /\ req'[p] = r
  BY <1>0, <1>2, <1>3, StepUpEffect
<1>5. StepUpTypeOK'
  BY <1>0, <1>4 DEF StepUpTypeOK
<1>6. \A u \in Tokens : recent'[u] > 0 => u \in proved
  BY DEF StepUpInv, Marked
<1>7. req'[p].pc \in SessionPCs => req'[p].token \in Tokens
  BY <1>1, <1>2, <1>4 DEF SessionPCs
<1> QED BY <1>1, <1>2, <1>4, <1>5, <1>6, <1>7, GuardStep DEF Arrive

\* The limiter counts its own requests and lets them through on an error.
LEMMA RateIncrStep ==
  ASSUME StepUpInv, NEW p \in Handlers, RateIncr(p)
  PROVE  StepUpInv'
<1> USE DEF RateIncr
<1>0. StepUpTypeOK /\ req[p].route = "limited"
  BY DEF StepUpInv, Apart
<1>1. /\ req' \in [Handlers -> StepUpRequest]
      /\ \A q \in Handlers \ {p} : req'[q] = req[q]
      /\ req'[p].pc \in {"rate_expire", "rate_ttl", "served"}
      /\ req'[p].route = req[p].route
  <2>1. CASE req' = [req EXCEPT ![p].over = Incremented("rate").n > MaxRate,
                       ![p].pc = IF Incremented("rate").n = 1 THEN "rate_expire"
                                                              ELSE "rate_ttl"]
    <3>0. Incremented("rate").n \in Nat
      BY <1>0, IncrementedType DEF Counters, Counter
    <3>1. PICK b \in BOOLEAN : b = (Incremented("rate").n > MaxRate)
      <4>1. (Incremented("rate").n > MaxRate) \in BOOLEAN
        BY <3>0, StepUpAssumption
      <4> QED BY <4>1, Zenon
    <3>2. PICK pc \in {"rate_expire", "rate_ttl"} :
            pc = IF Incremented("rate").n = 1 THEN "rate_expire" ELSE "rate_ttl"
      BY Zenon
    <3>3. pc \in StepUpPCs
      BY DEF StepUpPCs
    <3>4. req' = [req EXCEPT ![p].over = b, ![p].pc = pc]
      BY <2>1, <3>1, <3>2
    <3> HIDE DEF RateIncr
    <3> QED BY <1>0, <3>1, <3>3, <3>4, OverEffect
  <2>2. CASE Goto(p, "served")
    BY <1>0, <2>2, StepUpGotoEffect DEF StepUpPCs
  <2> QED BY <2>1, <2>2
<1>2. cnt' \in [Counters -> Counter] /\ cnt'["fails"] = cnt["fails"]
  BY <1>0, IncrementedType DEF StepUpTypeOK, Counters
<1>3. StepUpTypeOK'
  BY <1>0, <1>1, <1>2 DEF StepUpTypeOK
<1>4. \A u \in Tokens : recent'[u] > 0 => u \in proved
  BY DEF StepUpInv, Marked
<1> QED BY <1>0, <1>1, <1>2, <1>3, <1>4, GuardStep DEF SessionPCs

\* The limiter sets the expiry of its key.
LEMMA RateExpireStep ==
  ASSUME StepUpInv, NEW p \in Handlers, RateExpire(p)
  PROVE  StepUpInv'
<1> USE DEF RateExpire
<1>0. StepUpTypeOK /\ req[p].route = "limited"
  BY DEF StepUpInv, Apart
<1>1. /\ req' \in [Handlers -> StepUpRequest]
      /\ \A q \in Handlers \ {p} : req'[q] = req[q]
      /\ req'[p].pc = "served" /\ req'[p].route = req[p].route
  BY <1>0, StepUpGotoEffect DEF StepUpPCs
<1>2. cnt' \in [Counters -> Counter] /\ cnt'["fails"] = cnt["fails"]
  BY <1>0, AgedType DEF StepUpTypeOK, Counters
<1>3. lost' \subseteq Counters
  BY <1>0 DEF StepUpTypeOK, Counters
<1>4. StepUpTypeOK'
  BY <1>0, <1>1, <1>2, <1>3 DEF StepUpTypeOK
<1>5. \A u \in Tokens : recent'[u] > 0 => u \in proved
  BY DEF StepUpInv, Marked
<1> QED BY <1>0, <1>1, <1>2, <1>4, <1>5, GuardStep DEF SessionPCs

\* The limiter turns the request away, or serves it.
LEMMA RateTTLStep ==
  ASSUME StepUpInv, NEW p \in Handlers, RateTTL(p)
  PROVE  StepUpInv'
<1> USE DEF RateTTL
<1>0. StepUpTypeOK /\ req[p].route = "limited"
  BY DEF StepUpInv, Apart
<1>1. /\ req' \in [Handlers -> StepUpRequest]
      /\ \A q \in Handlers \ {p} : req'[q] = req[q]
      /\ \/ req'[p].pc = "idle"
         \/ req'[p].pc = "served" /\ req'[p].route = req[p].route
  <2>1. EndRequest(p) \/ Goto(p, "served")
    BY Zenon
  <2> QED BY <1>0, <2>1, StepUpGotoEffect, EndRequestEffect DEF StepUpPCs
<1>2. StepUpTypeOK'
  BY <1>0, <1>1 DEF StepUpTypeOK
<1>3. \A u \in Tokens : recent'[u] > 0 => u \in proved
  BY DEF StepUpInv, Marked
<1> QED BY <1>0, <1>1, <1>2, <1>3, GuardStep DEF SessionPCs

-----------------------------------------------------------------------------
(* One lemma per action: the guards of a session.                          *)

\* Without MFA only RequireRecentMFAIfEnabled lets a request through.
LEMMA CheckEnabledStep ==
  ASSUME StepUpInv, NEW p \in Handlers, CheckEnabled(p)
  PROVE  StepUpInv'
<1> USE DEF CheckEnabled
<1>0. StepUpTypeOK /\ req[p].token \in Tokens
  BY DEF StepUpInv, Apart, SessionPCs
<1>1. /\ req' \in [Handlers -> StepUpRequest]
      /\ \A q \in Handlers \ {p} : req'[q] = req[q]
      /\ \/ req'[p].pc = "idle"
         \/ req'[p].pc = "recent" /\ req'[p].token = req[p].token
         \/ req'[p].pc = "served" /\ req'[p].route = "if_enabled"
  <2>1. CASE enabled
    <3> DEFINE r == [req[p] EXCEPT !.pc = "recent", !.route = "required"]
    <3>1. r \in StepUpRequest /\ r.pc = "recent" /\ r.token = req[p].token
      BY <1>0 DEF StepUpTypeOK, StepUpRequest, StepUpPCs, Routes
    <3>2. req' = [req EXCEPT ![p] = r]
      BY <1>0, <2>1 DEF StepUpTypeOK
    <3> HIDE DEF r
    <3> QED BY <1>0, <3>1, <3>2, StepUpEffect
  <2>2. CASE ~enabled /\ req[p].route = "if_enabled"
    BY <1>0, <2>2, StepUpGotoEffect DEF StepUpPCs
  <2>3. CASE ~enabled /\ req[p].route # "if_enabled"
    BY <1>0, <2>3, EndRequestEffect
  <2> QED BY <2>1, <2>2, <2>3
<1>2. StepUpTypeOK'
  BY <1>0, <1>1 DEF StepUpTypeOK
<1>3. \A u \in Tokens : recent'[u] > 0 => u \in proved
  BY DEF StepUpInv, Marked
<1> QED BY <1>0, <1>1, <1>2, <1>3, GuardStep DEF SessionPCs

\* hasRecentMFA: a mark of the request's own session comes from a code.
LEMMA HasRecentStep ==
  ASSUME StepUpInv, NEW p \in Handlers, HasRecent(p)
  PROVE  StepUpInv'
<1> USE DEF HasRecent
<1>0. StepUpTypeOK /\ req[p].token \in Tokens
  BY DEF StepUpInv, Apart, SessionPCs
<1>1. /\ req' \in [Handlers -> StepUpRequest]
      /\ \A q \in Handlers \ {p} : req'[q] = req[q]
      /\ \/ req'[p].pc = "idle"
         \/ req'[p].pc = "attempts" /\ req'[p].token = req[p].token
         \/ req'[p].pc = "served" /\ req'[p].token = req[p].token /\ Recent(p)
  BY <1>0, StepUpGotoEffect, EndRequestEffect DEF StepUpPCs
<1>2. Recent(p) => req[p].token \in proved
  BY <1>0 DEF StepUpInv, Marked, Recent
<1>3. StepUpTypeOK'
  BY <1>0, <1>1 DEF StepUpTypeOK
<1>4. \A u \in Tokens : recent'[u] > 0 => u \in proved
  BY DEF StepUpInv, Marked
<1> QED BY <1>0, <1>1, <1>2, <1>3, <1>4, GuardStep DEF SessionPCs

\* The count is checked against the limit, or could not be read.
LEMMA AttemptsStep ==
  ASSUME StepUpInv, NEW p \in Handlers, Attempts(p)
  PROVE  StepUpInv'
<1> USE DEF Attempts, FailsKey
<1>0. StepUpTypeOK /\ req[p].token \in Tokens
  BY DEF StepUpInv, Apart, SessionPCs
<1>1. /\ req' \in [Handlers -> StepUpRequest]
      /\ \A q \in Handlers \ {p} : req'[q] = req[q]
      /\ \/ req'[p].pc = "idle"
         \/ /\ req'[p].pc = "validate" /\ req'[p].token = req[p].token
            /\ ~(cnt["fails"].n >= MaxFails) \/ req'[p].blind
  <2>1. CASE req' = [req EXCEPT ![p].pc = "validate", ![p].blind = TRUE]
    BY <1>0, <2>1, BlindEffect DEF StepUpPCs
  <2>2. CASE IF cnt["fails"].n >= MaxFails THEN EndRequest(p) ELSE Goto(p, "validate")
    BY <1>0, <2>2, StepUpGotoEffect, EndRequestEffect DEF StepUpPCs
  <2> QED BY <2>1, <2>2
<1>2. StepUpTypeOK'
  BY <1>0, <1>1 DEF StepUpTypeOK
<1>3. ~(cnt["fails"].n >= MaxFails) => cnt["fails"].n < MaxFails
  BY <1>0, StepUpAssumption DEF StepUpTypeOK, Counters, Counter
<1>4. \A u \in Tokens : recent'[u] > 0 => u \in proved
  BY DEF StepUpInv, Marked
<1> QED BY <1>0, <1>1, <1>2, <1>3, <1>4, GuardStep DEF SessionPCs

\* EXPIRE of the counter of wrong codes keeps its count.
LEMMA FailsExpireStep ==
  ASSUME StepUpInv, NEW p \in Handlers, FailsExpire(p)
  PROVE  StepUpInv'
<1> USE DEF FailsExpire, FailsKey, ExpiringFails
<1>0. StepUpTypeOK
  BY DEF StepUpInv
<1>1. /\ req' \in [Handlers -> StepUpRequest]
      /\ \A q \in Handlers \ {p} : req'[q] = req[q]
      /\ req'[p].pc = "idle"
  BY <1>0, EndRequestEffect
<1>2. cnt' \in [Counters -> Counter] /\ cnt'["fails"].n = cnt["fails"].n
  BY <1>0, AgedType DEF StepUpTypeOK, Counters
<1>3. lost' \subseteq Counters
  BY <1>0 DEF StepUpTypeOK, Counters
<1>4. StepUpTypeOK'
  BY <1>0, <1>1, <1>2, <1>3 DEF StepUpTypeOK
<1>5. \A u \in Tokens : recent'[u] > 0 => u \in proved
  BY DEF StepUpInv, Marked
<1> QED BY <1>1, <1>2, <1>4, <1>5, GuardStep DEF SessionPCs

\* markRecentMFA marks the session whose code was accepted.
LEMMA MarkRecentStep ==
  ASSUME StepUpInv, NEW p \in Handlers, MarkRecent(p)
  PROVE  StepUpInv'
<1> USE DEF MarkRecent
<1>0. StepUpTypeOK /\ req[p].token \in Tokens /\ req[p].token \in proved
  BY DEF StepUpInv, Apart, SessionPCs, Marked
<1>1. /\ req' \in [Handlers -> StepUpRequest]
      /\ \A q \in Handlers \ {p} : req'[q] = req[q]
      /\ \/ req'[p].pc = "idle"
         \/ req'[p].pc = "served" /\ req'[p].token = req[p].token
  BY <1>0, StepUpGotoEffect, EndRequestEffect DEF StepUpPCs
<1>2. recent' \in [Tokens -> 0..Window]
  BY <1>0, StepUpAssumption DEF StepUpTypeOK
<1>3. \A u \in Tokens : recent'[u] > 0 => u \in proved
  BY <1>0 DEF StepUpTypeOK, StepUpInv, Marked
<1>4. StepUpTypeOK'
  BY <1>0, <1>1, <1>2 DEF StepUpTypeOK
<1> QED BY <1>0, <1>1, <1>3, <1>4, GuardStep DEF SessionPCs

\* The route's handler runs; it may switch MFA on or off.
LEMMA ServeStep ==
  ASSUME StepUpInv, NEW p \in Handlers, Serve(p)
  PROVE  StepUpInv'
<1> USE DEF Serve
<1>0. StepUpTypeOK
  BY DEF StepUpInv
<1>1. /\ req' \in [Handlers -> StepUpRequest]
      /\ \A q \in Handlers \ {p} : req'[q] = req[q]
      /\ req'[p].pc = "idle"
  BY <1>0, EndRequestEffect
<1>2. enabled' \in BOOLEAN
  BY <1>0 DEF StepUpTypeOK
<1>3. StepUpTypeOK'
  BY <1>0, <1>1, <1>2 DEF StepUpTypeOK
<1>4. \A u \in Tokens : recent'[u] > 0 => u \in proved
  BY DEF StepUpInv, Marked
<1> QED BY <1>1, <1>3, <1>4, GuardStep DEF SessionPCs

-----------------------------------------------------------------------------
(* One lemma per action: the codes, time and the death of the process.     *)

\* The bound follows from the strengthening.
LEMMA TriesBounded ==
  ASSUME StepUpInv
  PROVE  /\ cnt["fails"].n \in Nat /\ tries \in Nat /\ MaxFails \in Nat \ {0}
         /\ MaxTries = MaxFails + Cardinality(Handlers)
         /\ MaxTries \in Nat /\ tries < MaxTries
<1>1. cnt["fails"].n \in Nat /\ tries \in Nat /\ MaxFails \in Nat \ {0}
  BY StepUpAssumption DEF StepUpInv, StepUpTypeOK, Counters, Counter
<1>2. MaxTries = MaxFails + Cardinality(Handlers) /\ MaxTries \in Nat
  BY <1>1, CodesFinite DEF MaxTries
<1>3. tries < MaxTries
  <2> USE DEF StepUpInv, WrongCodes
  <2>1. CASE cnt["fails"].n < MaxFails
    BY <1>1, <1>2, <2>1, CodesFinite
  <2>2. CASE cnt["fails"].n >= MaxFails
    BY <1>1, <1>2, <2>2, CodesFinite
  <2> QED BY <1>1, <2>1, <2>2
<1> QED BY <1>1, <1>2, <1>3

\* ValidateStepUp: the code is right and proves the session, or it is wrong and
\* has been looked at.
LEMMA ValidateStepUpStep ==
  ASSUME StepUpInv, NEW p \in Handlers, ValidateStepUp(p)
  PROVE  StepUpInv'
<1> USE DEF ValidateStepUp
<1>0. StepUpTypeOK /\ req[p].token \in Tokens
  BY DEF StepUpInv, Apart, SessionPCs
<1>1. CASE /\ proved' = proved \cup {req[p].token}
           /\ req' = [req EXCEPT ![p].pc = "clear", ![p].blind = FALSE]
           /\ UNCHANGED tries
  <2>1. /\ req' \in [Handlers -> StepUpRequest]
        /\ \A q \in Handlers \ {p} : req'[q] = req[q]
        /\ req'[p].pc = "clear" /\ req'[p].token = req[p].token
    BY <1>0, <1>1, BlindEffect DEF StepUpPCs
  <2>2. StepUpTypeOK'
    BY <1>0, <1>1, <2>1 DEF StepUpTypeOK
  <2>3. \A u \in Tokens : recent'[u] > 0 => u \in proved'
    BY <1>1 DEF StepUpInv, Marked
  <2>4. Apart' /\ Marked' /\ ServedWasProved'
    BY <1>0, <1>1, <2>1, <2>3, GuardKept
  <2>5. Uncounted' = Uncounted /\ Looking' \subseteq Looking
    BY <2>1 DEF Uncounted, Looking
  <2>6. WrongCodes'
    BY <1>1, <2>5, CountKept
  <2> QED BY <2>2, <2>4, <2>6 DEF StepUpInv
<1>2. CASE /\ tries' = IF req[p].blind THEN tries ELSE Min(tries + 1, MaxTries)
           /\ Goto(p, "fails_incr")
           /\ UNCHANGED proved
  <2>1. /\ req' \in [Handlers -> StepUpRequest]
        /\ \A q \in Handlers \ {p} : req'[q] = req[q]
        /\ req'[p].pc = "fails_incr" /\ req'[p].token = req[p].token
        /\ req'[p].blind = req[p].blind
    BY <1>0, <1>2, StepUpGotoEffect DEF StepUpPCs
  <2>2. \A u \in Tokens : recent'[u] > 0 => u \in proved'
    BY <1>2 DEF StepUpInv, Marked
  <2>3. Apart' /\ Marked' /\ ServedWasProved'
    BY <1>0, <1>2, <2>1, <2>2, GuardKept
  <2>4. tries' = IF req[p].blind THEN tries ELSE tries + 1
    BY <1>2, TriesBounded DEF Min
  <2>5. tries' \in 0..MaxTries
    BY <2>4, TriesBounded
  <2>6. StepUpTypeOK'
    BY <1>0, <1>2, <2>1, <2>5 DEF StepUpTypeOK
  <2>7. WrongCodes'
    <3>1. CASE req[p].blind
      <4>1. Uncounted' = Uncounted /\ Looking' \subseteq Looking
        BY <2>1, <3>1 DEF Uncounted, Looking
      <4> QED BY <2>4, <3>1, <4>1, CountKept
    <3>2. CASE ~req[p].blind
      <4>1. /\ Uncounted' = Uncounted \cup {p} /\ p \notin Uncounted
            /\ Looking' = Looking \ {p} /\ p \in Looking
        BY <2>1, <3>2 DEF Uncounted, Looking
      <4>2. Cardinality(Uncounted') = Cardinality(Uncounted) + 1
        BY <4>1, CodesFinite, FS_AddElement
      <4>3. Cardinality(Looking') = Cardinality(Looking) - 1
        BY <4>1, CodesFinite, FS_RemoveElement
      <4>4. tries' = tries + 1 /\ cnt' = cnt /\ MaxTries' = MaxTries
        BY <2>4, <3>2 DEF MaxTries
      <4>5. /\ Cardinality(Uncounted) <= tries
            /\ cnt["fails"].n < MaxFails =>
                 tries <= cnt["fails"].n + Cardinality(Uncounted)
            /\ cnt["fails"].n >= MaxFails => tries + Cardinality(Looking) < MaxTries
        BY DEF StepUpInv, WrongCodes
      <4> HIDE DEF ValidateStepUp
      <4> QED BY <4>2, <4>3, <4>4, <4>5, TriesBounded, CodesFinite DEF WrongCodes
    <3> QED BY <3>1, <3>2
  <2> QED BY <2>3, <2>6, <2>7 DEF StepUpInv
<1> QED BY <1>1, <1>2

\* recordStepUpFailure: INCR counts the code; when the count reaches the limit,
\* every other request may still have one to look at.  A code that INCR fails
\* to count is not counted as looked at either.
LEMMA FailsIncrStep ==
  ASSUME StepUpInv, NEW p \in Handlers, FailsIncr(p)
  PROVE  StepUpInv'
<1> USE DEF FailsIncr, FailsKey
<1>0. StepUpTypeOK
  BY DEF StepUpInv
<1> DEFINE n == cnt["fails"].n
<1>1. /\ req' \in [Handlers -> StepUpRequest]
      /\ \A q \in Handlers \ {p} : req'[q] = req[q]
      /\ \/ req'[p].pc = "idle"
         \/ req'[p].pc = "fails_expire" /\ req'[p].token = req[p].token
  BY <1>0, BlindEffect, EndRequestEffect DEF StepUpPCs
<1>2. \A u \in Tokens : recent'[u] > 0 => u \in proved'
  BY DEF StepUpInv, Marked
<1>3. req[p].token \in Tokens
  BY DEF StepUpInv, Apart, SessionPCs
<1>4. Apart' /\ Marked' /\ ServedWasProved'
  BY <1>1, <1>2, <1>3, GuardKept DEF SessionPCs
<1>5. Looking' = Looking /\ Uncounted' = Uncounted \ {p}
  BY <1>1 DEF Looking, Uncounted
<1>6. p \in Uncounted <=> ~req[p].blind
  BY DEF Uncounted
<1>7. Cardinality(Uncounted') = IF req[p].blind THEN Cardinality(Uncounted)
                                                ELSE Cardinality(Uncounted) - 1
  BY <1>5, <1>6, CodesFinite, FS_RemoveElement
<1>8. /\ Cardinality(Uncounted) <= tries
      /\ n < MaxFails => tries <= n + Cardinality(Uncounted)
      /\ n >= MaxFails => tries + Cardinality(Looking) < MaxTries
  BY DEF StepUpInv, WrongCodes
<1>9. /\ n \in Nat /\ tries \in Nat /\ MaxFails \in Nat \ {0}
      /\ MaxTries = MaxFails + Cardinality(Handlers)
      /\ MaxTries \in Nat /\ tries < MaxTries
  BY TriesBounded
<1>10. MaxTries' = MaxTries
  BY DEF MaxTries
<1>11. CASE cnt' = [cnt EXCEPT !["fails"] = Incremented("fails")] /\ UNCHANGED tries
  <2>1. cnt' \in [Counters -> Counter] /\ cnt'["fails"].n = Min(n + 1, MaxFails + 1)
    BY <1>0, <1>11, IncrementedType DEF StepUpTypeOK, Counters, Cap
  <2>2. StepUpTypeOK'
    BY <1>0, <1>1, <1>11, <2>1 DEF StepUpTypeOK, MaxTries
  <2>3. /\ n < MaxFails => cnt'["fails"].n = n + 1
        /\ n >= MaxFails => cnt'["fails"].n >= MaxFails
    BY <1>9, <2>1 DEF Min
  <2>4. cnt'["fails"].n \in Nat
    BY <1>9, <2>1 DEF Min
  <2> HIDE DEF n, FailsIncr
  <2>5. Cardinality(Uncounted') <= tries'
    BY <1>7, <1>8, <1>9, <1>11, CodesFinite
  <2>6. cnt'["fails"].n < MaxFails => tries' <= cnt'["fails"].n + Cardinality(Uncounted')
    <3>1. CASE n < MaxFails
      BY <1>7, <1>8, <1>9, <1>11, <2>3, <3>1, CodesFinite
    <3>2. CASE n >= MaxFails
      BY <1>9, <2>3, <2>4, <3>2
    <3> QED BY <1>9, <3>1, <3>2
  <2>7. cnt'["fails"].n >= MaxFails => tries' + Cardinality(Looking') < MaxTries
    BY <1>5, <1>8, <1>9, <1>11, <2>3, CodesFinite
  <2> QED BY <1>4, <1>10, <2>2, <2>5, <2>6, <2>7 DEF StepUpInv, WrongCodes
<1>12. CASE UNCHANGED cnt /\ tries' = IF req[p].blind THEN tries ELSE tries - 1
  <2>1. Cardinality(Uncounted') \in Nat
    BY CodesFinitePrimed
  <2>2. tries' \in 0..MaxTries
    BY <1>7, <1>8, <1>9, <1>12, <2>1, CodesFinite
  <2>3. StepUpTypeOK'
    BY <1>0, <1>1, <1>10, <1>12, <2>2 DEF StepUpTypeOK
  <2>4. cnt'["fails"].n = n
    BY <1>12
  <2> HIDE DEF n, FailsIncr
  <2>5. WrongCodes'
    BY <1>5, <1>7, <1>8, <1>9, <1>10, <1>12, <2>4, CodesFinite DEF WrongCodes
  <2> QED BY <1>4, <2>3, <2>5 DEF StepUpInv
<1> QED BY <1>11, <1>12

\* The counter begins again: what is not counted yet is what was looked at.
LEMMA CounterGone ==
  ASSUME StepUpInv, Uncounted' = Uncounted, cnt'["fails"].n = 0, tries' = Pending
  PROVE  WrongCodes' /\ tries' \in 0..MaxTries
<1>1. tries' = Cardinality(Uncounted')
  BY PendingIsUncounted
<1>2. tries' \in 0..MaxTries
  BY <1>1, CodesFinite, TriesBounded DEF StepUpInv, WrongCodes
<1>3. WrongCodes'
  BY <1>1, CodesFinite, TriesBounded DEF WrongCodes
<1> QED BY <1>2, <1>3

\* clearStepUpFailures deletes the counter, or fails to.
LEMMA ClearFailuresStep ==
  ASSUME StepUpInv, NEW p \in Handlers, Clear(p)
  PROVE  StepUpInv'
<1> USE DEF Clear, FailsKey
<1>0. StepUpTypeOK
  BY DEF StepUpInv
<1>1. /\ req' \in [Handlers -> StepUpRequest]
      /\ \A q \in Handlers \ {p} : req'[q] = req[q]
      /\ req'[p].pc = "mark" /\ req'[p].token = req[p].token
  BY <1>0, StepUpGotoEffect DEF StepUpPCs
<1>2. \A u \in Tokens : recent'[u] > 0 => u \in proved'
  BY DEF StepUpInv, Marked
<1>3. req[p].token \in Tokens /\ req[p].token \in proved
  BY DEF StepUpInv, Apart, SessionPCs, Marked
<1>4. Apart' /\ Marked' /\ ServedWasProved'
  BY <1>1, <1>2, <1>3, GuardKept
<1>5. Uncounted' = Uncounted /\ Looking' = Looking
  BY <1>1 DEF Uncounted, Looking
<1>6. cnt' \in [Counters -> Counter] /\ lost' \subseteq Counters
  <2>1. NoKey \in Counter
    BY StepUpAssumption DEF NoKey, Counter
  <2> QED BY <1>0, <2>1 DEF StepUpTypeOK
<1>7. WrongCodes' /\ tries' \in 0..MaxTries
  <2>1. CASE cnt' = [cnt EXCEPT !["fails"] = NoKey] /\ tries' = Pending
    <3>1. cnt'["fails"].n = 0
      BY <1>0, <2>1 DEF StepUpTypeOK, Counters, NoKey
    <3> QED BY <1>5, <2>1, <3>1, CounterGone
  <2>2. CASE UNCHANGED <<cnt, tries>>
    <3>1. tries' \in 0..MaxTries
      BY <1>0, <2>2 DEF StepUpTypeOK
    <3> QED BY <1>5, <2>2, <3>1, CountKept
  <2> QED BY <2>1, <2>2
<1>8. StepUpTypeOK'
  BY <1>0, <1>1, <1>6, <1>7 DEF StepUpTypeOK, MaxTries
<1> QED BY <1>4, <1>7, <1>8 DEF StepUpInv

\* Time passes: marks and counters age, and a counter may be gone.
LEMMA StepUpTickStep ==
  ASSUME StepUpInv, StepUpTick
  PROVE  StepUpInv'
<1> USE DEF StepUpTick
<1>0. StepUpTypeOK
  BY DEF StepUpInv
<1>1. \A k \in Counters : Aged(cnt[k]) \in Counter /\ Aged(cnt[k]).n \in {cnt[k].n, 0}
  BY <1>0, AgedType DEF StepUpTypeOK
<1>2. cnt' \in [Counters -> Counter] /\ cnt'["fails"] = Aged(cnt["fails"])
  BY <1>1 DEF Counters
<1>3. /\ recent' \in [Tokens -> 0..Window]
      /\ \A t \in Tokens : recent'[t] > 0 => recent[t] > 0
  BY <1>0, StepUpAssumption DEF StepUpTypeOK
<1>4. lost' \subseteq Counters
  BY <1>0 DEF StepUpTypeOK
<1>5. Apart' /\ Marked' /\ ServedWasProved'
  BY <1>3 DEF StepUpInv, Apart, Marked, ServedWasProved
<1>6. Uncounted' = Uncounted /\ Looking' = Looking
  BY DEF Uncounted, Looking
<1>7. WrongCodes' /\ tries' \in 0..MaxTries
  <2>1. CASE Aged(cnt["fails"]).n = 0
    BY <1>2, <1>6, <2>1, CounterGone DEF TriesWith
  <2>2. CASE Aged(cnt["fails"]).n # 0
    <3>1. cnt'["fails"].n = cnt["fails"].n
      BY <1>1, <1>2, <2>2 DEF Counters
    <3>2. tries' = tries
      BY <2>2 DEF TriesWith
    <3>3. tries' \in 0..MaxTries
      BY <1>0, <3>2 DEF StepUpTypeOK
    <3> QED BY <1>6, <3>1, <3>2, <3>3, CountKept
  <2> QED BY <2>1, <2>2
<1>8. StepUpTypeOK'
  BY <1>0, <1>2, <1>3, <1>4, <1>7 DEF StepUpTypeOK, MaxTries
<1> QED BY <1>5, <1>7, <1>8 DEF StepUpInv

\* The process dies: no request is left, and their codes are not counted.
LEMMA DieStep ==
  ASSUME StepUpInv, Die
  PROVE  StepUpInv'
<1> USE DEF Die
<1>0. StepUpTypeOK
  BY DEF StepUpInv
<1>1. req' \in [Handlers -> StepUpRequest] /\ \A q \in Handlers : req'[q].pc = "idle"
  BY IdleType
<1>2. lost' \subseteq Counters
  BY <1>0 DEF StepUpTypeOK
<1>3. tries' = tries - Cardinality(Uncounted)
  BY PendingIsUncounted
<1>4. tries' \in 0..MaxTries
  BY <1>3, CodesFinite, TriesBounded DEF StepUpInv, WrongCodes
<1>5. StepUpTypeOK'
  BY <1>0, <1>1, <1>2, <1>4 DEF StepUpTypeOK, MaxTries
<1>6. Apart' /\ Marked' /\ ServedWasProved'
  BY <1>1 DEF StepUpInv, Apart, Marked, ServedWasProved, SessionPCs
<1>7. Cardinality(Uncounted') = 0 /\ Cardinality(Looking') = 0
  <2>1. Uncounted' = {} /\ Looking' = {}
    BY <1>1 DEF Uncounted, Looking
  <2> QED BY <2>1, FS_EmptySet
<1>8. cnt' = cnt /\ MaxTries' = MaxTries
  BY DEF MaxTries
<1>9. /\ Cardinality(Uncounted) <= tries
      /\ cnt["fails"].n < MaxFails => tries <= cnt["fails"].n + Cardinality(Uncounted)
  BY DEF StepUpInv, WrongCodes
<1>10. WrongCodes'
  BY <1>3, <1>7, <1>8, <1>9, CodesFinite, TriesBounded DEF WrongCodes
<1> QED BY <1>5, <1>6, <1>10 DEF StepUpInv

-----------------------------------------------------------------------------
(* The theorems about StepUp.                                              *)

\* At the start there are no keys and no requests.
LEMMA InitStepUpInv == StepUpInit => StepUpInv
<1> SUFFICES ASSUME StepUpInit PROVE StepUpInv
  OBVIOUS
<1> USE DEF StepUpInit
<1>1. req \in [Handlers -> StepUpRequest] /\ \A q \in Handlers : req[q].pc = "idle"
  BY IdleType
<1>2. cnt \in [Counters -> Counter] /\ cnt["fails"].n = 0
  BY StepUpAssumption DEF NoKey, Counter, Counters
<1>3. MaxFails \in Nat \ {0} /\ MaxTries \in Nat /\ MaxTries > 0
  BY StepUpAssumption, CodesFinite DEF MaxTries
<1>4. recent \in [Tokens -> 0..Window]
  BY StepUpAssumption
<1>5. StepUpTypeOK
  BY <1>1, <1>2, <1>3, <1>4 DEF StepUpTypeOK
<1>6. Apart /\ Marked /\ ServedWasProved
  BY <1>1 DEF Apart, Marked, ServedWasProved, SessionPCs
<1>7. Cardinality(Uncounted) = 0 /\ Cardinality(Looking) = 0
  <2>1. Uncounted = {} /\ Looking = {}
    BY <1>1 DEF Uncounted, Looking
  <2> QED BY <2>1, FS_EmptySet
<1>8. WrongCodes
  BY <1>2, <1>3, <1>7 DEF WrongCodes
<1> QED BY <1>5, <1>6, <1>8 DEF StepUpInv

\* Every command of a request, the passing of time and a crash keep StepUpInv.
LEMMA NextStepUpInv == StepUpInv /\ [StepUpNext]_stepUpVars => StepUpInv'
<1> SUFFICES ASSUME StepUpInv, [StepUpNext]_stepUpVars PROVE StepUpInv'
  OBVIOUS
<1>1. ASSUME NEW p \in Handlers, StepUpStep(p) PROVE StepUpInv'
  BY <1>1, RateIncrStep, RateExpireStep, RateTTLStep, CheckEnabledStep,
     HasRecentStep, AttemptsStep, ValidateStepUpStep, FailsIncrStep,
     FailsExpireStep, ClearFailuresStep, MarkRecentStep, ServeStep
  DEF StepUpStep
<1>2. ASSUME NEW p \in Handlers, Arrive(p, None, "limited") PROVE StepUpInv'
  BY <1>2, ArriveStep DEF Routes
<1>3. ASSUME NEW p \in Handlers, NEW t \in Tokens, NEW route \in Routes \ {"limited"},
             Arrive(p, t, route)
      PROVE  StepUpInv'
  BY <1>3, ArriveStep
<1>4. CASE StepUpTick
  BY <1>4, StepUpTickStep
<1>5. CASE Die
  BY <1>5, DieStep
<1>6. CASE UNCHANGED stepUpVars
  BY <1>6 DEF stepUpVars, StepUpInv, StepUpTypeOK, Apart, Marked, ServedWasProved,
     WrongCodes, Looking, Uncounted, MaxTries
<1> QED BY <1>1, <1>2, <1>3, <1>4, <1>5, <1>6 DEF StepUpNext

\* The keys in front of the sensitive routes keep their types, and the
\* strengthening holds, however requests, failures and time interleave.
THEOREM StepUpInvariance == StepUpSpec => []StepUpInv
<1>1. StepUpInit => StepUpInv
  BY InitStepUpInv
<1>2. StepUpInv /\ [StepUpNext]_stepUpVars => StepUpInv'
  BY NextStepUpInv
<1> QED BY <1>1, <1>2, PTL DEF StepUpSpec

\* RequireRecentMFA: a request is served behind it only if a code was accepted
\* with its own refresh token, for any number of sessions of the user.
THEOREM StepUpIsPerSession == StepUpSpec => []ServedWasProved
<1>1. StepUpInv => ServedWasProved
  BY DEF StepUpInv
<1> QED BY <1>1, StepUpInvariance, PTL

\* stepUpMaxFailedAttempts: while the shared counter lives, fewer wrong codes
\* are looked at than the limit and one per handler, for any limit and any
\* number of handlers.
THEOREM WrongCodesAreLimited == StepUpSpec => []WrongCodesBounded
<1>1. StepUpInv => WrongCodesBounded
  BY TriesBounded DEF WrongCodesBounded
<1> QED BY <1>1, StepUpInvariance, PTL

-----------------------------------------------------------------------------
(* Every counter gets an end.  KeysExpire is inductive with the types.     *)

\* A step of one request keeps it if each counter it touches is gone, has a
\* time to live or an excuse, or is left for this request to expire; and if
\* the request gives up its own EXPIRE of no counter that it leaves alone.
LEMMA KeysKept ==
  ASSUME KeysExpire, NEW p \in Handlers,
         \A q \in Handlers \ {p} : req'[q] = req[q],
         \A k \in Counters :
           \/ cnt'[k].ttl # None \/ ~(cnt'[k].n > 0)
           \/ k \in lost' \/ req'[p].pc = ExpirePC[k]
           \/ /\ cnt[k].n > 0 /\ cnt'[k].ttl = cnt[k].ttl
              /\ k \in lost => k \in lost'
              /\ req[p].pc # ExpirePC[k]
  PROVE  KeysExpire'
<1> SUFFICES ASSUME NEW k \in Counters, cnt'[k].n > 0, cnt'[k].ttl = None,
                    k \notin lost'
             PROVE  \E q \in Handlers : req'[q].pc = ExpirePC[k]
  BY DEF KeysExpire, At
<1>1. CASE req'[p].pc = ExpirePC[k]
  BY <1>1
<1>2. CASE /\ cnt[k].n > 0 /\ cnt'[k].ttl = cnt[k].ttl
           /\ k \in lost => k \in lost'
           /\ req[p].pc # ExpirePC[k]
  <2>1. PICK q \in Handlers : req[q].pc = ExpirePC[k]
    BY <1>2 DEF KeysExpire, At
  <2> QED BY <1>2, <2>1
<1> QED BY <1>1, <1>2

\* A step that leaves counters alone keeps it, unless it skips an EXPIRE.
LEMMA KeysUntouched ==
  ASSUME KeysExpire, NEW p \in Handlers, UNCHANGED <<cnt, lost>>,
         \A q \in Handlers \ {p} : req'[q] = req[q],
         req[p].pc \notin {"rate_expire", "fails_expire"}
  PROVE  KeysExpire'
<1>1. \A k \in Counters : ExpirePC[k] \in {"rate_expire", "fails_expire"}
  BY DEF Counters, ExpirePC
<1> SUFFICES ASSUME NEW k \in Counters, cnt[k].n > 0, cnt[k].ttl = None, k \notin lost
             PROVE  \E q \in Handlers : req'[q].pc = ExpirePC[k]
  BY DEF KeysExpire, At
<1>2. PICK q \in Handlers : req[q].pc = ExpirePC[k]
  BY DEF KeysExpire, At
<1> QED BY <1>1, <1>2

\* What INCR makes of a counter: the first one leaves a key to expire, the
\* others keep the time to live.
LEMMA IncrementedKey ==
  ASSUME StepUpTypeOK, NEW k \in Counters
  PROVE  \/ Incremented(k).n = 1
         \/ cnt[k].n > 0 /\ Incremented(k).ttl = cnt[k].ttl
<1>1. cnt[k] \in Counter
  BY DEF StepUpTypeOK
<1>2. Cap[k] \in {MaxRate + 1, MaxFails + 1}
  BY DEF Counters, Cap
<1>3. Incremented(k).n = Min(cnt[k].n + 1, Cap[k])
  BY IncrementedType
<1>4. Incremented(k).ttl = cnt[k].ttl
  BY <1>1 DEF Incremented, Counter
<1>5. cnt[k].n = 0 => Min(cnt[k].n + 1, Cap[k]) = 1
  BY <1>2, StepUpAssumption DEF Min
<1>6. cnt[k].n \in Nat
  BY <1>1 DEF Counter
<1> QED BY <1>3, <1>4, <1>5, <1>6

\* What EXPIRE makes of a counter: none, or one with a time to live.
LEMMA ExpiringKey ==
  ASSUME NEW c \in Counter
  PROVE  Expiring(c).ttl # None \/ ~(Expiring(c).n > 0)
<1>1. Window # None
  BY StepUpAssumption
<1> QED BY <1>1 DEF Expiring, Counter

\* Time keeps it: a key without a time to live does not age.
LEMMA KeysTick ==
  ASSUME StepUpTypeOK, KeysExpire, StepUpTick
  PROVE  KeysExpire'
<1> SUFFICES ASSUME NEW k \in Counters, cnt'[k].n > 0, cnt'[k].ttl = None
             PROVE  k \in lost' \/ \E p \in Handlers : req'[p].pc = ExpirePC[k]
  BY DEF KeysExpire, At
<1>1. cnt'[k] = Aged(cnt[k]) /\ cnt[k] \in Counter
  BY DEF StepUpTick, StepUpTypeOK
<1>2. Aged(cnt[k]) = cnt[k]
  BY <1>1, StepUpAssumption DEF Aged, Counter, NoKey
<1>3. k \in lost \/ \E p \in Handlers : req[p].pc = ExpirePC[k]
  BY <1>1, <1>2 DEF KeysExpire, At
<1> QED BY <1>1, <1>2, <1>3 DEF StepUpTick

\* A crash keeps it: the EXPIREs it prevents are lost.
LEMMA KeysDie ==
  ASSUME KeysExpire, Die
  PROVE  KeysExpire'
<1> SUFFICES ASSUME NEW k \in Counters, cnt'[k].n > 0, cnt'[k].ttl = None
             PROVE  k \in lost'
  BY DEF KeysExpire
<1>1. k \in lost \/ \E p \in Handlers : At(p, ExpirePC[k])
  BY DEF KeysExpire, Die
<1> QED BY <1>1 DEF Die

\* The limiter: the request that began the key goes on to its EXPIRE.
LEMMA KeysRate ==
  ASSUME StepUpTypeOK, KeysExpire, NEW p \in Handlers, RateIncr(p) \/ RateExpire(p)
  PROVE  KeysExpire'
<1>0. /\ "rate" \in Counters /\ "fails" \in Counters
      /\ ExpirePC["rate"] = "rate_expire" /\ ExpirePC["fails"] = "fails_expire"
      /\ \A k \in Counters : k \in {"rate", "fails"}
      /\ cnt["fails"] \in Counter /\ cnt["rate"] \in Counter
  BY DEF Counters, ExpirePC, StepUpTypeOK
<1>1. CASE RateIncr(p)
  <2>1. CASE Goto(p, "served") /\ UNCHANGED cnt
    <3>1. \A q \in Handlers \ {p} : req'[q] = req[q]
      BY <2>1, StepUpGotoEffect DEF StepUpPCs
    <3> QED BY <1>1, <2>1, <3>1, KeysUntouched DEF RateIncr, At
  <2>2. CASE /\ cnt' = [cnt EXCEPT !["rate"] = Incremented("rate")]
             /\ req' = [req EXCEPT
                  ![p].over = Incremented("rate").n > MaxRate,
                  ![p].pc = IF Incremented("rate").n = 1 THEN "rate_expire"
                                                         ELSE "rate_ttl"]
    <3>1. \A q \in Handlers \ {p} : req'[q] = req[q]
      BY <2>2 DEF StepUpTypeOK
    <3>2. Incremented("rate").n = 1 => req'[p].pc = "rate_expire"
      <4>1. req[p] \in StepUpRequest
        BY DEF StepUpTypeOK
      <4> QED BY <2>2, <4>1 DEF StepUpTypeOK, StepUpRequest
    <3>3. cnt'["rate"] = Incremented("rate") /\ cnt'["fails"] = cnt["fails"]
      BY <1>0, <2>2 DEF StepUpTypeOK
    <3>4. req[p].pc = "rate_incr" /\ lost' = lost
      BY <1>1 DEF RateIncr, At
    <3> QED BY <1>0, <3>1, <3>2, <3>3, <3>4, IncrementedKey, KeysKept
  <2> QED BY <1>1, <2>1, <2>2 DEF RateIncr
<1>2. CASE RateExpire(p)
  <2>1. \A q \in Handlers \ {p} : req'[q] = req[q]
    BY <1>2, StepUpGotoEffect DEF RateExpire, StepUpPCs
  <2>2. cnt'["fails"] = cnt["fails"] /\ lost \subseteq lost' /\ req[p].pc = "rate_expire"
    BY <1>0, <1>2 DEF RateExpire, At, StepUpTypeOK
  <2>3. cnt'["rate"] = Expiring(cnt["rate"]) \/ "rate" \in lost'
    BY <1>0, <1>2 DEF RateExpire, StepUpTypeOK
  <2>4. cnt'["rate"].ttl # None \/ ~(cnt'["rate"].n > 0) \/ "rate" \in lost'
    BY <1>0, <2>3, ExpiringKey
  <2> QED BY <1>0, <2>1, <2>2, <2>4, KeysKept
<1> QED BY <1>1, <1>2

\* The counter of wrong codes: likewise, and a cleared one needs no end.
LEMMA KeysFails ==
  ASSUME StepUpTypeOK, KeysExpire, NEW p \in Handlers,
         FailsIncr(p) \/ FailsExpire(p) \/ Clear(p)
  PROVE  KeysExpire'
<1> USE DEF FailsKey
<1>0. /\ "rate" \in Counters /\ "fails" \in Counters
      /\ ExpirePC["rate"] = "rate_expire" /\ ExpirePC["fails"] = "fails_expire"
      /\ \A k \in Counters : k \in {"rate", "fails"}
      /\ cnt["fails"] \in Counter /\ cnt["rate"] \in Counter
  BY DEF Counters, ExpirePC, StepUpTypeOK
<1>1. CASE FailsIncr(p)
  <2>1. CASE EndRequest(p) /\ UNCHANGED cnt
    <3>1. \A q \in Handlers \ {p} : req'[q] = req[q]
      BY <2>1, EndRequestEffect
    <3> QED BY <1>1, <2>1, <3>1, KeysUntouched DEF FailsIncr, At
  <2>2. CASE /\ cnt' = [cnt EXCEPT !["fails"] = Incremented("fails")]
             /\ IF Incremented("fails").n = 1
                  THEN req' = [req EXCEPT ![p].pc = "fails_expire", ![p].blind = FALSE]
                  ELSE EndRequest(p)
    <3>1. /\ \A q \in Handlers \ {p} : req'[q] = req[q]
          /\ Incremented("fails").n = 1 => req'[p].pc = "fails_expire"
      BY <2>2, BlindEffect, EndRequestEffect DEF StepUpPCs
    <3>2. cnt'["fails"] = Incremented("fails") /\ cnt'["rate"] = cnt["rate"]
      BY <1>0, <2>2 DEF StepUpTypeOK
    <3>3. req[p].pc = "fails_incr" /\ lost' = lost
      BY <1>1 DEF FailsIncr, At
    <3> QED BY <1>0, <3>1, <3>2, <3>3, IncrementedKey, KeysKept
  <2> QED BY <1>1, <2>1, <2>2 DEF FailsIncr
<1>2. CASE FailsExpire(p)
  <2>1. \A q \in Handlers \ {p} : req'[q] = req[q]
    BY <1>2, EndRequestEffect DEF FailsExpire
  <2>2. cnt'["rate"] = cnt["rate"] /\ lost \subseteq lost' /\ req[p].pc = "fails_expire"
    BY <1>0, <1>2 DEF FailsExpire, At, StepUpTypeOK
  <2>3. cnt'["fails"] = Expiring(cnt["fails"]) \/ "fails" \in lost'
    BY <1>0, <1>2 DEF FailsExpire, ExpiringFails, StepUpTypeOK
  <2>4. cnt'["fails"].ttl # None \/ ~(cnt'["fails"].n > 0) \/ "fails" \in lost'
    BY <1>0, <2>3, ExpiringKey
  <2> QED BY <1>0, <2>1, <2>2, <2>4, KeysKept
<1>3. CASE Clear(p)
  <2>1. \A q \in Handlers \ {p} : req'[q] = req[q]
    BY <1>3, StepUpGotoEffect DEF Clear, StepUpPCs
  <2>2. CASE UNCHANGED <<cnt, lost>>
    BY <1>3, <2>1, <2>2, KeysUntouched DEF Clear, At
  <2>3. CASE cnt' = [cnt EXCEPT !["fails"] = NoKey] /\ lost' = lost \ {"fails"}
    <3>1. cnt'["rate"] = cnt["rate"] /\ ~(cnt'["fails"].n > 0)
      BY <1>0, <2>3 DEF StepUpTypeOK, NoKey
    <3>2. req[p].pc = "clear" /\ ("rate" \in lost => "rate" \in lost')
      BY <1>3, <2>3 DEF Clear, At
    <3> QED BY <1>0, <2>1, <3>1, <3>2, KeysKept
  <2> QED BY <1>3, <2>2, <2>3 DEF Clear
<1> QED BY <1>1, <1>2, <1>3

\* The steps that touch no counter.
LEMMA KeysElse ==
  ASSUME StepUpTypeOK, KeysExpire, NEW p \in Handlers,
         \/ RateTTL(p) \/ CheckEnabled(p) \/ HasRecent(p) \/ Attempts(p)
         \/ ValidateStepUp(p) \/ MarkRecent(p) \/ Serve(p)
         \/ \E t \in Tokens \cup {None}, route \in Routes : Arrive(p, t, route)
  PROVE  KeysExpire'
<1>1. UNCHANGED <<cnt, lost>> /\ req[p].pc \notin {"rate_expire", "fails_expire"}
  BY DEF RateTTL, CheckEnabled, HasRecent, Attempts, ValidateStepUp, MarkRecent,
     Serve, Arrive, At
<1>2. \A q \in Handlers \ {p} : req'[q] = req[q]
  BY DEF RateTTL, CheckEnabled, HasRecent, Attempts, ValidateStepUp, MarkRecent,
     Serve, Arrive, Goto, EndRequest, StepUpTypeOK
<1> QED BY <1>1, <1>2, KeysUntouched

\* The limiter and the counters of wrong codes: no key limits a user without
\* end, except one whose EXPIRE failed or died with its process; so it is for
\* any number of requests that interleave their INCRs, EXPIREs and DELs.
THEOREM LimitsHaveAnEnd == StepUpSpec => []KeysExpire
<1>1. StepUpInit => KeysExpire
  BY DEF StepUpInit, KeysExpire, NoKey
<1>2. StepUpTypeOK /\ KeysExpire /\ [StepUpNext]_stepUpVars => KeysExpire'
  <2> SUFFICES ASSUME StepUpTypeOK, KeysExpire, [StepUpNext]_stepUpVars
               PROVE  KeysExpire'
    OBVIOUS
  <2>1. ASSUME NEW p \in Handlers, StepUpStep(p) PROVE KeysExpire'
    BY <2>1, KeysRate, KeysFails, KeysElse DEF StepUpStep
  <2>2. ASSUME NEW p \in Handlers, NEW t \in Tokens \cup {None}, NEW route \in Routes,
               Arrive(p, t, route)
        PROVE  KeysExpire'
    BY <2>2, KeysElse
  <2>3. CASE StepUpTick
    BY <2>3, KeysTick
  <2>4. CASE Die
    BY <2>4, KeysDie
  <2>5. CASE UNCHANGED stepUpVars
    BY <2>5 DEF stepUpVars, KeysExpire, At
  <2>6. "limited" \in Routes
    BY DEF Routes
  <2> QED BY <2>1, <2>2, <2>3, <2>4, <2>5, <2>6 DEF StepUpNext
<1>3. StepUpInv => StepUpTypeOK
  BY DEF StepUpInv
<1> QED BY <1>1, <1>2, <1>3, StepUpInvariance, PTL DEF StepUpSpec
================================================================================
