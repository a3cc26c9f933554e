---------------------------------- MODULE Mfa ----------------------------------
(***************************************************************************)
(* The TOTP factor of one account: its row of table user_mfa               *)
(* (backend/internal/mfa/repository.go), the replay store mfa:used:* in    *)
(* Redis and the methods of mfa.Service.  Rows of different accounts share *)
(* nothing.                                                                *)
(*                                                                         *)
(* Time is counted in TOTP periods of 30 s.  The string a client sends for *)
(* the code of a secret for period k is <<secret, k, spelling>>: the       *)
(* library trims it before it compares, so it accepts every spelling in    *)
(* the periods k-1, k and k+1, while the replay store is keyed by the      *)
(* string.  Every request first reads, then decides, then writes; other    *)
(* requests run in between.  Only ConsumeRecoveryCode holds the row's lock *)
(* from its read to its commit.                                            *)
(***************************************************************************)
EXTENDS Integers, FiniteSets, Requests

CONSTANTS
  Secrets,    \* TOTP secrets; each is generated at most once
  Spellings,  \* the strings that are one code once trimmed
  Plain,      \* the trimmed one
  Recovery,   \* recovery codes; each is generated at most once
  BatchSize,  \* codes per batch (8)
  UsedTTL,    \* usedCodeTTL in periods (90 s: 3)
  Outages,    \* TRUE: Redis may be unreachable for a command
  MaxTime     \* bound on the clock

ASSUME MfaAssumption ==
  /\ BatchSize \in Nat /\ UsedTTL \in Nat /\ MaxTime \in Nat
  /\ UsedTTL >= 3  \* "covers the +-1 TOTP window"
  /\ Outages \in BOOLEAN
  /\ Plain \in Spellings
  /\ None \notin Secrets \cup Recovery

Periods == 1..MaxTime  \* every one begins to be valid at 0 or later
Totp == Secrets \X Periods \X Spellings

\* A row of user_mfa; enabled stands for enabled_at IS NOT NULL.
Record == [secret : Secrets \cup {None}, pending : Secrets \cup {None},
           enabled : BOOLEAN, codes : SUBSET Recovery,
           pendingCodes : SUBSET Recovery]

PCs == {"idle", "setup_code", "setup_mark", "upsert", "enable", "disable_mark",
        "delete", "mark", "recover", "recover_commit", "regenerate"}

\* Ordinary login (Validate), step-up (ValidateStepUp) or neither.
Modes == {"login", "stepup", None}

Request == [pc : PCs, code : Totp \cup Recovery \cup {None}, mode : Modes,
            read : SUBSET Recovery, late : BOOLEAN]

VARIABLES
  clock,
  rec,        \* the row, None when absent
  used,       \* mfa:used:<uid>:<string>: the period in which the key expires
  generated,  \* history: secrets and recovery codes already generated
  accepted,   \* history: the TOTP strings, as they were looked up in the replay
              \* store, accepted by login, step-up, Disable or Setup after it
  again,      \* history: those accepted once more while the code was valid
  redeemed    \* history: per recovery code, how often it was accepted

hist == <<generated, accepted, again, redeemed>>
vars == <<clock, rec, used, req, generated, accepted, again,
          redeemed>>

Done == [pc |-> "idle", code |-> None, mode |-> None, read |-> {},
         late |-> FALSE]

Init ==
  /\ clock = 0
  /\ rec = None
  /\ used = [c \in Totp |-> 0]
  /\ req = [p \in Handlers |-> Done]
  /\ generated = {}
  /\ accepted = {}
  /\ again = {}
  /\ redeemed = [r \in Recovery |-> 0]

Finish(p) == req' = [req EXCEPT ![p] = Done]
Begin(p, pc, code, mode) ==
  req' = [req EXCEPT ![p].pc = pc, ![p].code = code, ![p].mode = mode]

\* Histories tell never, once and more than once apart.
More(n) == IF n = 0 THEN 1 ELSE 2

\* The row lock of ConsumeRecoveryCode.
RowUnlockedIgnored == TRUE  \* mutant: SELECT without FOR UPDATE
RowUnlocked == \A p \in Handlers : ~At(p, "recover_commit")

\* totp.Validate with its skew of one period.  It trims the string first: the
\* spelling does not matter.
ValidTotp(code, secret) ==
  /\ secret # None
  /\ code \in Totp
  /\ code[1] = secret
  /\ code[2] - clock \in -1..1

\* ToLower(TrimSpace(code)) at the start of Validate and ValidateStepUp.
Trimmed(code) == IF code \in Totp THEN <<code[1], code[2], Plain>> ELSE code

IsEnabled == rec # None /\ rec.enabled

\* SecretEnc and PendingSecretEnc: no row, or nothing in it, is ErrNotFound.
SecretOf == IF rec = None THEN None ELSE rec.secret
PendingOf == IF rec = None THEN None ELSE rec.pending

\* markUsed is one SETNX of the string it is given: the first to set the key
\* wins, until it expires.
Unused(code) == used[code] <= clock
UsedUntilShort(now) == now + UsedTTL - 1  \* mutant: a period too short
UsedUntil(now) == now + UsedTTL
MarkUsed(code) == used' = [used EXCEPT ![code] = UsedUntil(clock)]

\* The request accepts its string.  A late one may do so in the period after
\* the last in which the code is valid.
Accept(p) ==
  LET code == req[p].code IN
  /\ accepted' = accepted \cup {code}
  /\ again' = IF code \in accepted /\ clock <= code[2] + 1
                THEN again \cup {code} ELSE again

-----------------------------------------------------------------------------
(* Setup and VerifyAndEnable.                                              *)

\* Setup: an enabled factor must be proved with the current code first.  The
\* setup forced by a login presents no code and is refused here.
BeginSetup(p) ==
  /\ At(p, "idle")
  /\ Goto(p, IF IsEnabled THEN "setup_code" ELSE "upsert")
  /\ UNCHANGED <<clock, rec, used, hist>>

SetupCode(p, code) ==
  /\ At(p, "setup_code")
  /\ IF ValidTotp(code, SecretOf) THEN Begin(p, "setup_mark", code, None)
                                  ELSE Finish(p)
  /\ UNCHANGED <<clock, rec, used, hist>>

\* currentCode goes to markUsed untrimmed.  Fails closed: without the replay
\* store there is no new secret.
SetupMark(p) ==
  LET code == req[p].code IN
  /\ At(p, "setup_mark")
  /\ \/ /\ Unused(code)
        /\ MarkUsed(code) /\ Accept(p) /\ Goto(p, "upsert")
     \/ /\ ~Unused(code) \/ Outages
        /\ Finish(p) /\ UNCHANGED <<used, accepted, again>>
  /\ UNCHANGED <<clock, rec, generated, redeemed>>

Batches == {B \in SUBSET (Recovery \ generated) : Cardinality(B) = BatchSize}

\* UpsertPending touches only the pending columns.
UpsertPending(p) ==
  /\ At(p, "upsert")
  /\ RowUnlocked
  /\ \E s \in Secrets \ generated, B \in Batches :
       /\ rec' = IF rec = None
                   THEN [secret |-> None, pending |-> s, enabled |-> FALSE,
                         codes |-> {}, pendingCodes |-> B]
                   ELSE [rec EXCEPT !.pending = s, !.pendingCodes = B]
       /\ generated' = generated \cup {s} \cup B
  /\ Finish(p)
  /\ UNCHANGED <<clock, used, accepted, again, redeemed>>

\* VerifyAndEnable reads the pending secret and checks the code against it ...
Verify(p, code) ==
  /\ At(p, "idle")
  /\ ValidTotp(code, PendingOf)
  /\ Goto(p, "enable")
  /\ UNCHANGED <<clock, rec, used, hist>>

\* ... then Enable promotes the secret that is pending by now, if any.
Enable(p) ==
  /\ At(p, "enable")
  /\ RowUnlocked
  /\ IF PendingOf = None
       THEN UNCHANGED rec
       ELSE rec' = [rec EXCEPT !.secret = rec.pending, !.pending = None,
                               !.enabled = TRUE,
                               !.codes = rec.pendingCodes,
                               !.pendingCodes = {}]
  /\ Finish(p)
  /\ UNCHANGED <<clock, used, hist>>

-----------------------------------------------------------------------------
(* Disable.                                                                *)

Disable(p, code) ==
  /\ At(p, "idle")
  /\ ValidTotp(code, SecretOf)
  /\ Begin(p, "disable_mark", code, None)
  /\ UNCHANGED <<clock, rec, used, hist>>

\* The string of the request goes to markUsed untrimmed, and fails closed.
DisableMark(p) ==
  LET code == req[p].code IN
  /\ At(p, "disable_mark")
  /\ \/ /\ Unused(code)
        /\ MarkUsed(code) /\ Accept(p) /\ Goto(p, "delete")
     \/ /\ ~Unused(code) \/ Outages
        /\ Finish(p) /\ UNCHANGED <<used, accepted, again>>
  /\ UNCHANGED <<clock, rec, generated, redeemed>>

Delete(p) ==
  /\ At(p, "delete")
  /\ RowUnlocked
  /\ rec' = None
  /\ Finish(p)
  /\ UNCHANGED <<clock, used, hist>>

-----------------------------------------------------------------------------
(* Validate and ValidateStepUp.                                            *)

\* A valid TOTP code goes to the replay check, trimmed; anything else is tried as
\* a recovery code, in both modes alike (None: one that was never generated).
Validate(p, code, mode) ==
  /\ At(p, "idle")
  /\ IF ValidTotp(code, SecretOf)
       THEN Begin(p, "mark", Trimmed(code), mode)
       ELSE Begin(p, "recover", IF code \in Recovery THEN code ELSE None, None)
  /\ UNCHANGED <<clock, rec, used, hist>>

\* The replay check.  When Redis is unreachable a step-up is refused and a login
\* goes through unchecked, which the history does not count.
MarkFailsOpen(p) ==  \* mutant: step-up treated like a login
  LET q == req[p] IN
  /\ At(p, "mark")
  /\ \/ Unused(q.code) /\ MarkUsed(q.code) /\ Accept(p)
     \/ ~Unused(q.code) /\ UNCHANGED <<used, accepted, again>>
     \/ Outages /\ UNCHANGED used /\ Accept(p)
  /\ Finish(p)
  /\ UNCHANGED <<clock, rec, generated, redeemed>>
Mark(p) ==
  LET q == req[p] IN
  /\ At(p, "mark")
  /\ \/ Unused(q.code) /\ MarkUsed(q.code) /\ Accept(p)
     \/ ~Unused(q.code) /\ UNCHANGED <<used, accepted, again>>
     \/ Outages /\ UNCHANGED <<used, accepted, again>>
  /\ Finish(p)
  /\ UNCHANGED <<clock, rec, generated, redeemed>>

\* SELECT recovery_codes ... FOR UPDATE, then the bcrypt comparisons.
Recover(p) ==
  LET q == req[p] IN
  /\ At(p, "recover")
  /\ RowUnlocked
  /\ IF rec # None /\ q.code \in rec.codes
       THEN req' = [req EXCEPT ![p].pc = "recover_commit",
                               ![p].read = rec.codes]
       ELSE Finish(p)
  /\ UNCHANGED <<clock, rec, used, hist>>

\* The list that was read, without the match, is written back.
RecoverCommit(p) ==
  LET q == req[p] IN
  /\ At(p, "recover_commit")
  /\ rec' = IF rec = None THEN None
                          ELSE [rec EXCEPT !.codes = q.read \ {q.code}]
  /\ redeemed' = [redeemed EXCEPT ![q.code] = More(@)]
  /\ Finish(p)
  /\ UNCHANGED <<clock, used, generated, accepted, again>>

-----------------------------------------------------------------------------
(* RegenerateRecoveryCodes.                                                *)

BeginRegenerate(p) ==
  /\ At(p, "idle")
  /\ IsEnabled
  /\ Goto(p, "regenerate")
  /\ UNCHANGED <<clock, rec, used, hist>>

UpdateRecoveryCodes(p) ==
  /\ At(p, "regenerate")
  /\ RowUnlocked
  /\ \E B \in Batches :
       /\ rec' = IF rec = None THEN None ELSE [rec EXCEPT !.codes = B]
       /\ generated' = generated \cup B
  /\ Finish(p)
  /\ UNCHANGED <<clock, used, accepted, again, redeemed>>

\* A statement fails or the client goes away: the request stops (a
\* transaction rolls back).
Abort(p) ==
  /\ ~At(p, "idle")
  /\ Finish(p)
  /\ UNCHANGED <<clock, rec, used, hist>>

\* The router's 30 s timeout (one period) cancels a request that is late.
Tick ==
  /\ clock < MaxTime
  /\ \A p \in Handlers : ~req[p].late
  /\ clock' = clock + 1
  /\ req' = [p \in Handlers |-> [req[p] EXCEPT !.late = ~At(p, "idle")]]
  /\ UNCHANGED <<rec, used, hist>>

Start(p) ==
  \/ BeginSetup(p) \/ BeginRegenerate(p)
  \/ \E c \in Totp : Verify(p, c) \/ Disable(p, c)
  \/ \E c \in Totp \cup Recovery, m \in {"login", "stepup"} : Validate(p, c, m)

Step(p) ==
  \/ \E c \in Totp : SetupCode(p, c)
  \/ SetupMark(p) \/ UpsertPending(p) \/ Enable(p)
  \/ DisableMark(p) \/ Delete(p)
  \/ Mark(p) \/ Recover(p) \/ RecoverCommit(p) \/ UpdateRecoveryCodes(p)

Next ==
  \/ \E p \in Handlers : Start(p) \/ Step(p) \/ Abort(p)
  \/ Tick

Spec == Init /\ [][Next]_vars

-----------------------------------------------------------------------------
(* Properties.                                                             *)

\* The columns and locals keep their types.
TypeOK ==
  /\ clock \in Nat
  /\ rec \in Record \cup {None}
  /\ used \in [Totp -> Nat]
  /\ req \in [Handlers -> Request]
  /\ generated \subseteq Secrets \cup Recovery
  /\ accepted \subseteq Totp
  /\ again \subseteq Totp
  /\ redeemed \in [Recovery -> Nat]

\* usedCodeTTL "covers the +-1 TOTP window": apart from logins let through while
\* Redis is unreachable, no string markUsed is given is accepted twice while its
\* code is valid, by login, step-up, Disable and the rotation of the secret
\* together, whoever races and whenever Redis fails.  Login and step-up trim the
\* code before, so among them every code is accepted once; Setup and Disable do
\* not, and accept a code once per spelling.  A request that validates the code
\* in its last period and marks it in the next one is outside: the key of the
\* first use may just have expired.
CodeAcceptedOnce == again = {}

\* ConsumeRecoveryCode: "two concurrent requests presenting the same code cannot
\* both succeed"; nor can a used code come back through another request's write.
RecoveryCodeOnce ==
  \A r \in Recovery :
    /\ redeemed[r] <= 1
    /\ redeemed[r] = 1 /\ rec # None => r \notin rec.codes \cup rec.pendingCodes
================================================================================
