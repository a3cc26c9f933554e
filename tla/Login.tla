--------------------------------- MODULE Login ---------------------------------
(***************************************************************************)
(* Signing in to one account: auth.Service.Login with its lockout counters *)
(* (login:fails:<h>, login:locked:<h>), the pending second factor          *)
(* (mfa:pending:<hash>), MFAChallenge, and the WebAuthn ceremonies         *)
(* (webauthn:login:<uid>, webauthn:disco:<id>) of the passkey as second    *)
(* factor and of the passwordless login.                                   *)
(*                                                                         *)
(* The lockout keys hash the email as the client wrote it, while           *)
(* FindByEmail lowercases and trims it: every spelling of the account's    *)
(* address has a counter and a lock of its own.                            *)
(*                                                                         *)
(* One action is one Redis command together with the local decisions that  *)
(* follow it; requests interleave between commands.  Whether a password, a *)
(* TOTP code or an assertion is right is an input.  completeLogin ends a   *)
(* login here; its statements are modelled in Sessions, the TOTP factor in *)
(* Mfa.                                                                    *)
(***************************************************************************)
EXTENDS Naturals, FiniteSets, Requests

CONSTANTS
  Emails,       \* spellings of the account's address
  Stored,       \* the normalised one, in users.email
  Pending,      \* pending-login tokens; each is generated at most once
  Challenges,   \* WebAuthn challenges; each is generated at most once
  MaxAttempts,  \* setting max_login_attempts
  RiskBased,    \* setting risk_based_auth_enabled
  GlobalMFA,    \* setting global_mfa_required
  RedisErrors,  \* TRUE: any Redis command may fail
  MaxFails      \* bound on the failure counter

ASSUME LoginAssumption ==
  /\ {MaxAttempts, MaxFails} \subseteq Nat
  /\ {RiskBased, GlobalMFA, RedisErrors} \subseteq BOOLEAN
  /\ Stored \in Emails
  /\ None \notin Pending \cup Challenges
  /\ IsFiniteSet(Handlers)

LoginPCs == {"idle", "compare", "incr", "lock", "clear", "factors",
             "save_pending", "second", "save_ceremony", "load", "consume",
             "complete"}

\* calculateRiskScore against the two thresholds.
Risks == {"low", "mfa", "block"}

LoginRequest == [pc : LoginPCs, email : Emails \cup {None},
                 pending : Pending \cup {None},
                 challenge : Challenges \cup {None}, count : Nat, risk : Risks,
                 setup : BOOLEAN, unchecked : BOOLEAN]

VARIABLES
  fails,     \* per spelling, login:fails:<h>; it has no TTL
  lock,      \* per spelling, login:locked:<h>: the minutes it still has to live
  pend,      \* mfa:pending:<hash>: None, "challenge" or "setup"
  ceremony,  \* webauthn:login:<uid>: the challenge, or None
  disco,     \* webauthn:disco:<id>: the challenges whose key exists
  active,    \* users.is_active
  factors,   \* what the account has configured: "totp", "passkey"
  issued,    \* history: pending tokens and challenges already generated
  tries,     \* history: per pending token, how often a TOTP code was tried
  wins,      \* history: per challenge, completed logins
  overrun    \* history: per spelling, passwords compared since its present lock
             \* was set by requests whose TTL was answered, counted up to the
             \* number of handlers

redis == <<fails, lock, pend, ceremony, disco>>
history == <<issued, tries, wins, overrun>>
loginVars == <<fails, lock, pend, ceremony, disco, active, factors, req,
              issued, tries, wins, overrun>>

NoLogin == [pc |-> "idle", email |-> None, pending |-> None, challenge |-> None,
            count |-> 0, risk |-> "low", setup |-> FALSE, unchecked |-> FALSE]

LoginInit ==
  /\ fails = [e \in Emails |-> 0]
  /\ lock = [e \in Emails |-> 0]
  /\ pend = [k \in Pending |-> None]
  /\ ceremony = None
  /\ disco = {}
  /\ active = TRUE
  /\ factors \in SUBSET {"totp", "passkey"}
  /\ req = [p \in Handlers |-> NoLogin]
  /\ issued = {}
  /\ tries = [k \in Pending |-> 0]
  /\ wins = [ch \in Challenges |-> 0]
  /\ overrun = [e \in Emails |-> 0]

EndLogin(p) == req' = [req EXCEPT ![p] = NoLogin]
Begin(p, pc, k, ch) ==
  req' = [req EXCEPT ![p] = [NoLogin EXCEPT !.pc = pc, !.pending = k,
                                            !.challenge = ch]]

\* Histories tell never, once and more than once apart.
More(n) == IF n = 0 THEN 1 ELSE 2

-----------------------------------------------------------------------------
(* Login: the password step.                                               *)

\* TTL of the lock of the spelling.  A request turned away does nothing; an
\* error admits it.
LockedNever(email) == FALSE  \* mutant: the lock is not looked at
Locked(email) == lock[email] > 0

Admit(p, email, unchecked) ==
  req' = [req EXCEPT ![p] = [NoLogin EXCEPT !.pc = "compare", !.email = email,
                                            !.unchecked = unchecked]]

CheckLockout(p, email) ==
  /\ At(p, "idle")
  /\ fails[email] < MaxFails
  /\ \/ ~Locked(email) /\ Admit(p, email, FALSE)
     \/ RedisErrors /\ Admit(p, email, TRUE)
  /\ UNCHANGED <<redis, active, factors, history>>

\* FindByEmail, which finds the account under every spelling, and the bcrypt
\* comparison; calculateRiskScore when it is right.
Compare(p, right, risk) ==
  LET e == req[p].email IN
  /\ At(p, "compare")
  /\ req' = [req EXCEPT ![p] =
       IF right /\ active
         THEN [NoLogin EXCEPT !.pc = "clear", !.email = e, !.risk = risk]
         ELSE [NoLogin EXCEPT !.pc = "incr", !.email = e]]
  /\ overrun' = IF /\ lock[e] > 0 /\ ~req[p].unchecked
                   /\ overrun[e] < Cardinality(Handlers)
                  THEN [overrun EXCEPT ![e] = overrun[e] + 1] ELSE overrun
  /\ UNCHANGED <<redis, active, factors, issued, tries, wins>>

\* recordFailedAttempt: INCR ...
Incr(p) ==
  LET e == req[p].email
      count == fails[e] + 1 IN
  /\ At(p, "incr")
  /\ fails' = [fails EXCEPT ![e] = count]
  /\ IF count >= MaxAttempts
       THEN req' = [req EXCEPT ![p].pc = "lock", ![p].count = count]
       ELSE EndLogin(p)
  /\ UNCHANGED <<lock, pend, ceremony, disco, active, factors, history>>

\* Minutes of lockout after the count-th failure.
LockMinutes(count) ==
  LET diff == count - MaxAttempts IN
  CASE diff < 3 -> 1
    [] diff >= 3 /\ diff < 6 -> 5
    [] OTHER -> 30

\* ... then SET of the lock, whatever it holds by now.
SetLock(p) ==
  /\ At(p, "lock")
  /\ lock' = [lock EXCEPT ![req[p].email] = LockMinutes(req[p].count)]
  /\ overrun' = [overrun EXCEPT ![req[p].email] = 0]
  /\ EndLogin(p)
  /\ UNCHANGED <<fails, pend, ceremony, disco, active, factors, issued,
                 tries, wins>>

\* DEL of the counter and the lock of a spelling.
DelLockout(email) ==
  /\ fails' = [fails EXCEPT ![email] = 0]
  /\ lock' = [lock EXCEPT ![email] = 0]
  /\ overrun' = [overrun EXCEPT ![email] = 0]

\* The password was right; a risky login is refused.
Proceed(p) ==
  IF RiskBased /\ req[p].risk = "block" THEN EndLogin(p)
  ELSE req' = [req EXCEPT ![p].pc = "factors", ![p].email = None]

\* clearFailedAttempts: DEL of both keys.
ClearFailedAttempts(p) ==
  /\ At(p, "clear")
  /\ DelLockout(req[p].email)
  /\ Proceed(p)
  /\ UNCHANGED <<pend, ceremony, disco, active, factors, issued, tries, wins>>

\* A second factor that exists, or that is asked for and so must be set up.
ForceSetup(q) ==
  /\ factors = {}
  /\ GlobalMFA \/ (RiskBased /\ q.risk # "low")

Factors(p) ==
  LET q == req[p] IN
  /\ At(p, "factors")
  /\ IF factors # {} \/ ForceSetup(q)
       THEN req' = [req EXCEPT ![p].pc = "save_pending",
                               ![p].setup = ForceSetup(q)]
       ELSE Goto(p, "complete")
  /\ UNCHANGED <<redis, active, factors, history>>

\* Bound: it waits when the pending tokens are used up.
SavePending(p) ==
  /\ At(p, "save_pending")
  /\ \E k \in Pending \ issued :
       /\ pend' = [pend EXCEPT ![k] = IF req[p].setup THEN "setup"
                                                      ELSE "challenge"]
       /\ issued' = issued \cup {k}
  /\ EndLogin(p)
  /\ UNCHANGED <<fails, lock, ceremony, disco, active, factors, tries,
                 wins, overrun>>

-----------------------------------------------------------------------------
(* The second factor.                                                      *)

\* MFAChallenge: GETDEL of the pending login, before the code is looked at.
MFAChallengeKept(p, k) ==  \* mutant: GET instead of GETDEL
  /\ At(p, "idle") /\ pend[k] # None
  /\ req' = [req EXCEPT ![p] = [NoLogin EXCEPT !.pc = "second", !.pending = k,
                                               !.setup = pend[k] = "setup"]]
  /\ UNCHANGED <<redis, active, factors, history>>
MFAChallenge(p, k) ==
  /\ At(p, "idle") /\ pend[k] # None
  /\ req' = [req EXCEPT ![p] = [NoLogin EXCEPT !.pc = "second", !.pending = k,
                                               !.setup = pend[k] = "setup"]]
  /\ pend' = [pend EXCEPT ![k] = None]
  /\ UNCHANGED <<fails, lock, ceremony, disco, active, factors, history>>

\* VerifyAndEnable of a forced setup, or Validate.
SecondFactor(p, right) ==
  LET q == req[p] IN
  /\ At(p, "second")
  /\ tries' = [tries EXCEPT ![q.pending] = More(@)]
  /\ IF right /\ (q.setup \/ "totp" \in factors)
       THEN /\ Goto(p, "complete")
            /\ factors' = IF q.setup THEN factors \cup {"totp"} ELSE factors
       ELSE EndLogin(p) /\ UNCHANGED factors
  /\ UNCHANGED <<redis, active, issued, wins, overrun>>

\* WebAuthnLoginBegin: the pending login is read, not consumed ...
WebAuthnLoginBegin(p, k) ==
  /\ At(p, "idle") /\ pend[k] # None
  /\ "passkey" \in factors
  /\ Challenges \ issued # {}
  /\ Begin(p, "save_ceremony", k, None)
  /\ UNCHANGED <<redis, active, factors, history>>

\* ... and the ceremony of the user is replaced.  Bound: it waits when the
\* challenges are used up.
SaveSession(p) ==
  /\ At(p, "save_ceremony")
  /\ \E ch \in Challenges \ issued :
       ceremony' = ch /\ issued' = issued \cup {ch}
  /\ EndLogin(p)
  /\ UNCHANGED <<fails, lock, pend, disco, active, factors, tries, wins,
                 overrun>>

\* WebAuthnLoginFinish: GET of the pending login ...
WebAuthnLoginFinish(p, k, ch) ==
  /\ At(p, "idle") /\ pend[k] # None /\ ch \in issued
  /\ Begin(p, "load", k, ch)
  /\ UNCHANGED <<redis, active, factors, history>>

\* ... GETDEL of the ceremony; the assertion must be for its challenge ...
AfterLoadKept(c) == c  \* mutant: GET instead of GETDEL
AfterLoad(c) == None

LoadSession(p) ==
  LET q == req[p] IN
  /\ At(p, "load")
  /\ ceremony' = AfterLoad(ceremony)
  /\ IF ceremony = q.challenge /\ "passkey" \in factors
       THEN Goto(p, "consume") ELSE EndLogin(p)
  /\ UNCHANGED <<fails, lock, pend, disco, active, factors, history>>

\* ... DEL of the pending login, whose answer is not looked at.
ConsumePending(p) ==
  /\ At(p, "consume")
  /\ \/ pend' = [pend EXCEPT ![req[p].pending] = None]
     \/ RedisErrors /\ UNCHANGED pend
  /\ Goto(p, "complete")
  /\ UNCHANGED <<fails, lock, ceremony, disco, active, factors, history>>

-----------------------------------------------------------------------------
(* Passwordless login.                                                     *)

PasswordlessBegin(p) ==
  /\ At(p, "idle")
  /\ \E ch \in Challenges \ issued :
       disco' = disco \cup {ch} /\ issued' = issued \cup {ch}
  /\ UNCHANGED <<fails, lock, pend, ceremony, active, factors, req,
                 tries, wins, overrun>>

\* GETDEL of the ceremony; right: the assertion verifies and is the account's.
PasswordlessFinish(p, ch, right) ==
  /\ At(p, "idle") /\ ch \in disco
  /\ disco' = disco \ {ch}
  /\ IF right /\ "passkey" \in factors THEN Begin(p, "complete", None, ch)
                                       ELSE UNCHANGED req
  /\ UNCHANGED <<fails, lock, pend, ceremony, active, factors, history>>

-----------------------------------------------------------------------------

\* FindByID (a password login read the account before) and completeLogin.
Complete(p) ==
  /\ At(p, "complete")
  /\ wins' = [ch \in Challenges |->
                IF ch = req[p].challenge /\ active THEN More(wins[ch])
                                                  ELSE wins[ch]]
  /\ EndLogin(p)
  /\ UNCHANGED <<redis, active, factors, issued, tries, overrun>>

\* The administrator unlocks the account: the keys of the address in its row.
UnlockUser ==
  /\ DelLockout(Stored)
  /\ UNCHANGED <<pend, ceremony, disco, active, factors, req, issued, tries,
                 wins>>

SetActive ==
  /\ active' = ~active
  /\ UNCHANGED <<redis, factors, req, history>>

\* Pending logins and ceremonies live five minutes.
Expire ==
  /\ \/ \E k \in Pending : /\ pend[k] # None
                           /\ pend' = [pend EXCEPT ![k] = None]
                           /\ UNCHANGED <<ceremony, disco>>
     \/ ceremony # None /\ ceremony' = None /\ UNCHANGED <<pend, disco>>
     \/ \E ch \in disco : disco' = disco \ {ch} /\ UNCHANGED <<pend, ceremony>>
  /\ UNCHANGED <<fails, lock, active, factors, req, history>>

\* The counters and the lock ignore errors; elsewhere a request ends.
CommandFails(p) ==
  /\ RedisErrors
  /\ \/ req[p].pc \in {"incr", "lock", "save_pending", "save_ceremony", "load"}
        /\ EndLogin(p)
     \/ At(p, "clear") /\ Proceed(p)
  /\ UNCHANGED <<redis, active, factors, history>>

\* A minute passes.
Tick ==
  /\ \E e \in Emails : lock[e] > 0
  /\ lock' = [e \in Emails |-> IF lock[e] = 0 THEN 0 ELSE lock[e] - 1]
  /\ overrun' = [e \in Emails |-> IF lock[e] <= 1 THEN 0 ELSE overrun[e]]
  /\ UNCHANGED <<fails, pend, ceremony, disco, active, factors, req, issued, tries,
                 wins>>

\* The endpoints of a pending login, and those of the passwordless login.
PendingRequest(p) ==
  \/ \E k \in Pending : MFAChallenge(p, k) \/ WebAuthnLoginBegin(p, k)
  \/ \E k \in Pending, ch \in Challenges : WebAuthnLoginFinish(p, k, ch)

PasswordlessRequest(p) ==
  \/ PasswordlessBegin(p)
  \/ \E ch \in Challenges, right \in BOOLEAN : PasswordlessFinish(p, ch, right)

Start(p) ==
  \/ \E email \in Emails : CheckLockout(p, email)
  \/ PendingRequest(p) \/ PasswordlessRequest(p)

Step(p) ==
  \/ \E right \in BOOLEAN, risk \in Risks : Compare(p, right, risk)
  \/ Incr(p) \/ SetLock(p) \/ ClearFailedAttempts(p) \/ Factors(p)
  \/ SavePending(p) \/ SaveSession(p) \/ LoadSession(p) \/ ConsumePending(p)
  \/ \E right \in BOOLEAN : SecondFactor(p, right)
  \/ Complete(p)

LoginNext ==
  \/ \E p \in Handlers : Start(p) \/ Step(p) \/ CommandFails(p)
  \/ UnlockUser \/ SetActive \/ Expire \/ Tick

LoginSpec == LoginInit /\ [][LoginNext]_loginVars

-----------------------------------------------------------------------------
(* Properties.                                                             *)

\* The keys and locals keep their types.
LoginTypeOK ==
  /\ fails \in [Emails -> Nat] /\ lock \in [Emails -> Nat]
  /\ overrun \in [Emails -> Nat]
  /\ pend \in [Pending -> {"challenge", "setup", None}]
  /\ ceremony \in Challenges \cup {None}
  /\ disco \subseteq Challenges
  /\ active \in BOOLEAN
  /\ factors \subseteq {"totp", "passkey"}
  /\ req \in [Handlers -> LoginRequest]
  /\ issued \subseteq Pending \cup Challenges
  /\ tries \in [Pending -> Nat]
  /\ wins \in [Challenges -> Nat]

\* "The single-use ceremony session makes concurrent finishes safe": however
\* finishes race with each other and with new ceremonies, an assertion for one
\* challenge signs in at most once, as second factor or passwordless.
ChallengeOnce == \A ch \in Challenges : wins[ch] <= 1

\* Entering the password buys one guess at the TOTP code: requests racing with
\* the same pending token do not try two codes.
OneTryPerPending == \A k \in Pending : tries[k] <= 1

\* A lockout stops the guessing under the spelling of the address it was set for,
\* except for requests that had passed checkLockout when it was set: while it
\* stands fewer passwords are compared under that spelling than there are
\* requests, not counting those let through because Redis did not answer.  Another
\* spelling of the address has a lock of its own.
OverrunBounded ==
  \A e \in Emails : lock[e] > 0 => overrun[e] < Cardinality(Handlers)
================================================================================
