--------------------------------- MODULE StepUp ---------------------------------
(***************************************************************************)
(* The guards in front of sensitive routes, all of them keys of Redis with *)
(* a time to live: the rate limiter, the counter of wrong step-up codes    *)
(* and the marks of recent second factors (package middleware and the      *)
(* handler StepUp of package mfa).  One user is followed: the keys of      *)
(* different users are different.                                          *)
(*                                                                         *)
(* Every Redis command is a step of its own and may fail; the process may  *)
(* die between two.  Times to live count down, so that time has no end.    *)
(* Module Mfa says when ValidateStepUp accepts a code; here it may or not. *)
(***************************************************************************)
EXTENDS Integers, FiniteSets, Requests

CONSTANTS
  Tokens,     \* refresh tokens of the user's sessions
  Window,     \* the time to live of the three kinds of key
  MaxRate,    \* max of the rate limiter
  MaxFails,   \* stepUpMaxFailedAttempts, mfaMaxFailedAttempts
  Faults      \* TRUE: a Redis command may fail and the process may die

ASSUME StepUpAssumption ==
  /\ {Window, MaxRate, MaxFails} \subseteq Nat \ {0}
  /\ IsFiniteSet(Handlers)
  /\ Faults \in BOOLEAN
  /\ None \notin Tokens \cup Nat

Counters == {"rate", "fails"}
\* Up to which count requests pass, and where a request sets the expiry.
Limit == [rate |-> MaxRate, fails |-> MaxFails - 1]
ExpirePC == [rate |-> "rate_expire", fails |-> "fails_expire"]

\* A counter stays at its Cap: more makes no difference to the code.
Cap == [rate |-> MaxRate + 1, fails |-> MaxFails + 1]
MaxTries == MaxFails + Cardinality(Handlers)

\* n = 0: there is no key; ttl = None: the key has no time to live.
Counter == [n : 0..(MaxRate + MaxFails + 1), ttl : 1..Window \cup {None}]

\* The ways in: behind the rate limiter, behind RequireRecentMFA, behind
\* RequireRecentMFAIfEnabled, and POST /mfa/step-up.  They share no key, so a
\* behaviour follows either the limiter or the others.
Routes == {"limited", "required", "if_enabled", "step_up"}
Entry == [limited |-> "rate_incr", required |-> "enabled",
          if_enabled |-> "enabled", step_up |-> "attempts"]

StepUpPCs == {"idle", "rate_incr", "rate_expire", "rate_ttl", "enabled",
              "recent", "attempts", "validate", "fails_incr", "fails_expire",
              "clear", "mark", "served"}

\* over: the count read was above the limit.  blind is history: the number of
\* wrong codes could not be read.
StepUpRequest == [pc : StepUpPCs, route : Routes, token : Tokens \cup {None},
                  over : BOOLEAN, blind : BOOLEAN]

VARIABLES
  cnt,       \* rl:<prefix>:<user> and mfa:stepup:fails:<user>
  recent,    \* mfa:recent:<user>:<token>: time to live, 0 when there is no key
  enabled,   \* the user has MFA
  limiter,   \* the behaviour follows the rate limiter
  tries,     \* history: wrong codes looked at since the counter began
  proved,    \* history: tokens with which a code was accepted
  lost       \* history: counters whose EXPIRE failed or died

stepUpVars == <<cnt, recent, enabled, limiter, req, tries, proved, lost>>

NoKey == [n |-> 0, ttl |-> None]
Idle == [pc |-> "idle", route |-> "required", token |-> None,
         over |-> FALSE, blind |-> FALSE]

StepUpInit ==
  /\ cnt = [k \in Counters |-> NoKey]
  /\ recent = [t \in Tokens |-> 0]
  /\ enabled \in BOOLEAN /\ limiter \in BOOLEAN
  /\ req = [p \in Handlers |-> Idle]
  /\ tries = 0
  /\ proved = {} /\ lost = {}

EndRequest(p) == req' = [req EXCEPT ![p] = Idle]

Min(a, b) == IF a < b THEN a ELSE b

\* Wrong codes that were looked at and are not counted yet.
Pending == Cardinality({p \in Handlers : At(p, "fails_incr") /\ ~req[p].blind})

-----------------------------------------------------------------------------
(* Redis.                                                                  *)

Incremented(k) == [cnt[k] EXCEPT !.n = Min(@ + 1, Cap[k])]

\* EXPIRE does nothing when the key is gone.
Expiring(c) == IF c.n = 0 THEN c ELSE [c EXCEPT !.ttl = Window]

Aged(c) ==
  IF c.ttl = None THEN c
  ELSE IF c.ttl = 1 THEN NoKey ELSE [c EXCEPT !.ttl = @ - 1]

\* What is left of tries when the counter of wrong codes becomes c.
TriesWith(c) == IF c.n = 0 THEN Pending ELSE tries

StepUpTick ==
  /\ cnt' = [k \in Counters |-> Aged(cnt[k])]
  /\ recent' = [t \in Tokens |-> IF recent[t] = 0 THEN 0 ELSE recent[t] - 1]
  /\ tries' = TriesWith(Aged(cnt["fails"]))
  /\ lost' = {k \in lost : Aged(cnt[k]).n > 0}
  /\ UNCHANGED <<enabled, req, proved, limiter>>

Arrive(p, t, route) ==
  /\ At(p, "idle")
  /\ req' = [req EXCEPT ![p] = [Idle EXCEPT !.pc = Entry[route],
                                            !.route = route, !.token = t]]
  /\ UNCHANGED <<cnt, recent, enabled, tries, proved, limiter, lost>>

-----------------------------------------------------------------------------
(* RateLimiter.Middleware: increment, and fail open on every error.        *)

RateIncr(p) ==
  LET c == Incremented("rate") IN
  /\ At(p, "rate_incr")
  /\ \/ /\ cnt' = [cnt EXCEPT !["rate"] = c]
        /\ req' = [req EXCEPT ![p].over = c.n > MaxRate,
                     ![p].pc = IF c.n = 1 THEN "rate_expire" ELSE "rate_ttl"]
     \/ Faults /\ Goto(p, "served") /\ UNCHANGED cnt
  /\ UNCHANGED <<recent, enabled, tries, proved, limiter, lost>>

RateExpire(p) ==
  /\ At(p, "rate_expire")
  /\ \/ cnt' = [cnt EXCEPT !["rate"] = Expiring(@)] /\ UNCHANGED lost
     \/ Faults /\ lost' = lost \cup {"rate"} /\ UNCHANGED cnt
  /\ Goto(p, "served")
  /\ UNCHANGED <<recent, enabled, tries, proved, limiter>>

RateTTL(p) ==
  /\ At(p, "rate_ttl")
  /\ \/ IF req[p].over THEN EndRequest(p) ELSE Goto(p, "served")
     \/ Faults /\ Goto(p, "served")
  /\ UNCHANGED <<cnt, recent, enabled, tries, proved, limiter, lost>>

-----------------------------------------------------------------------------
(* RequireRecentMFA and RequireRecentMFAIfEnabled.                         *)

\* With MFA the second is the first.
CheckEnabled(p) ==
  /\ At(p, "enabled")
  /\ CASE enabled -> req' = [req EXCEPT ![p].pc = "recent", ![p].route = "required"]
       [] ~enabled /\ req[p].route = "if_enabled" -> Goto(p, "served")
       [] OTHER -> EndRequest(p)
  /\ UNCHANGED <<cnt, recent, enabled, tries, proved, limiter, lost>>

\* hasRecentMFA: an error counts as no mark.  Without a mark and without a
\* code the request is refused.
RecentOfUser(p) == \E t \in Tokens : recent[t] > 0  \* mutant: any session
Recent(p) == recent[req[p].token] > 0
HasRecent(p) ==
  /\ At(p, "recent")
  /\ \/ Recent(p) /\ Goto(p, "served")
     \/ (~Recent(p) \/ Faults) /\ (Goto(p, "attempts") \/ EndRequest(p))
  /\ UNCHANGED <<cnt, recent, enabled, tries, proved, limiter, lost>>

\* stepUpAttemptsExceeded and mfaAttemptsExceeded fail open.
FailsKeyPerRoute(p) ==  \* mutant: the handler StepUp counts apart
  IF req[p].route = "step_up" THEN "rate" ELSE "fails"
FailsKey(p) == "fails"
Attempts(p) ==
  /\ At(p, "attempts")
  /\ \/ IF cnt[FailsKey(p)].n >= MaxFails THEN EndRequest(p) ELSE Goto(p, "validate")
     \/ Faults /\ req' = [req EXCEPT ![p].pc = "validate", ![p].blind = TRUE]
  /\ UNCHANGED <<cnt, recent, enabled, tries, proved, limiter, lost>>

\* ValidateStepUp; without its replay store it refuses.
ValidateStepUp(p) ==
  /\ At(p, "validate")
  /\ \/ /\ proved' = proved \cup {req[p].token}
        /\ req' = [req EXCEPT ![p].pc = "clear", ![p].blind = FALSE]
        /\ UNCHANGED tries
     \/ /\ tries' = IF req[p].blind THEN tries ELSE Min(tries + 1, MaxTries)
        /\ Goto(p, "fails_incr")
        /\ UNCHANGED proved
  /\ UNCHANGED <<cnt, recent, enabled, limiter, lost>>

\* recordStepUpFailure and recordMFAFailure.
FailsIncr(p) ==
  LET c == Incremented(FailsKey(p)) IN
  /\ At(p, "fails_incr")
  /\ \/ /\ cnt' = [cnt EXCEPT ![FailsKey(p)] = c]
        /\ IF c.n = 1
             THEN req' = [req EXCEPT ![p].pc = "fails_expire", ![p].blind = FALSE]
             ELSE EndRequest(p)
        /\ UNCHANGED tries
     \/ /\ Faults /\ EndRequest(p) /\ UNCHANGED cnt
        /\ tries' = IF req[p].blind THEN tries ELSE tries - 1
  /\ UNCHANGED <<recent, enabled, proved, limiter, lost>>

ExpiringNot(p) == cnt[FailsKey(p)]  \* mutant: EXPIRE is forgotten
ExpiringFails(p) == Expiring(cnt[FailsKey(p)])
FailsExpire(p) ==
  /\ At(p, "fails_expire")
  /\ \/ cnt' = [cnt EXCEPT ![FailsKey(p)] = ExpiringFails(p)] /\ UNCHANGED lost
     \/ Faults /\ lost' = lost \cup {FailsKey(p)} /\ UNCHANGED cnt
  /\ EndRequest(p)
  /\ UNCHANGED <<recent, enabled, tries, proved, limiter>>

\* clearStepUpFailures: DEL; its error is not looked at.
Clear(p) ==
  /\ At(p, "clear")
  /\ \/ /\ cnt' = [cnt EXCEPT ![FailsKey(p)] = NoKey]
        /\ tries' = Pending
        /\ lost' = lost \ {FailsKey(p)}
     \/ Faults /\ UNCHANGED <<cnt, tries, lost>>
  /\ Goto(p, "mark")
  /\ UNCHANGED <<recent, enabled, proved, limiter>>

\* markRecentMFA; the request goes on, or is answered by StepUp.
MarkRecent(p) ==
  /\ At(p, "mark")
  /\ \/ /\ recent' = [recent EXCEPT ![req[p].token] = Window]
        /\ IF req[p].route = "step_up" THEN EndRequest(p) ELSE Goto(p, "served")
     \/ Faults /\ EndRequest(p) /\ UNCHANGED recent
  /\ UNCHANGED <<cnt, enabled, tries, proved, limiter, lost>>

\* The route's own handler; POST /mfa/verify and /mfa/disable are among them.
Serve(p) ==
  /\ At(p, "served")
  /\ enabled' \in IF limiter THEN {enabled} ELSE BOOLEAN
  /\ EndRequest(p)
  /\ UNCHANGED <<cnt, recent, tries, proved, limiter, lost>>

\* The process dies; Redis keeps its keys.
Die ==
  /\ Faults
  /\ req' = [p \in Handlers |-> Idle]
  /\ tries' = tries - Pending
  /\ lost' = lost \cup {k \in Counters : \E p \in Handlers : At(p, ExpirePC[k])}
  /\ UNCHANGED <<cnt, recent, enabled, proved, limiter>>

StepUpStep(p) ==
  \/ RateIncr(p) \/ RateExpire(p) \/ RateTTL(p)
  \/ CheckEnabled(p) \/ HasRecent(p) \/ Attempts(p) \/ ValidateStepUp(p)
  \/ FailsIncr(p) \/ FailsExpire(p) \/ Clear(p) \/ MarkRecent(p) \/ Serve(p)

StepUpNext ==
  \/ StepUpTick \/ Die
  \/ \E p \in Handlers :
       \/ StepUpStep(p)
       \/ limiter /\ Arrive(p, None, "limited")
       \/ \E t \in Tokens, route \in Routes \ {"limited"} :
            ~limiter /\ Arrive(p, t, route)

StepUpSpec == StepUpInit /\ [][StepUpNext]_stepUpVars

\* Time passes, and a request that arrived is carried on.
FairSpec ==
  /\ StepUpSpec
  /\ WF_stepUpVars(StepUpTick)
  /\ \A p \in Handlers : WF_stepUpVars(StepUpStep(p))

-----------------------------------------------------------------------------
(* Properties.                                                             *)

\* Every variable has its type.
StepUpTypeOK ==
  /\ cnt \in [Counters -> Counter]
  /\ recent \in [Tokens -> 0..Window]
  /\ enabled \in BOOLEAN /\ limiter \in BOOLEAN
  /\ req \in [Handlers -> StepUpRequest]
  /\ tries \in 0..MaxTries
  /\ proved \subseteq Tokens /\ lost \subseteq Counters

\* RequireRecentMFA: behind it only requests are served whose own session
\* (refresh token) has had a code accepted, whoever else of the user has.
ServedWasProved ==
  \A p \in Handlers :
    At(p, "served") /\ req[p].route = "required" => req[p].token \in proved

\* "failed attempts from this handler and the middleware share one counter":
\* while the counter lives, wrong codes are looked at MaxFails times, and once
\* more for every other request that had passed the check before, whichever
\* way they come in.  Codes that Redis failed to check or to count are apart.
WrongCodesBounded == tries < MaxTries

\* INCR and EXPIRE are two commands: a key that counts has a time to live, or a
\* request is about to give it one, unless the EXPIRE failed or its process died.
KeysExpire ==
  \A k \in Counters :
    cnt[k].n > 0 /\ cnt[k].ttl = None =>
      k \in lost \/ \E p \in Handlers : At(p, ExpirePC[k])

\* The limits end: a user who is over a limit gets below it again, unless the
\* EXPIRE of the counter failed or its process died before it.
LimitsEnd ==
  \A k \in Counters :
    cnt[k].n > Limit[k] ~> (cnt[k].n <= Limit[k] \/ k \in lost)
=================================================================================
