# TLA+ models of the zerotrust authentication service

This directory specifies the stateful core of the Go backend (`src/backend`) in
TLA+, checks it with TLC on small instances and proves the safety properties of
all its components, for every size of the system, with TLAPS.

The backend is a stateless HTTP server: what a request leaves behind is in
PostgreSQL or in Redis (the exception is the settings cache). Requests are
goroutines that interleave between any two SQL statements or Redis commands,
also across server instances. Hardly any operation that takes more than one
statement is a transaction, and that is where the difficulty of this code lies.
The models therefore take **one statement or one Redis command, with the local
decisions that follow it, as one step**.

## Inventory

| Component | State | Operations | What is hard | What makes it correct |
|---|---|---|---|---|
| Browser sessions (`internal/session`, `auth.completeLogin`, `RefreshTokens`, `Logout`) | table `sessions`, row locks | login, refresh (rotation), logout, revoke one/others/all, cleanup worker | rotation racing revocation; READ COMMITTED snapshots; reuse detection on rows that are purged; unanswered COMMIT | one successor per token, one live token per login, a revocation is final, the absolute deadline does not move |
| OIDC grants (`internal/oidc`) | `oauth2:code:*`, `oauth2:refresh:*`, tombstones, user and family indexes | consent, code exchange, refresh, revoke, revoke all | pipelines that are not transactions; ignored errors; index and token out of step | single use, one live token per family, grants only narrow, revoked grants stay revoked |
| OIDC client registry and endpoints (`internal/oidc`) | `oauth2_clients`, codes, access tokens and their blocklist | register, change, rotate, delete; authorize, consent, token, introspect, revoke, userinfo, end_session | the registry and the user change while a request reads them in several statements | every code, redirect and answer was entitled to when asked for |
| TOTP factor (`internal/mfa`) | row of `user_mfa`, replay keys `mfa:used:*` | setup, verify, disable, validate, recovery, regenerate | check-then-write; replay key against validity window; Redis outage (fail open/closed) | a recovery code is accepted once, a TOTP code once per string it is sent as |
| Login (`internal/auth`, `internal/webauthn`) | failure counter and lock per spelling of the email, pending login, WebAuthn ceremonies | password, TOTP challenge, passkey as second factor, passwordless, unlock | counters in two commands; pending login read and consumed in different commands | one login per assertion, one guess per pending login, lockout bounds guessing under its spelling |
| Step-up MFA and rate limiting (`pkg/middleware`, `mfa.Handler`) | counters and recent-MFA marks with a TTL | check, count, expire, clear, mark | expiry set after INCR; check before, count after the code is looked at | attempts are bounded, a proof serves its session, every limit ends |
| User accounts and administration (`internal/user`, `internal/admin`, seeding) | `users`, `user_roles`, live sessions | create, register, roles, status, bulk, seed, restart | last-admin guard and role replacement without a lock; revocation after the commit | what the guards exclude and what they do not; roles are replaced; which sessions can keep what their user lost |
| Password reset and change (`internal/passwdreset`, `cmd/server`) | reset tokens, cooldown, password, sessions | request a link, reset, change, log in, rotate | one-time links replaced by newer ones; advisory and row locks; logins with the old password | one usable link, used once, old sessions end as far as a revocation sees them, nobody waits for ever |
| Service accounts, access tokens, DPoP, `Authenticate` (`internal/serviceaccount`, `internal/auth`) | account row, secret and its predecessor, blocklist, proof replay keys | create, update, rotate, delete, token, authenticate, logout | two reads in one decision; key lifetimes against token and proof lifetimes; rotation without a lock | whom the middleware admits is entitled; what is revoked, replaced or used stays refused |
| Settings (`internal/settings`) | `system_settings`, a cache per process | get, update, invalidate, restart | stored after an invalidation; several processes | an answer is never staler than the TTL and the time of one request |
| Server lifecycle (`cmd/server`) | workers, start | cleanup loops, seeding, stop | dying between two statements | in `Sessions`, `Accounts`, `Settings`, `StepUp` |
| Event hubs, mailer, audit log, webhook, dashboards, policy inputs, keys, browser client | | | | see "Not modelled" |

How they interact: `Login` ends in `completeLogin`, whose statements are the login
of `Sessions`; its TOTP step calls `Validate` and `VerifyAndEnable` of `Mfa`, and
the step-up of `StepUp` calls `ValidateStepUp` of `Mfa`. Deactivation and roles
(`Accounts`) are read by `Login`, `Sessions`, `OidcGrants` and on every request by
`Access`. The admin API and PATCH `/me/password` call `RevokeAllForUser`, which
revokes the rows of `Sessions` and then the grants of `OidcGrants`; the password
reset revokes the sessions with an UPDATE of its own
(`passwdreset/repository.go:149`) and leaves the OIDC grants alone. `OidcClients`
issues the codes whose further life is `OidcGrants`. The timeouts and limits all of
them use come through the cache of `Settings`.

## Modules

| Module | Models | Granularity |
|---|---|---|
| `Sessions` | the table `sessions`, every handler that writes it, the cleanup worker | one SQL statement; a multi-row UPDATE or DELETE is two steps |
| `OidcGrants` | authorization codes, refresh tokens, tombstones, indexes | one Redis command |
| `OidcClients` | the client registry and the endpoints that consult it | one statement or command; an administrator's change is one step |
| `Mfa` | one account's `user_mfa` row and its replay keys | one statement or command |
| `Login` | one account's lockout under every spelling of its email, pending logins and ceremonies | one Redis command |
| `StepUp` | one user's rate limit, step-up counter and recent-MFA marks | one Redis command |
| `Accounts` | users, roles, the admin API, registration, a session of each followed user, seeding, restarts | one SQL statement; the UPDATE that revokes is two steps |
| `Passwords` | one account's reset links, password, logins and a session with its rotations | one SQL statement, with its locks; the UPDATE that revokes is two steps |
| `Access` | one subject, its secrets, its tokens and the requests that carry them | one statement or command |
| `Settings` | the settings table and the cache of every process | lookup, query and store apart |
| `Requests` | the table of requests under way, extended by `Mfa`, `StepUp`, `Login` and `Passwords` | |
| `BoundedStaleness` | abstract: what a reader of a setting may be answered | one step per read |

`MC<Module>` instantiates each of them for TLC, and `<Module>Proofs` holds the
inductive invariant and the theorems about it. `LoginPasswordsProofs` and
`MfaStepUpProofs` prove two components each; these components therefore extend the
same `Requests`, and the definitions of `Login` and `StepUp` carry the module's
name (`LoginSpec`, `StepUpNext`) where the other component has one of the same
kind. No statement relates the two: each specification is proved by itself.
Conventions: `req[p]` is what goroutine `p` is doing, `pc` the statement it will
run next, the other fields its local variables. Operators carry the name of the
function they model. A definition marked *mutant* is a deliberately wrong variant
of the one after it; it belongs to no specification and is there to show that the
property concerned can fail. Variables and fields marked *history* are written and
never decide a step. Several properties are of the form "what was allowed here had
been lacking nothing since the request began": the history field `lacks` starts
with what the request lacks at its first step and shrinks whenever the state comes
to provide it; it says what a reader of several statements can promise, and no
more.

### Sessions

`row[t]` is the committed row with token hash `t`, `None` when absent. All
reasons but `rotation` are one value, since only that one is ever asked for.
`now()` is the transaction's start time, so a request that begins a statement
keeps the time in `at`; the Go clock is `clock` at the step.

A multi-row UPDATE under READ COMMITTED takes a snapshot (`Begin…`), then waits
for row locks and evaluates its WHERE clause again on the latest version of each
row it had found; rows committed after the snapshot are not seen. This detail
decides the results about revocation. `RotateSession` is BEGIN (`Refresh`, fixes
`now()`), SELECT … FOR UPDATE (`RotateSelect`), the callback (`Generate`) and
UPDATE, INSERT, COMMIT (`RotateCommit`, visible at once). `StatementFails` is any
error or cancelled context, and follows the error path of the handler: a login
logs and goes on, a refresh looks for reuse. A COMMIT may succeed and lose its
answer. The worker runs one statement at a time and may start any time.

The handlers: `BeginLogin` … `Create` is `completeLogin`; `Refresh` …
`CheckReuse` is `RefreshTokens`; `Logout`, `RevokeByID`, `BeginRevokeOthers`,
`BeginRevokeAll` and `SetStatus` are the endpoints of the same name.

### OidcGrants

A go-redis `Pipeline` is not a transaction: its commands are separate steps, and
`CommandFails` may stop it at each. A family is named by its first token. Code
verifier, client secret and redirect URI are inputs (`Proofs`). TTLs are
nondeterministic expiry, with one constraint taken from `Save`: the indexes'
TTLs are renewed after the token's, so an index expires only after what it
lists.

### OidcClients

One user with one browser session. `me` is what the user's requests depend on:
signed in, MFA enabled, recent proof. The endpoints share one next-state machine
(`ReadClient`, `Session`, `Proof`, `AuthenticateClient`, ...), since the handlers
run the same statements in an order that `op` decides. Secrets are numbered per
client, so a rotation is `last[c] + 1`. `IsRevoked` and `IsEnabled` fail open; what
a request was granted without an answer is noted in `blind`, apart from what it
lacks, and the properties name what they excuse. A request without a client secret
lacks one unless its code has PKCE.

### Mfa

Time counts TOTP periods of 30 s. What a client sends is a triple of secret, period
and spelling; the library trims it, so `ValidTotp` (external) looks at the first two
and allows a skew of one period. `Validate` and `ValidateStepUp` trim the string
first (`Trimmed`), `Setup` and `Disable` give it to `markUsed` as it came, and the
replay key is the string. A request may validate a code in one period and mark it in
the next (`late` remembers it); the router's 30 s timeout bounds the delay to one
period. `Outages` lets any Redis command fail: an ordinary login then goes through,
every other operation is refused. `CodeAcceptedOnce` is about the string that is
looked up, and excepts what the code gives up on purpose, the logins let through
during an outage, and a request that validates in the last period of a code and
marks in the next one (see "Reachable behaviours" below).

### Login

The lockout keys hash the email as it was written, `FindByEmail` normalises it:
`fails`, `lock` and `overrun` are per spelling (`Emails`), and an unlock by an
administrator deletes the keys of the stored one. A lock is the minutes it still has
to live, which count down, so time needs no bound. Whether password, code and
assertion are right is an input, and so is the class of the risk score. A passkey
ceremony is keyed by the user, so a second begin replaces the first. The history
counts, per pending token and per challenge, the logins completed with it.

### StepUp

`cnt` holds the two counters with their times to live, which count down, so time
needs no bound and liveness can be asked. The limiter and the step-up share no
key; a behaviour follows one of them. `Die` ends every request between two
commands. `tries` counts the wrong codes looked at since the counter began, except
those whose check or count Redis failed (`blind`), and `lost` the counters whose
EXPIRE did not happen.

### Accounts

READ COMMITTED again: `guardLastAdmin` is two SELECTs, `SetRoles` a DELETE that
waits for the rows another transaction has deleted (`LockedRoles`) and does not see
the ones it inserted, then INSERTs that fail on the primary key. `overtaken` notes
that another request committed inside a transaction; that is what the guards do not
exclude, and the properties say that nothing else breaks them. `sess[u]` follows one
arbitrary session of a user of `Followed` through its rotations. A login or a
refresh reads the account (`ReadAccount`) and inserts the row later with the roles
it read (`IssueSession`); a refresh holds the row's lock in between.
`RevokeAllForUser` takes its snapshot (`RevokeSessions`) and then waits for the row
(`RevokeEnds`), as in `Sessions`; `seen` notes which revocations have the present
row in their snapshot. The answer to a COMMIT may be lost: then the change holds and
nobody revokes (`CommitChange`). A server may stop at any moment, also during its
start, and takes its requests with it.

### Passwords

`Create` takes the advisory lock, cancels and inserts; `ConsumeAndReset` locks the
token row, sets the password and revokes the sessions in one transaction; PATCH
`/me/password` does the same in separate statements. Both revocations are an UPDATE
with a snapshot (`Snapshot`) that waits for the session's row and misses the row a
rotation (`BeginRotate`, `RotateCommit`) puts in its place. A password is followed by
how many changes it has seen, so a login remembers what it compared.

### Access

One subject, a user or a service account, and one proof with any `iat`.
`RotateSelect` and `RotateUpdate` are the two statements of `RotateSecret`;
`TokenRow` and `TokenIssue` those of the client_credentials grant; `Authenticate`
... `Answer` the middleware. `Outages` lets Redis fail where the code fails open.
A mutant shows that the replay window has to exceed twice the skew.

### Settings and BoundedStaleness

A value is the number of the write that set it. A read is a lookup, a query and a
store; the store happens at most `MaxLag` after the query, because the `Timeout`
middleware cancels the request after 30 s. One reader is outside of that: when the
mailer gives up on a mail it writes to the audit log with `context.Background()`
(`pkg/mailer/resilient.go:152`), and the audit log reads `webhook_enabled`
(`internal/audit/repository.go:189`). For that key, in that goroutine, `MaxLag` is
an assumption on how long a query may take, not something the code enforces.
`Restart` loses a process's cache and its requests, also between `Set` and
`Invalidate`.

`BoundedStaleness` promises that a read answers with the present value, one
replaced less than `Staleness` ago, or the default. `Settings` implements it with
`Staleness <- TTL + MaxLag` and `asked <- rd[h].key`: `Get` is `Ask`; `Hit`,
`Store` and `QueryFails` are `Answer`; `Set` is `Write`; `Restart` is `Stop`; the
other steps stutter. `EntryAge` is what makes it true, and why the promise is not
the TTL alone: a store overtaken by an update starts a whole TTL with an old
value.

## Runs

| Run | Bounds | Shows |
|---|---|---|
| `sessions` | 1 user, 3 tokens, 2 handlers and the worker, clock 0..1, failing statements | `TypeOK`, `SingleSuccessor`, `OneLivePerChain`, `EndedStaysEnded`, `RotationMeansSuperseded`, `ChainDeadline`, `RevokedRowIsFrozen` |
| `sessions_live` | 2 tokens, 2 handlers, fairness | `RequestsFinish`: no request waits for ever for a row lock |
| `oidc_grants` | 2 clients registered for one of 2 scopes, 1 code, 3 tokens, 2 handlers, failing commands | `SingleUse`, `OneLivePerFamily`, `RevokedIsNotReused`, `RevokedGrantStaysRevoked`, `GrantNeverWidens` |
| `oidc_clients` | 2 clients, 2 secrets each, 1 URI, 1 scope, 1 code, 1 token, 1 handler and the administrators, failing commands | `CodeWasConsented`, `RedirectIsRegistered`, `ClientsHaveTheirOwn`, `RevokedIsInactive` |
| `mfa` | 1 secret, 4 recovery codes in batches of 2, 2 spellings, 2 handlers, clock 0..2, Redis failing | `RecoveryCodeOnce`, `CodeAcceptedOnce` |
| `login` | 2 spellings, 1 pending login, 2 challenges, 2 handlers, lock after 1 failure, no attempt begun with one counted, failing commands | `ChallengeOnce`, `OneTryPerPending`, `OverrunBounded` |
| `step_up` | 2 handlers, 2 tokens, limits of 2, window of 1 tick, failing commands, dying process, fairness | `ServedWasProved`, `WrongCodesBounded`, `KeysExpire`, `LimitsEnd` |
| `accounts` | 2 users, the role admin, 2 handlers, 1 server, one user's session followed, failing statements and lost answers | `StaleSessionIsBeingRevoked`, `LastAdmin`, `RolesAreReplaced` |
| `passwords` | 2 links, 2 passwords, 2 changes, 2 handlers, outages and lost answers, fairness | `OneUsableToken`, `TokenResetsOnce`, `OldPasswordSessionEnds`, `RequestsFinish` |
| `access` | user and service account, 1 grant, 1 token, 3 secrets, 2 handlers, clock 0..2, outages | `AdmittedWasEntitled`, `BlockedTokenRefused`, `ProofAcceptedOnce`, `ReplacedSecretRetires` |
| `settings` | 1 key, 2 processes, 2 readers, 1 administrator, TTL 2, lag 1, 2 writes, clock 0..4, failing statements | `StaleOnlyByLateStore`, `EntryAge`, the refinement `StalenessIsBounded` |
| `sessions_revoke_all` | as `sessions`, clock stopped, no failures | refutes `RevokeAllIsComplete` (below) |

One run expects a violation. `sessions_revoke_all` states what
`session/repository.go:217` says, `RevokeAllForUser` "revokes every active
session"; but the statement waits for a row a rotation holds, and the replacement
is not in its snapshot and stays live. What does hold, and is checked and proved,
is `EndedStaysEnded`, and in `Accounts` and `Passwords` the properties that name
the missed replacement as an exception.

`TypeOK` is an invariant of the run `sessions`; the other modules' `TypeOK` holds
on the same instances and is stated for their proofs.

### Bounds

Every interleaving property is about two requests on the same token, row or key;
two handlers are therefore the smallest instance in which it can fail.
`oidc_clients` has one handler, and what it races with are the administrators and
the user's own logout, which are steps of their own there; that any number of
requests at once changes nothing is proved (`OidcClientsProofs`).

- `login`: two challenges for one pending login are a ceremony and the one that
  replaces it, or a second factor and a passwordless login. `OverrunBounded` needs
  one request that locks and one that has passed the check. No attempt is begun
  under a spelling whose counter has reached one (`MaxFails`), so a second failure
  is that of a request already past the check; an attempt against a standing
  lock is one begun after an unlock between INCR and SET, which leaves the lock with
  no failure counted. The lock counts down and needs no bound.
- `mfa`: the clock runs through the periods a code is valid in (before, during and
  after its own), which is as long as its replay key has to live; two spellings are
  the trimmed one and another, and two batches a regeneration. A second enrolment
  would have its own secret and no code in common with the first; the proofs cover
  any number.
- `sessions`: three tokens are a login, a rotation and a second rotation (or a
  second login); `Budget` starts a request that may need a token only while one is
  left. Time constants keep their order (reuse grace < purge window <= absolute
  timeout), not their ratio.
- `access`: the clock spans a token's life, both sides of a proof's skew and the
  end of an overlap; three secrets are two rotations. A fixed key lifetime or a
  replay window of the length of the skew fails in it.
- `settings`: the clock spans a TTL, a lag and a replacement in between; two
  writes let an update overtake a store and another follow it.
- `accounts`: two administrators who change each other, or one and a plain user;
  one server that stops and seeds again. One user's session suffices, since users
  share no session; one role is enough to lose, to be replaced and to be left behind,
  and a deactivation loses all. With a second role the instance is more than TLC
  finishes; the proofs take any roles.
- `passwords`: two changes let a session be one change old, with a second change or
  a reset under way.
- `oidc_grants`: both clients are registered for `offline_access` only, and every
  consent and refresh may ask for the other scope too. Losing one of two granted
  scopes and asking for it again takes a larger instance than TLC finishes; the
  proof of `GrantNeverWidens` covers it.

Different users share no row and no key, so the runs follow one user where the
module does not need more; the proofs take any number. Tokens, handlers, devices,
codes and challenges are interchangeable, hence the symmetry sets; the runs with
liveness (`sessions_live`, `passwords`, `step_up`) use none.

Deadlock is checked except in `access`, `settings` and `oidc_clients`, where the
bounds on clock, tokens and writes run out and no request need be possible any
more; the systems themselves do not stop.

### Fairness

- `Sessions`: strong fairness of the next statement of each handler and weak
  fairness of the worker's second steps. Go schedules every runnable goroutine,
  the database answers, and PostgreSQL queues the waiters of a row lock, so one
  whose lock becomes free again and again gets it. Starting a request, the
  worker's ticks and failures are never forced, nor is the clock.
- `Passwords`: weak fairness of each request's steps, strong fairness of the
  statements that wait for the advisory lock or the row of a token, the user or the
  session (`Waits`), for the same reason. Statements may fail in its run and are never
  forced to.
- `StepUp`: weak fairness of time and of each request's next command. Arrivals
  are not forced; failing commands may happen for ever, and `LimitsEnd` excepts
  only the counters whose EXPIRE is lost. `KeysExpire` is its half without
  fairness, and proved: no key is left without an end.

### Reachable behaviours

Beside the refuted statement, the models reach the following. They are recorded
because a reader of the code may expect otherwise; the properties are stated so
that they hold with them. In the first five the repository says otherwise itself:

- A code already accepted is accepted once more with a space after it, by `Setup`
  and by `Disable`: they give `markUsed` the string as it was sent
  (`mfa/service.go:96-101`, `:158`), while `totp.Validate` trims it.
  `mfa/service.go:69` says of `markUsed`: "It returns used=true when the code was
  already seen within usedCodeTTL." Login and step-up trim the code first.
- A lock covers one spelling of the address: counter and lock hash the email as it
  was written (`auth/service.go:1115`), and `FindByEmail` lowercases and trims it
  (`user/service.go:54`), so a password is compared under another spelling while the
  lock stands. `docs/security-model.md:65`: "Failed login attempts are counted in
  Redis per email address."; `docs/api.md:150` has "Progressive lockout active".
- Two requests that take the role from, or deactivate, each other's remaining
  administrator both count one and leave none (`user/repository.go:516`).
  `ISSUE_LIST.md:840`: "Forbid removing the `admin` role from, or deactivating, the
  last active admin."; `:845` calls the check "an atomic `guardLastAdmin` check".
- A read that queried a setting before a PATCH stores the old value after its
  `Invalidate`, and the process answers with it for a whole TTL
  (`settings/cache.go:52`). `docs/settings.md:114`: "Subsequent requests on any
  goroutine will read the new value from the database."
- The race of `sessions_revoke_all` against the revocation after a change of
  password, or against the UPDATE of a reset, leaves a session of the old password
  although no statement fails. `cmd/server/main.go:637`: "Revoke all sessions so any
  stolen session cannot outlive the password change".

The others:

- Two concurrent logins both evict before either inserts: one session more than
  the cap (`auth/service.go:874`).
- The purge deletes the rotated row, and a replay of its token is then a plain
  miss (`session/repository.go:424`). It also deletes sessions idle for five
  minutes whatever `session_idle_timeout` is set to (`docs/settings.md:19`).
- A refresh that has consumed its OIDC token saves the successor after
  `revokeFamily` has read the members (`oidc/refreshtoken.go:137`);
  `RevokeAllForUser` of the same store drops from the index a token saved between
  its SMEMBERS and its DEL (`oidc/refreshtoken.go:193-203`).
- `WebAuthnLoginFinish` reads the pending login, a TOTP challenge consumes it, and
  both complete (`auth/service.go:786`).
- Two concurrent `SetRoles` may leave the roles of both (`user/repository.go:436`).
- A login or refresh that read the account before its roles or status changed
  inserts its session afterwards (`auth/service.go:877`); when the answer to the
  COMMIT of the change is lost, nobody revokes (`admin/handler.go:265`).
- A login that compared the old password before a change keeps the session it
  creates afterwards (`passwdreset/repository.go:148`), and one that is inserted
  after the snapshot of a reset's UPDATE and before its COMMIT is missed by it; a
  change of password that checked the old one before a reset commits overwrites what
  the reset set (`cmd/server/main.go:633`).
- Of two concurrent secret rotations one new secret is lost and an older one is
  accepted for another overlap (`serviceaccount/repository.go:346`).
- Status and grants that `EvaluateAccess` compares may never have held at one
  moment (`auth/service.go:1188`).
- A failed read of a setting answers with the caller's default, which may be the
  more permissive value (`settings/cache.go:52`).
- An OIDC client deleted and registered again under the same `client_id` finds the
  old codes and tokens its own; an exchange with PKCE and no secret does not consult
  the registry (`oidc/service.go:119`); at consent a failing look at the blocklist
  counts as signed in and a failing MFA look-up as no MFA.
- `Enable` promotes whatever secret is pending when it runs, also one that a
  second `Setup` stored after the code was checked (`mfa/service.go:144`). A TOTP
  code validated in the last period it is valid in and marked in the next may find
  the key of its first use expired (`mfa/service.go:78`).
- The lock lasts 1, 1, 1, 5, 5, 5, 30 minutes from the threshold on
  (`auth/service.go:1048`); `docs/security-model.md:70-72` reads as 1, 5, 30. Two
  failures whose SETs arrive in the opposite order of their INCRs leave the shorter
  lock (`auth/service.go:1056`), and an unlock between INCR and SET is undone by
  the SET (`auth/service.go:1079`).

## Proofs

The theorems hold for any sets of users, tokens, clients, handlers and so on, any
lifetimes and any length of time, with and without failing statements and
commands. Each proof is built alike: `Inv` (`LoginInv`, `StepUpInv`) is the
conjunction of `TypeOK`, the properties and the strengthening below; `Invariance`
is `Spec => []Inv`; every action has a lemma that it preserves `Inv`, and `NextInv`
puts them together. The strengthenings were checked with TLC before they were
proved. Every invariant, every action property and the refinement that a run
confirms is a theorem.

| Module | Theorems, and the property each states |
|---|---|
| `SessionsProofs` | `TypeCorrect` (`TypeOK`), `RotationHasOneWinner` (`SingleSuccessor`), `ChainHasOneLiveToken` (`OneLivePerChain`), `RevocationIsFinal` (`EndedStaysEnded`), `DeadlineIsFixed` (`ChainDeadline`), `RotationReasonIsEvidence` (`RotationMeansSuperseded`), `RevocationIsFrozen` (`RevokedRowIsFrozen`) |
| `OidcGrantsProofs` | `TypeCorrect` (`TypeOK`), `CodesAndTokensAreSingleUse` (`SingleUse`), `FamilyHasOneLiveToken` (`OneLivePerFamily`), `RefreshNeverWidens` (`GrantNeverWidens`), `RevocationIsNotTheft` (`RevokedIsNotReused`), `RevocationEndsTheFamily` (`RevokedGrantStaysRevoked`) |
| `OidcClientsProofs` | `CodesAreConsented` (`CodeWasConsented`), `RedirectsAreRegistered` (`RedirectIsRegistered`), `ClientsSeeOnlyTheirOwn` (`ClientsHaveTheirOwn`), `RevokedTokensAreInactive` (`RevokedIsInactive`) |
| `MfaStepUpProofs` | `TotpCodesAreSingleUse` (`CodeAcceptedOnce`), `RecoveryCodesAreSingleUse` (`RecoveryCodeOnce`); `StepUpIsPerSession` (`ServedWasProved`), `WrongCodesAreLimited` (`WrongCodesBounded`), `LimitsHaveAnEnd` (`KeysExpire`) |
| `AccountsProofs` | `StaleSessionsAreRevoked` (`StaleSessionIsBeingRevoked`), `LastAdminIsKept` (`LastAdmin`), `SetRolesReplaces` (`RolesAreReplaced`) |
| `LoginPasswordsProofs` | `OnlyTheLastLink` (`OneUsableToken`), `LinksAreSingleUse` (`TokenResetsOnce`), `OldSessionsEnd` (`OldPasswordSessionEnds`); `ChallengesSignInOnce` (`ChallengeOnce`), `OneGuessPerPassword` (`OneTryPerPending`), `LockoutHolds` (`OverrunBounded`) |
| `AccessProofs` | `OnlyTheEntitledAreAdmitted` (`AdmittedWasEntitled`), `LogoutIsEffective` (`BlockedTokenRefused`), `ProofsAreSingleUse` (`ProofAcceptedOnce`), `ReplacedSecretsDie` (`ReplacedSecretRetires`) |
| `SettingsProofs` | `TypeCorrect` (`TypeOK`), `StaleEntriesAreLateStores` (`StaleOnlyByLateStore`), `EntriesAgeOut` (`EntryAge`), `CacheRefinesBoundedStaleness` (the refinement `StalenessIsBounded`) |

### Assumptions

They are the named `ASSUME`s of the modules, and TLC evaluates them on every run:
bounds and lifetimes are natural numbers, `None` is different from every value it
stands beside, and where a proof needs it, what the code's constants satisfy:

- `Mfa`: a replay key lives at least three periods (`usedCodeTTL` is 90 s,
  `mfa/service.go:21`). Without it a code could be used again in its last period.
- `Access`: the replay window is longer than twice the skew (5 min against
  2 x 2 min, `auth/service.go:134`); a proof dated in the future by the whole
  skew is accepted that long.
- `Sessions`: the cap is at least one and the worker is no handler.
- `Login` and `StepUp`: there are finitely many handlers, since the bounds on
  guessing are in terms of their number; the limits and the window of `StepUp`
  are at least one.

### Sessions

None of the properties is inductive alone. A rotation replaces the row it read two
statements earlier, so the argument needs what the row lock guarantees: while a
request is between SELECT … FOR UPDATE and COMMIT its token is still live and no
other request is there with the same token (`LockInv`). Then the INSERT replaces
the one live token of its chain by another. `LiveIsTip` (a live token has no
successor) makes that token the only one with a successor to come, and
`IssuedInv` ties rows and history to tokens that were issued. The steps fall into
a few shapes, each with its lemma: steps that leave the table alone, statements
that revoke or delete a set of unlocked rows (`ShrinkStep`), the INSERT of a login
and the COMMIT of a rotation.

### OidcGrants

A grant is always held by one holder: a code, a refresh token, or a request that
has consumed one of them and will save the next. `OneHolder` says that a family
has one holder, `OneCarrier` that what a request carries is in no key and in no
other request, `ParentHoldsNot` that what was exchanged holds nothing any more, and
`RevokedHoldsNot` that what was deleted left no holder behind. GETDEL makes
each exchange a hand-over from one holder to the next, and a hand-over keeps user,
client and family and never adds a scope.

### OidcClients and Access

Both state that what a request was granted it had not been lacking since it
began. The history `lacks` only shrinks, and `Current` (in `Access`, `Entitled`)
says it is never more than what the state of the moment would give; so a check
that succeeds now has struck off what it checks, and the rest of `Known` records,
per step, what has been struck off. A step that cannot give a request anything it
lacked (signing out, revoking, issuing) keeps `Current` (`Worsens`), and a change
of the registry or the account shrinks `lacks` with it (`WatchStep`). In
`OidcClients` a look-up that fails open leaves `lacks` as it is and notes itself in
`blind` (`Given`); `CodeWasConsented` is an action property, since a code is issued
for the request of that moment. `Access`
adds that a barred request passes the blocklist only after the expiry (`Barred`),
that the key of an accepted proof outlives the proof (`Remembered`) and that the
current secret was never replaced and the old one ends with its overlap (`Rotation`).

### Mfa

A code is looked at and marked in two steps. `Checked` says that a request about
to mark a code validated it in this period, or in an earlier one if it is late;
`Remembered` that the replay key of an accepted string outlives the last period its
code is valid in. For recovery codes, `RowLock` says that the list read under the
row lock is still the row's, and `Lists` and `Redeemed` that the lists of the row
are generated, disjoint and unredeemed.

### Accounts

A session is issued with what was read earlier and ended by a statement that saw its
row, so `StaleSessionIsBeingRevoked` is stated with both: `late` marks the row whose
account had changed since it was read, and a request will end a session only if it
has not taken its snapshot or has this row in it (`WillEnd`). It is inductive with
the types and two facts: a request that is revoking works on one of its targets
(`Revokes`), and only an existing account has a session or one being issued
(`SessionHasUser`). Every commit that takes
something away puts its targets into a request that will end the session, or into
`unrevoked`.

`Guarded` says what the answer of `guardLastAdmin`, or of the two counts of
`BulkSetActive`, is still worth when the UPDATE or the INSERTs run: unless another
commit came in between, an administrator remains or no target is one. `Deleted`
says that the DELETE has seen every role of the user. Both hold from one statement
to the next because a new account has no roles, and every other commit marks the
transactions it overtakes (`CommitStep`). `LastAdmin` and `RolesAreReplaced` are
action properties and follow from the invariant at the one step that matters.

### Passwords

The strengthening is what each lock protects. The advisory lock lets one `Create`
at a time be between its cancellation and its INSERT (`OneCreate`); the rows it has
cancelled include every usable one and none that a reset holds (`CancelLock`); a
reset holds a token that stays unused (`RowLock`). Hence a usable link is the only
one (`Unique`), and one that was spent or cancelled is marked used (`Ended`).
`OldPasswordSessionEnds` needs the snapshots: a revocation that ends leaves a session
only if it is marked as missed or as current, and a rotation keeps the marks.

### Login

A passkey challenge, and a pending login, is in one place at a time: in its key, in
the one request that has taken it out with GETDEL (`Holds`, `Guesses`), or used.
`Ceremonies` and `PendingLogins` say so, with what was issued, so that a new one is
in none of these places; the hand-over from key to request to use is then the only
way for a count to rise, and it rises once. `PasswordLocals` keeps apart the
requests of the password and TOTP steps, which have no challenge to use up.

For `OverrunBounded` the count of passwords compared under a lock is not enough:
`Overrun` adds the requests that have passed `checkLockout` and not compared yet
(`Admitted`), and says that both together are fewer than the handlers while a lock
stands, for every spelling by itself. A compare moves one from `Admitted` to the
count; nobody joins `Admitted` under a lock; and the request that sets the lock is
itself not admitted, which is where the "fewer" comes from.

### StepUp

A proof of the second factor travels from `ValidateStepUp` over `clear` and `mark`
into the mark of the token, and from there to the requests served (`Marked`), while
requests of the limiter never are behind `RequireRecentMFA` (`Apart`).

`WrongCodes` relates the codes looked at to the counter. Below the limit they exceed
it by at most the requests about to count theirs (`Uncounted`). At the limit nobody
passes the check any more, so the codes looked at and the requests that still have
one to look at (`Looking`) stay together below the limit plus the number of
handlers. Crossing the limit turns the first into the second: the request that
counts is neither looking nor uncounted afterwards. A counter that expires or is
cleared begins again with the codes that are not counted yet, which is why `tries`
restarts at their number and not at zero.

`KeysExpire` needs the types only. INCR of a missing key is the one step that makes
a counter without a time to live, and it puts its request before the EXPIRE; the
argument is that no other request's INCR, EXPIRE or DEL in between takes that
request's place without leaving the key expiring, gone, or in `lost`.

### Settings

An entry is as old as the query it came from, so the invariant follows a value
from the query through the store: `HeldInv` says that what a read holds was
replaced after its query, if at all, and that the query is at most `MaxLag` ago;
`ExpiryInv` adds the TTL from the store on, and `EndedInv` that a replaced value has
an end in the past. `AskedInv` ties a read to the one of the abstract specification.
From `Inv`, every step of `Settings` maps to a step of `BoundedStaleness` or to a
stutter.

### Only model-checked

Liveness (`RequestsFinish` of `Sessions` and `Passwords`, `LimitsEnd`) is out of
this prover's reach. `RevokeAllIsComplete`, which the violation run refutes,
does not hold.

## Not modelled

- Contents and signatures of tokens, the thumbprint and htm/htu comparison of
  DPoP, hashing, encryption, keys and secrets at start: cryptography is taken to
  work; a token or a code is a value that cannot be guessed.
- Event hubs (`internal/session/hub.go` and the notifications): best-effort hints
  to open pages with a channel of one event per subscriber; no state of the server
  depends on them.
- Mailer: a queue in memory with retries; a lost mail changes no state.
- Audit log, webhook, dashboards: append-only inserts and reports that no decision
  reads.
- Policy inputs (allowlists, GeoIP, device trust, risk score): pure predicates
  over a request, inputs of `Login` and `Access`.
- Routing, CSRF, RBAC tables, request parsing, validators of settings and
  passwords: stateless checks of one request.
- Registration, naming and deletion of passkeys (single statements), and the
  signature counter (the library's).
- The browser client: its requests are inputs; any number of concurrent refreshes
  is allowed in `Sessions`.
- The connection pool: a rotation's callback needs a second connection while it
  holds one (`auth/service.go:905`); the pool's size is configuration.
- Loss of PostgreSQL or Redis data. Errors of single commands are modelled where
  the code handles or ignores them.

## State of the development

The components above, their runs, the refinement and the theorems listed under
"Proofs" are complete. What would extend it is under "Not modelled", and the
hazards of `PROJECT.json` with a note instead of a property: behaviours the models
reach and the code does not exclude ("Reachable behaviours").
