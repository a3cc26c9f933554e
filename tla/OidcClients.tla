------------------------------- MODULE OidcClients -------------------------------
(***************************************************************************)
(* The registry of OAuth2 clients and the endpoints that consult it while  *)
(* administrators change it: authorize, consent, token (by code),          *)
(* introspect, revoke, userinfo and end_session of package oidc.  What     *)
(* becomes of codes and refresh tokens is the matter of module OidcGrants. *)
(*                                                                         *)
(* One user with one browser session is followed.  Every statement to the  *)
(* database and every command to Redis is a step; administrators and other *)
(* requests run in between.  Secrets are numbered per client: a secret is  *)
(* generated once.                                                         *)
(***************************************************************************)
EXTENDS Integers

CONSTANTS
  Clients,     \* client ids; an administrator chooses them
  Uris,        \* redirect URIs
  Scopes,
  Codes,       \* authorization codes; each is issued at most once
  Tokens,      \* OIDC access tokens; each is issued at most once
  Handlers,
  None,
  MaxSecrets,  \* bound on the secrets generated for a client
  Outages      \* TRUE: Redis and the database may fail to answer

ASSUME OidcClientsAssumption ==
  /\ MaxSecrets \in Nat
  /\ Outages \in BOOLEAN
  /\ None \notin Clients \cup Uris \cup Codes \cup Tokens \cup Nat

Secrets == 1..MaxSecrets

Row == [uris : SUBSET Uris, scopes : SUBSET Scopes, secret : Secrets]

\* The user: signed in (the access token is not blocked), MFA, recent proof.
Me == [in : BOOLEAN, mfa : BOOLEAN, recent : BOOLEAN]

Ops == {"authorize", "consent", "deny", "exchange", "introspect", "revoke",
        "userinfo", "end_session"}

\* What a request needs and may not have.
Needs == {"session", "proof", "uri", "scopes", "secret", "unrevoked"}

\* The ones that are taken for granted when Redis, or IsEnabled's statement,
\* does not answer.
FailOpen == {"session", "proof", "unrevoked"}

PCs == {"idle", "session", "proof", "client", "create", "save", "auth",
        "token", "issue", "redirect", "active"}

\* History: what the request has lacked ever since it began, and what it was
\* granted without an answer.
Request == [pc : PCs, op : Ops, client : Clients \cup {None},
            uri : Uris \cup {None}, scopes : SUBSET Scopes, pkce : BOOLEAN,
            secret : Secrets \cup {None}, token : Tokens \cup {None},
            lacks : SUBSET Needs, blind : SUBSET FailOpen]

Code == [client : Clients, uri : Uris, scopes : SUBSET Scopes, pkce : BOOLEAN]
Token == [client : Clients, scopes : SUBSET Scopes]

VARIABLES
  reg,      \* oauth2_clients
  last,     \* the last secret generated for a client
  code,     \* codes in Redis
  tok,      \* access tokens issued
  me,
  req,
  issued,   \* history: codes issued
  by        \* history: the client that revoked a token; jti:blocked:<jti>

vars == <<reg, last, code, tok, me, req, issued, by>>

Idle == [pc |-> "idle", op |-> "authorize", client |-> None, uri |-> None,
         scopes |-> {}, pkce |-> FALSE, secret |-> None, token |-> None,
         lacks |-> {}, blind |-> {}]

Init ==
  /\ reg = [c \in Clients |-> None]
  /\ last = [c \in Clients |-> 0]
  /\ code = [k \in Codes |-> None]
  /\ tok = [t \in Tokens |-> None]
  /\ me \in {m \in Me : m.in}
  /\ req = [p \in Handlers |-> Idle]
  /\ issued = {}
  /\ by = [t \in Tokens |-> None]

At(p, pc) == req[p].pc = pc
Goto(p, pc) == req' = [req EXCEPT ![p].pc = pc]
Finish(p) == req' = [req EXCEPT ![p] = Idle]

\* What request q lacks with registry r and user m.  Without a secret a code
\* has to be one with PKCE.
UriOK(q, r) == r[q.client] # None /\ q.uri \in r[q.client].uris
ScopesOK(q, r) == r[q.client] # None /\ q.scopes \subseteq r[q.client].scopes
SecretOK(q, r) == r[q.client] # None /\ q.secret = r[q.client].secret
Needed == [authorize |-> {"uri"}, end_session |-> {"uri"},
           deny |-> {"session", "uri"},
           consent |-> {"session", "proof", "uri", "scopes"},
           exchange |-> {"secret"}, revoke |-> {"secret"},
           introspect |-> {"secret", "unrevoked"}, userinfo |-> {"unrevoked"}]
Lacking(need, q, r, m) ==
  CASE need = "session" -> ~m.in
    [] need = "proof" -> m.mfa /\ ~m.recent
    [] need = "uri" -> ~UriOK(q, r)
    [] need = "scopes" -> ~ScopesOK(q, r)
    [] need = "secret" -> IF q.secret = None THEN ~q.pkce ELSE ~SecretOK(q, r)
    [] need = "unrevoked" -> by[q.token] # None
Missing(q, r, m) == {need \in Needed[q.op] : Lacking(need, q, r, m)}

Begin(p, q) ==
  /\ At(p, "idle")
  /\ req' = [req EXCEPT ![p] = [q EXCEPT !.lacks = Missing(q, reg, me)]]

\* The registry or the user changes under the requests.
Watch(r, m) ==
  req' = [p \in Handlers |->
    IF req[p].lacks = {} THEN req[p]
    ELSE [req[p] EXCEPT !.lacks = @ \cap Missing(req[p], r, m)]]

-----------------------------------------------------------------------------
(* Administrators: one statement each.                                     *)

SetRow(c, r) ==
  /\ reg' = [reg EXCEPT ![c] = r]
  /\ Watch([reg EXCEPT ![c] = r], me)

\* CreateClient wants a redirect URI, UpdateClient does not.
RegisteredUris == SUBSET Uris \ {{}}
CreateClient(c) ==
  /\ reg[c] = None /\ last[c] < MaxSecrets
  /\ last' = [last EXCEPT ![c] = @ + 1]
  /\ \E U \in RegisteredUris, S \in SUBSET Scopes :
       SetRow(c, [uris |-> U, scopes |-> S, secret |-> last[c] + 1])
  /\ UNCHANGED <<code, tok, me, issued, by>>

UpdateClient(c) ==
  /\ reg[c] # None
  /\ \E U \in SUBSET Uris, S \in SUBSET Scopes :
       SetRow(c, [reg[c] EXCEPT !.uris = U, !.scopes = S])
  /\ UNCHANGED <<last, code, tok, me, issued, by>>

RotateClientSecret(c) ==
  /\ reg[c] # None /\ last[c] < MaxSecrets
  /\ last' = [last EXCEPT ![c] = @ + 1]
  /\ SetRow(c, [reg[c] EXCEPT !.secret = last[c] + 1])
  /\ UNCHANGED <<code, tok, me, issued, by>>

\* DeleteClient leaves codes and tokens alone; the client id may be taken again.
DeleteClient(c) ==
  /\ reg[c] # None
  /\ SetRow(c, None)
  /\ UNCHANGED <<last, code, tok, me, issued, by>>

\* The user signs out elsewhere: Logout of package auth.
Logout ==
  /\ me' = [me EXCEPT !.in = FALSE]
  /\ UNCHANGED <<reg, last, code, tok, req, issued, by>>

\* The user turns MFA on or off, proves it or lets the proof lapse.
ChangeMfa(m) ==
  /\ m.in = me.in
  /\ me' = m
  /\ Watch(reg, m)
  /\ UNCHANGED <<reg, last, code, tok, issued, by>>

-----------------------------------------------------------------------------
(* Authorize.                                                              *)

Authorize(p, c, u) ==
  /\ Begin(p, [Idle EXCEPT !.pc = "client", !.client = c, !.uri = u])
  /\ UNCHANGED <<reg, last, code, tok, me, issued, by>>

\* FindByClientID and ValidateRedirectURI, the same for the four operations
\* that redirect.
RedirectKnown(q) == reg[q.client] # None  \* mutant: the URI is not compared
RedirectAllowed(q) == UriOK(q, reg)
ReadClient(p) ==
  LET q == req[p] IN
  /\ At(p, "client")
  /\ IF ~RedirectAllowed(q) THEN Finish(p)
     ELSE CASE q.op \in {"deny", "end_session"} -> Goto(p, "redirect")
            [] q.op = "authorize" -> Goto(p, "session")
            [] q.op = "consent" ->
                 IF ScopesOK(q, reg) THEN Goto(p, "create") ELSE Finish(p)
  /\ UNCHANGED <<reg, last, code, tok, me, issued, by>>

\* IsRevoked of the browser's token fails open.  Authorize goes to the login
\* or to the consent screen of the application, or, with prompt=none, back to
\* the client with an error.
Session(p) ==
  LET q == req[p] IN
  /\ At(p, "session")
  /\ IF q.op = "authorize" THEN Goto(p, "redirect") \/ Finish(p)
     ELSE LET next == IF q.op = "consent" THEN "proof" ELSE "client" IN
          \/ me.in /\ Goto(p, next)
          \/ ~me.in /\ Finish(p)
          \/ Outages /\ req' = [req EXCEPT ![p].pc = next,
                                           ![p].blind = @ \cup {"session"}]
  /\ UNCHANGED <<reg, last, code, tok, me, issued, by>>

-----------------------------------------------------------------------------
(* Consent: the session, the proof, the client, and CreateAuthCodeSession, *)
(* which reads the client once more.                                       *)

Consent(p, c, u, S, pkce) ==
  /\ Begin(p, [Idle EXCEPT !.pc = "session", !.op = "consent", !.client = c,
                           !.uri = u, !.scopes = S, !.pkce = pkce])
  /\ UNCHANGED <<reg, last, code, tok, me, issued, by>>

Deny(p, c, u) ==
  /\ Begin(p, [Idle EXCEPT !.pc = "session", !.op = "deny", !.client = c,
                           !.uri = u])
  /\ UNCHANGED <<reg, last, code, tok, me, issued, by>>

\* IsEnabled takes a failed statement for no MFA; a failed look at the mark is
\* no mark.
ProofNever == FALSE  \* mutant: consent does not ask for a proof
ProofNeeded == me.mfa /\ ~me.recent
Proof(p) ==
  /\ At(p, "proof")
  /\ \/ ~ProofNeeded /\ Goto(p, "client")
     \/ (ProofNeeded \/ Outages) /\ Finish(p)
     \/ Outages /\ req' = [req EXCEPT ![p].pc = "client",
                                      ![p].blind = @ \cup {"proof"}]
  /\ UNCHANGED <<reg, last, code, tok, me, issued, by>>

CreateAuthCodeSession(p) ==
  LET q == req[p] IN
  /\ At(p, "create")
  /\ IF UriOK(q, reg) /\ ScopesOK(q, reg) THEN Goto(p, "save") ELSE Finish(p)
  /\ UNCHANGED <<reg, last, code, tok, me, issued, by>>

\* codeStore.Save, and the redirect with the code.
CodeOf(q) == [client |-> q.client, uri |-> q.uri, scopes |-> q.scopes,
              pkce |-> q.pkce]
Save(p) ==
  /\ At(p, "save")
  /\ \/ \E k \in Codes \ issued :
          /\ code' = [code EXCEPT ![k] = CodeOf(req[p])]
          /\ issued' = issued \cup {k}
          /\ Goto(p, "redirect")
     \/ Outages /\ Finish(p) /\ UNCHANGED <<code, issued>>
  /\ UNCHANGED <<reg, last, tok, me, by>>

\* The answer to the browser, or to the client that asked about a token.
Answer(p) ==
  /\ req[p].pc \in {"redirect", "active"}
  /\ Finish(p)
  /\ UNCHANGED <<reg, last, code, tok, me, issued, by>>

-----------------------------------------------------------------------------
(* The token endpoint, introspection, revocation, userinfo.                *)

\* ExchangeCode consumes the code and compares client and redirect URI.  With
\* a secret the client is authenticated; without one the code needs PKCE, and
\* the registry is not looked at.
ExchangeCode(p, k, c, u, s) ==
  LET g == code[k]
      q == [Idle EXCEPT !.op = "exchange", !.client = c, !.scopes = g.scopes,
                        !.pkce = g.pkce, !.secret = s] IN
  /\ At(p, "idle") /\ g # None
  /\ code' = [code EXCEPT ![k] = None]
  /\ CASE g.client # c \/ g.uri # u -> UNCHANGED req
       [] OTHER ->
            \/ s # None /\ Begin(p, [q EXCEPT !.pc = "auth"])
            \/ s = None /\ g.pkce /\ Begin(p, [q EXCEPT !.pc = "issue"])
            \/ s = None /\ ~g.pkce /\ UNCHANGED req
  /\ UNCHANGED <<reg, last, tok, me, issued, by>>

Introspect(p, c, s, t) ==
  /\ tok[t] # None
  /\ Begin(p, [Idle EXCEPT !.pc = "auth", !.op = "introspect", !.client = c,
                           !.secret = s, !.token = t])
  /\ UNCHANGED <<reg, last, code, tok, me, issued, by>>

Revoke(p, c, s, t) ==
  /\ tok[t] # None
  /\ Begin(p, [Idle EXCEPT !.pc = "auth", !.op = "revoke", !.client = c,
                           !.secret = s, !.token = t])
  /\ UNCHANGED <<reg, last, code, tok, me, issued, by>>

UserInfo(p, t) ==
  /\ tok[t] # None
  /\ Begin(p, [Idle EXCEPT !.pc = "token", !.op = "userinfo", !.token = t])
  /\ UNCHANGED <<reg, last, code, tok, me, issued, by>>

\* AuthenticateClient: the secret of the row, with no overlap.
AuthenticateClientByName(p) ==  \* mutant: the secret is not compared
  LET q == req[p] IN
  /\ At(p, "auth")
  /\ IF reg[q.client] # None
       THEN Goto(p, IF q.op = "exchange" THEN "issue" ELSE "token")
       ELSE Finish(p)
  /\ UNCHANGED <<reg, last, code, tok, me, issued, by>>
AuthenticateClient(p) ==
  LET q == req[p] IN
  /\ At(p, "auth")
  /\ IF SecretOK(q, reg)
       THEN Goto(p, IF q.op = "exchange" THEN "issue" ELSE "token")
       ELSE Finish(p)
  /\ UNCHANGED <<reg, last, code, tok, me, issued, by>>

\* The user is read and found active, and the access token signed.
Issue(p) ==
  /\ At(p, "issue")
  /\ \/ \E t \in Tokens :
          /\ tok[t] = None
          /\ tok' = [tok EXCEPT ![t] = [client |-> req[p].client,
                                        scopes |-> req[p].scopes]]
     \/ UNCHANGED tok
  /\ Finish(p)
  /\ UNCHANGED <<reg, last, code, me, issued, by>>

\* IsRevoked fails open; audienceContains keeps a client to its own tokens.
BlocklistIgnored(q) == FALSE  \* mutant: introspection without the blocklist
Blocked(q) == by[q.token] # None
AudienceAny(q) == TRUE  \* mutant: every token is every client's
Audience(q) == tok[q.token].client = q.client

LookUp(p) ==
  LET q == req[p] IN
  /\ At(p, "token") /\ q.op \in {"introspect", "userinfo"}
  /\ \E blind \in SUBSET (IF Outages THEN {"unrevoked"} ELSE {}) :
       IF \/ blind = {} /\ Blocked(q)
          \/ q.op = "introspect" /\ ~Audience(q)
         THEN Finish(p)
         ELSE req' = [req EXCEPT ![p].pc = "active", ![p].blind = @ \cup blind]
  /\ UNCHANGED <<reg, last, code, tok, me, issued, by>>

\* RevokeAccessToken; a failed SET goes unnoticed.
Block(p) ==
  LET q == req[p] IN
  /\ At(p, "token") /\ q.op = "revoke"
  /\ \/ Audience(q) /\ by' = [by EXCEPT ![q.token] = q.client]
     \/ (~Audience(q) \/ Outages) /\ UNCHANGED by
  /\ Finish(p)
  /\ UNCHANGED <<reg, last, code, tok, me, issued>>

\* EndSession: Logout blocks the browser's token; a redirect after it needs a
\* hint that names a client with that URI.
EndSession(p, c, u) ==
  LET m == [me EXCEPT !.in = FALSE]
      q == [Idle EXCEPT !.pc = "client", !.op = "end_session", !.client = c,
                        !.uri = u] IN
  /\ At(p, "idle")
  /\ me' = m
  /\ req' = [req EXCEPT ![p] = [q EXCEPT !.lacks = Missing(q, reg, m)]]
  /\ UNCHANGED <<reg, last, code, tok, issued, by>>

Next ==
  \/ \E c \in Clients : CreateClient(c) \/ UpdateClient(c) \/
                        RotateClientSecret(c) \/ DeleteClient(c)
  \/ Logout
  \/ \E m \in Me : ChangeMfa(m)
  \/ \E p \in Handlers :
       \/ ReadClient(p) \/ Session(p) \/ Proof(p)
       \/ CreateAuthCodeSession(p) \/ Save(p) \/ Answer(p)
       \/ AuthenticateClient(p) \/ Issue(p) \/ LookUp(p) \/ Block(p)
       \/ \E c \in Clients, u \in Uris :
            \/ Authorize(p, c, u) \/ Deny(p, c, u) \/ EndSession(p, c, u)
            \/ \E S \in SUBSET Scopes, b \in BOOLEAN : Consent(p, c, u, S, b)
            \/ \E k \in Codes, s \in 1..last[c] \cup {None} :
                 ExchangeCode(p, k, c, u, s)
       \/ \E t \in Tokens :
            \/ UserInfo(p, t)
            \/ \E c \in Clients : \E s \in 1..last[c] :
                 Introspect(p, c, s, t) \/ Revoke(p, c, s, t)

Spec == Init /\ [][Next]_vars

-----------------------------------------------------------------------------
(* Properties.                                                             *)

\* Every variable has its type.
TypeOK ==
  /\ reg \in [Clients -> Row \cup {None}]
  /\ last \in [Clients -> 0..MaxSecrets]
  /\ code \in [Codes -> Code \cup {None}]
  /\ tok \in [Tokens -> Token \cup {None}]
  /\ me \in Me
  /\ req \in [Handlers -> Request]
  /\ issued \subseteq Codes
  /\ by \in [Tokens -> Clients \cup {None}]

\* Request q was made by a user who, each at some moment since it began, was
\* signed in and had proved the second factor when there is one, and the client
\* was registered with its redirect URI and scopes; except that of session and
\* second factor a look-up that was not answered is excused.
Consented(q) ==
  q.op = "consent" /\ q.lacks \subseteq q.blind \cap {"session", "proof"}

\* Consent: a code is issued only for what a consented request asked for,
\* however the administrator changed the client and the user signed out
\* meanwhile.  IsRevoked and IsEnabled fail open, so that of session and second
\* factor this is promised only while Redis and the database answer.
CodeWasConsented ==
  [][\A k \in issued' \ issued :
       \E p \in Handlers : Consented(req[p]) /\ code'[k] = CodeOf(req[p])]_vars

\* Authorize, Consent (a denial too) and EndSession send the browser to a
\* client's redirect URI only if it was registered for that client at some
\* moment since the request began.
RedirectIsRegistered ==
  \A p \in Handlers : At(p, "redirect") => "uri" \notin req[p].lacks

\* RFC 7662 and RFC 7009 as the handlers have them: a request gets as far as
\* a token, to be told of it, to end it or to be issued it, only if its
\* client's secret was current at some moment since it began or, at the token
\* endpoint and without a secret, for a code with PKCE; and it is told of, and
\* ends, only a token of its client.
ClientsHaveTheirOwn ==
  /\ \A p \in Handlers :
       req[p].pc \in {"token", "active", "issue"} => "secret" \notin req[p].lacks
  /\ \A p \in Handlers :
       At(p, "active") /\ req[p].op = "introspect" =>
         tok[req[p].token].client = req[p].client
  /\ \A t \in Tokens : by[t] # None => by[t] = tok[t].client

\* Introspect and UserInfo: a token revoked before the request began is not
\* reported active, as long as Redis answers.
RevokedIsInactive ==
  \A p \in Handlers :
    At(p, "active") => "unrevoked" \notin req[p].lacks \ req[p].blind
==================================================================================
