---------------------------- MODULE OidcClientsProofs ----------------------------
(***************************************************************************)
(* Proofs about OidcClients for every set of clients, redirect URIs,       *)
(* scopes, codes, tokens and requests.                                     *)
(***************************************************************************)
EXTENDS OidcClients, TLAPS

(***************************************************************************)
(* The strengthening says what a request has not lacked, or was granted    *)
(* without an answer, after each of its checks.  What it has lacked since  *)
(* it began it lacks still, so that a check which succeeds now shows that  *)
(* it has not lacked it.                                                   *)
(***************************************************************************)

\* The steps of the eight operations, and what each has been given.
Shape(q) ==
  /\ q.pc = "session" => q.op \in {"authorize", "consent", "deny"}
  /\ q.pc \in {"proof", "create", "save"} => q.op = "consent"
  /\ q.pc = "client" => q.op \in {"authorize", "consent", "deny", "end_session"}
  /\ q.pc = "auth" => q.op \in {"exchange", "introspect", "revoke"}
  /\ q.pc = "token" => q.op \in {"introspect", "revoke", "userinfo"}
  /\ q.pc = "issue" => q.op = "exchange"
  /\ q.pc = "auth" => q.secret # None
  /\ q.pc = "active" => q.op \in {"introspect", "userinfo"}
  /\ q.op \in {"consent", "exchange"} => q.client \in Clients
  /\ q.op = "consent" => q.uri \in Uris
  /\ q.op \in {"introspect", "revoke", "userinfo"} =>
       q.token \in Tokens /\ tok[q.token] # None

\* The request has not lacked need since it began, or was not answered.
Given(q, need) == need \in q.lacks => need \in q.blind

\* What the checks that the request has passed have shown.
Cleared(q) ==
  /\ q.op = "consent" =>
       /\ q.pc \in {"proof", "client", "create", "save"} => Given(q, "session")
       /\ q.pc \in {"client", "create", "save"} => Given(q, "proof")
       /\ q.pc \in {"create", "save"} => "scopes" \notin q.lacks
  /\ q.pc \in {"create", "save", "redirect"} \/ (q.pc = "session" /\ q.op = "authorize")
       => "uri" \notin q.lacks
  /\ q.pc \in {"token", "active", "issue"} => "secret" \notin q.lacks
  /\ q.pc = "active" => Given(q, "unrevoked")
  /\ q.pc = "active" /\ q.op = "introspect" => tok[q.token].client = q.client

\* What a request has lacked since it began, it lacks.
Current(q) == q.pc # "idle" => q.lacks \subseteq Missing(q, reg, me)

Known(q) == Shape(q) /\ Cleared(q) /\ Current(q)

\* RevokeAccessToken: the blocklist holds tokens that were issued, each
\* entered by its own client.
BlocklistInv == \A t \in Tokens :
                  by[t] # None => tok[t] # None /\ by[t] = tok[t].client

Inv ==
  /\ TypeOK
  /\ \A p \in Handlers : Known(req[p])
  /\ BlocklistInv

USE DEF At, Given

-----------------------------------------------------------------------------
(* Types, and what a step does to the requests.                            *)

\* What a request lacks, need by need.
LEMMA MissingIs ==
  ASSUME NEW q \in Request, NEW r, NEW m
  PROVE  /\ Missing(q, r, m) \in SUBSET Needs
         /\ Missing(q, r, m) \subseteq Needed[q.op]
         /\ "session" \in Missing(q, r, m) => ~m.in
         /\ "proof" \in Missing(q, r, m) => m.mfa /\ ~m.recent
         /\ "uri" \in Missing(q, r, m) => ~UriOK(q, r)
         /\ "scopes" \in Missing(q, r, m) => ~ScopesOK(q, r)
         /\ "secret" \in Missing(q, r, m) =>
              IF q.secret = None THEN ~q.pkce ELSE ~SecretOK(q, r)
         /\ "unrevoked" \in Missing(q, r, m) => by[q.token] # None
<1>1. q.op \in Ops
  BY DEF Request
<1>2. Needed[q.op] \in SUBSET Needs
  BY <1>1 DEF Ops, Needed, Needs
<1> QED BY <1>2 DEF Missing, Lacking

\* Consent needs four things, and nobody else needs scopes.
LEMMA NeededIs ==
  /\ Needed["consent"] = {"session", "proof", "uri", "scopes"}
  /\ Needed["exchange"] = {"secret"}
  /\ Needed["userinfo"] = {"unrevoked"}
BY DEF Needed

\* A goroutine without a request.
LEMMA IdleType == Idle \in Request /\ Idle.pc = "idle" /\ Idle.op = "authorize"
BY DEF Idle, Request, PCs, Ops

\* A request given as a whole.
LEMMA BeginEffect ==
  ASSUME TypeOK, NEW p \in Handlers, NEW r \in Request,
         req' = [req EXCEPT ![p] = r]
  PROVE  /\ req' \in [Handlers -> Request]
         /\ \A q \in Handlers \ {p} : req'[q] = req[q]
         /\ req'[p] = r
BY DEF TypeOK

\* A finished request is an idle one.
LEMMA FinishEffect ==
  ASSUME TypeOK, NEW p \in Handlers, Finish(p)
  PROVE  /\ req' \in [Handlers -> Request]
         /\ \A q \in Handlers \ {p} : req'[q] = req[q]
         /\ req'[p].pc = "idle" /\ req'[p].op = "authorize"
BY IdleType, BeginEffect DEF Finish

\* Request n is request q further on.
Same(q, n) ==
  /\ n.op = q.op /\ n.client = q.client /\ n.uri = q.uri /\ n.scopes = q.scopes
  /\ n.pkce = q.pkce /\ n.secret = q.secret /\ n.token = q.token
  /\ n.lacks \subseteq q.lacks /\ q.blind \subseteq n.blind

\* A step moves the request on, and may have had no answer.
LEMMA AdvanceEffect ==
  ASSUME TypeOK, NEW p \in Handlers, NEW pc \in PCs, NEW B \in SUBSET FailOpen,
         req' = [req EXCEPT ![p].pc = pc, ![p].blind = req[p].blind \cup B]
  PROVE  /\ req' \in [Handlers -> Request]
         /\ \A q \in Handlers \ {p} : req'[q] = req[q]
         /\ req'[p].pc = pc /\ req'[p].lacks = req[p].lacks
         /\ B \subseteq req'[p].blind /\ Same(req[p], req'[p])
<1> DEFINE S == req[p].blind \cup B
           r == [req[p] EXCEPT !.pc = pc, !.blind = S]
<1>1. req[p] \in Request
  BY DEF TypeOK
<1>2. req' = [req EXCEPT ![p] = r]
  BY <1>1 DEF TypeOK
<1>3. S \in SUBSET FailOpen /\ req[p].blind \subseteq S /\ B \subseteq S
  BY <1>1 DEF Request
<1> HIDE DEF S
<1>4. /\ r \in Request /\ r.pc = pc /\ r.lacks = req[p].lacks /\ r.blind = S
      /\ Same(req[p], r)
  BY <1>1, <1>3 DEF Request, Same
<1> HIDE DEF r
<1> QED BY <1>2, <1>3, <1>4, BeginEffect

\* Goto changes nothing but the next step.
LEMMA GotoEffect ==
  ASSUME TypeOK, NEW p \in Handlers, NEW pc \in PCs, Goto(p, pc)
  PROVE  /\ req' \in [Handlers -> Request]
         /\ \A q \in Handlers \ {p} : req'[q] = req[q]
         /\ req'[p].pc = pc /\ req'[p].lacks = req[p].lacks
         /\ req'[p].blind = req[p].blind /\ Same(req[p], req'[p])
BY DEF TypeOK, Request, Goto, Same

-----------------------------------------------------------------------------
(* The kinds of step.                                                      *)

\* The user and the blocklist change in ways that give a request nothing it
\* lacked: signing out, revoking.  Tokens are issued once.
Worsens ==
  /\ UNCHANGED reg
  /\ me'.mfa = me.mfa /\ me'.recent = me.recent /\ (me'.in => me.in)
  /\ \A t \in Tokens : by[t] # None => by'[t] # None
  /\ \A t \in Tokens : tok[t] # None => tok'[t] = tok[t]

\* What a request lacked before such a change it lacks after it.
LEMMA StillLacks ==
  ASSUME Worsens, NEW p \in Handlers, req[p] \in Request, Shape(req[p]), Current(req[p]),
         req[p].pc # "idle", Same(req[p], req'[p]), req'[p].pc # "idle"
  PROVE  Current(req[p])'
<1>1. req[p].lacks \subseteq Missing(req[p], reg, me)
  BY DEF Current
<1>2. ASSUME NEW need \in req'[p].lacks
      PROVE  need \in Missing(req[p], reg, me)'
  <2>1. need \in Needed[req[p].op] /\ Lacking(need, req[p], reg, me)
    BY <1>1, <1>2 DEF Missing, Same
  <2>2. need \in Needed[req'[p].op]
    BY <2>1 DEF Same
  <2>3. CASE need = "session"
    BY <2>1, <2>2, <2>3 DEF Lacking, Missing, Worsens
  <2>4. CASE need = "proof"
    BY <2>1, <2>2, <2>4 DEF Lacking, Missing, Worsens
  <2>5. CASE need \in {"uri", "scopes", "secret"}
    BY <2>1, <2>2, <2>5 DEF Lacking, Missing, Worsens, Same, UriOK, ScopesOK, SecretOK
  <2>6. CASE need = "unrevoked"
    <3>1. req[p].op \in {"introspect", "userinfo"}
      BY <2>1, <2>6 DEF Needed, Ops, Request
    <3>2. req[p].token \in Tokens /\ by[req[p].token] # None
      BY <2>1, <2>6, <3>1 DEF Shape, Lacking
    <3>3. by'[req'[p].token] # None
      BY <3>2 DEF Worsens, Same
    <3> QED BY <2>2, <2>6, <3>3 DEF Lacking, Missing
  <2>7. need \in {"session", "proof", "uri", "scopes", "secret", "unrevoked"}
    BY <2>1 DEF Needed, Ops, Request
  <2> QED BY <2>3, <2>4, <2>5, <2>6, <2>7
<1> QED BY <1>2 DEF Current

\* A step after which every request that moved knows what it must.
LEMMA WorsensStep ==
  ASSUME Inv, Worsens, TypeOK', BlocklistInv',
         \A q \in Handlers : req'[q] = req[q] \/ Known(req[q])'
  PROVE  Inv'
<1>1. ASSUME NEW q \in Handlers, req'[q] = req[q] PROVE Known(req[q])'
  <2>1. Known(req[q]) /\ req[q] \in Request
    BY DEF Inv, TypeOK
  <2>2. Shape(req[q])'
    BY <1>1, <2>1 DEF Known, Shape, Worsens
  <2>3. Cleared(req[q])'
    BY <1>1, <2>1 DEF Known, Shape, Cleared, Worsens
  <2>4. Current(req[q])'
    <3>1. CASE req[q].pc = "idle"
      BY <1>1, <3>1 DEF Current
    <3>2. CASE req[q].pc # "idle"
      BY <1>1, <2>1, <3>2, StillLacks DEF Known, Same
    <3> QED BY <3>1, <3>2
  <2> QED BY <2>2, <2>3, <2>4 DEF Known
<1> QED BY <1>1 DEF Inv

\* An idle request needs nothing.
LEMMA IdleKnown ==
  ASSUME NEW p \in Handlers, req'[p].pc = "idle", req'[p].op = "authorize"
  PROVE  Known(req[p])'
BY DEF Known, Shape, Cleared, Current

\* The variables a handler's step that only reads leaves alone.
Reads == UNCHANGED <<reg, last, code, tok, me, issued, by>>

\* Such a step gives and takes nothing.
LEMMA ReadsEffect ==
  ASSUME Inv, Reads, req' \in [Handlers -> Request]
  PROVE  Worsens /\ TypeOK' /\ BlocklistInv'
BY DEF Inv, Reads, Worsens, TypeOK, BlocklistInv

\* A request ends.
LEMMA EndStep ==
  ASSUME Inv, NEW p \in Handlers, Finish(p), Reads
  PROVE  Inv'
<1>1. /\ req' \in [Handlers -> Request]
      /\ \A q \in Handlers \ {p} : req'[q] = req[q]
      /\ req'[p].pc = "idle" /\ req'[p].op = "authorize"
  BY FinishEffect DEF Inv
<1>2. Known(req[p])'
  BY <1>1, IdleKnown
<1> QED BY <1>1, <1>2, ReadsEffect, WorsensStep

\* A request moves on after a check.
LEMMA AdvanceStep ==
  ASSUME Inv, NEW p \in Handlers, Reads,
         req' \in [Handlers -> Request],
         \A q \in Handlers \ {p} : req'[q] = req[q],
         Same(req[p], req'[p]), req[p].pc # "idle", req'[p].pc # "idle",
         Shape(req[p])', Cleared(req[p])'
  PROVE  Inv'
<1>1. Worsens /\ TypeOK' /\ BlocklistInv'
  BY ReadsEffect
<1>2. Known(req[p]) /\ req[p] \in Request
  BY DEF Inv, TypeOK
<1>3. Current(req[p])'
  BY <1>1, <1>2, StillLacks DEF Known
<1>4. Known(req[p])'
  BY <1>3 DEF Known
<1> QED BY <1>1, <1>4, WorsensStep

\* A request arrives and notes what it lacks.
LEMMA BeginStep ==
  ASSUME Inv, Worsens, UNCHANGED <<tok, by>>, TypeOK',
         NEW p \in Handlers, NEW r \in Request,
         \A q \in Handlers \ {p} : req'[q] = req[q],
         req'[p] = [r EXCEPT !.lacks = Missing(r, reg, me')],
         Shape(r),
         \/ r.pc = "session" /\ r.op \in {"consent", "deny"}
         \/ r.pc \in {"client", "auth"} /\ r.op # "consent"
         \/ r.pc = "token" /\ r.op = "userinfo"
         \/ r.pc = "issue" /\ r.secret = None /\ r.pkce
  PROVE  Inv'
<1> DEFINE L == Missing(r, reg, me')
<1>1. /\ L \in SUBSET Needs /\ L \subseteq Needed[r.op]
      /\ "secret" \in L => ~(r.secret = None /\ r.pkce)
  BY MissingIs
<1>2. /\ req'[p].pc = r.pc /\ req'[p].op = r.op /\ req'[p].client = r.client
      /\ req'[p].uri = r.uri /\ req'[p].scopes = r.scopes
      /\ req'[p].pkce = r.pkce /\ req'[p].secret = r.secret
      /\ req'[p].token = r.token /\ req'[p].lacks = L
  BY DEF Request
<1>3. L = Missing(req[p], reg, me)'
  BY <1>2 DEF Worsens, Missing, Lacking, UriOK, ScopesOK, SecretOK
<1> HIDE DEF L
<1>4. Current(req[p])'
  BY <1>2, <1>3 DEF Current
<1>5. Shape(req[p])'
  BY <1>2 DEF Shape
<1>6. Cleared(req[p])'
  BY <1>1, <1>2, NeededIs DEF Cleared
<1>7. Known(req[p])'
  BY <1>4, <1>5, <1>6 DEF Known
<1>8. BlocklistInv'
  BY DEF Inv, BlocklistInv
<1> QED BY <1>7, <1>8, WorsensStep

\* The registry or the user changes: what a request has lacked is what it
\* lacked and lacks now.
LEMMA WatchStep ==
  ASSUME Inv, Watch(reg', me'), UNCHANGED <<code, tok, issued, by>>,
         reg' \in [Clients -> Row \cup {None}],
         last' \in [Clients -> 0..MaxSecrets], me' \in Me
  PROVE  Inv'
<1>1. ASSUME NEW q \in Handlers
      PROVE  /\ req'[q] \in Request /\ Same(req[q], req'[q])
             /\ req'[q].pc = req[q].pc
             /\ req'[q].lacks \subseteq Missing(req[q], reg', me')
  <2>1. req[q] \in Request
    BY DEF Inv, TypeOK
  <2>2. CASE req[q].lacks = {}
    <3>1. req'[q] = req[q]
      BY <2>2 DEF Watch
    <3> QED BY <2>1, <2>2, <3>1 DEF Same
  <2>3. CASE req[q].lacks # {}
    <3> DEFINE L == req[q].lacks \cap Missing(req[q], reg', me')
    <3>1. req'[q] = [req[q] EXCEPT !.lacks = L]
      BY <2>3 DEF Watch
    <3>2. /\ L \in SUBSET Needs /\ L \subseteq req[q].lacks
          /\ L \subseteq Missing(req[q], reg', me')
      BY <2>1 DEF Request
    <3> HIDE DEF L
    <3> QED BY <2>1, <3>1, <3>2 DEF Request, Same
  <2> QED BY <2>2, <2>3
<1>2. req' \in [Handlers -> Request]
  <2>1. req' = [q \in Handlers |-> req'[q]]
    BY DEF Watch
  <2> QED BY <1>1, <2>1
<1>3. TypeOK' /\ BlocklistInv'
  BY <1>2 DEF Inv, TypeOK, BlocklistInv
<1>4. ASSUME NEW q \in Handlers PROVE Known(req[q])'
  <2>1. Known(req[q])
    BY DEF Inv
  <2>2. Shape(req[q])'
    BY <1>1, <2>1 DEF Known, Shape, Same
  <2>3. Cleared(req[q])'
    BY <1>1, <2>1 DEF Known, Shape, Cleared, Same
  <2>4. ASSUME NEW need \in Missing(req[q], reg', me')
        PROVE  need \in Missing(req[q], reg, me)'
    <3>1. /\ req'[q].op = req[q].op /\ req'[q].client = req[q].client
          /\ req'[q].uri = req[q].uri /\ req'[q].scopes = req[q].scopes
          /\ req'[q].pkce = req[q].pkce /\ req'[q].secret = req[q].secret
          /\ req'[q].token = req[q].token
      BY <1>1 DEF Same
    <3> QED BY <2>4, <3>1 DEF Missing, Lacking, UriOK, ScopesOK, SecretOK
  <2>5. Current(req[q])'
    BY <1>1, <2>4 DEF Current
  <2> QED BY <2>2, <2>3, <2>5 DEF Known
<1> QED BY <1>3, <1>4 DEF Inv

-----------------------------------------------------------------------------
(* Administrators and the user.                                            *)

\* A statement of the admin API.
LEMMA SetRowStep ==
  ASSUME Inv, NEW c \in Clients, NEW r \in Row \cup {None}, SetRow(c, r),
         last' \in [Clients -> 0..MaxSecrets], UNCHANGED <<code, tok, me, issued, by>>
  PROVE  Inv'
<1>1. reg' = [reg EXCEPT ![c] = r] /\ Watch(reg', me')
  BY DEF SetRow
<1>2. reg' \in [Clients -> Row \cup {None}] /\ me' \in Me
  BY <1>1 DEF Inv, TypeOK
<1> QED BY <1>1, <1>2, WatchStep

\* CreateClient generates the first secret, RotateClientSecret another one.
LEMMA SecretStep ==
  ASSUME Inv, NEW c \in Clients, CreateClient(c) \/ RotateClientSecret(c)
  PROVE  Inv'
<1>1. /\ UNCHANGED <<code, tok, me, issued, by>> /\ last[c] < MaxSecrets
      /\ last' = [last EXCEPT ![c] = last[c] + 1]
      /\ last \in [Clients -> 0..MaxSecrets] /\ MaxSecrets \in Nat
  BY OidcClientsAssumption DEF Inv, TypeOK, CreateClient, RotateClientSecret
<1>2. last[c] + 1 \in Secrets /\ last' \in [Clients -> 0..MaxSecrets]
  BY <1>1 DEF Secrets
<1>3. CASE CreateClient(c)
  <2>1. PICK U \in SUBSET Uris, S \in SUBSET Scopes :
          SetRow(c, [uris |-> U, scopes |-> S, secret |-> last[c] + 1])
    BY <1>3 DEF CreateClient, RegisteredUris
  <2>2. [uris |-> U, scopes |-> S, secret |-> last[c] + 1] \in Row
    BY <1>2 DEF Row
  <2> QED BY <1>1, <1>2, <2>1, <2>2, SetRowStep
<1>4. CASE RotateClientSecret(c)
  <2>1. reg[c] \in Row /\ SetRow(c, [reg[c] EXCEPT !.secret = last[c] + 1])
    BY <1>4 DEF RotateClientSecret, Inv, TypeOK
  <2>2. [reg[c] EXCEPT !.secret = last[c] + 1] \in Row
    BY <1>2, <2>1 DEF Row
  <2> QED BY <1>1, <1>2, <2>1, <2>2, SetRowStep
<1> QED BY <1>3, <1>4

\* UpdateClient and DeleteClient.
LEMMA UpdateStep ==
  ASSUME Inv, NEW c \in Clients, UpdateClient(c) \/ DeleteClient(c)
  PROVE  Inv'
<1>1. /\ UNCHANGED <<last, code, tok, me, issued, by>> /\ reg[c] \in Row
      /\ last' \in [Clients -> 0..MaxSecrets]
  BY DEF Inv, TypeOK, UpdateClient, DeleteClient
<1>2. CASE UpdateClient(c)
  <2>1. PICK U \in SUBSET Uris, S \in SUBSET Scopes :
          SetRow(c, [reg[c] EXCEPT !.uris = U, !.scopes = S])
    BY <1>2 DEF UpdateClient
  <2>2. [reg[c] EXCEPT !.uris = U, !.scopes = S] \in Row
    BY <1>1 DEF Row
  <2> QED BY <1>1, <2>1, <2>2, SetRowStep
<1>3. CASE DeleteClient(c)
  BY <1>1, <1>3, SetRowStep DEF DeleteClient
<1> QED BY <1>2, <1>3

\* Signing out leaves the rest of the user alone.
LEMMA SignedOut ==
  ASSUME TypeOK
  PROVE  /\ [me EXCEPT !.in = FALSE] \in Me /\ ~[me EXCEPT !.in = FALSE].in
         /\ [me EXCEPT !.in = FALSE].mfa = me.mfa
         /\ [me EXCEPT !.in = FALSE].recent = me.recent
BY DEF TypeOK, Me

\* The user signs out.
LEMMA LogoutStep ==
  ASSUME Inv, Logout
  PROVE  Inv'
<1>1. UNCHANGED <<reg, last, code, tok, req, issued, by>>
  BY DEF Logout
<1>2. me' \in Me /\ ~me'.in /\ me'.mfa = me.mfa /\ me'.recent = me.recent
  BY SignedOut DEF Inv, Logout
<1>3. Worsens /\ TypeOK' /\ BlocklistInv'
  BY <1>1, <1>2 DEF Inv, Worsens, TypeOK, BlocklistInv
<1> QED BY <1>1, <1>3, WorsensStep

\* The second factor changes.
LEMMA ChangeMfaStep ==
  ASSUME Inv, NEW m \in Me, ChangeMfa(m)
  PROVE  Inv'
<1>1. /\ UNCHANGED <<reg, last, code, tok, issued, by>> /\ me' \in Me
      /\ Watch(reg', me')
  BY DEF ChangeMfa
<1> QED BY <1>1, WatchStep DEF Inv, TypeOK

-----------------------------------------------------------------------------
(* Authorize and consent.                                                  *)

\* A request arrives; the exchange of a code consumes it first.
LEMMA ArriveStep ==
  ASSUME Inv, NEW p \in Handlers, NEW r \in Request, Begin(p, r),
         UNCHANGED <<reg, last, tok, me, issued, by>>,
         code' \in [Codes -> Code \cup {None}],
         Shape(r),
         \/ r.pc = "session" /\ r.op \in {"consent", "deny"}
         \/ r.pc \in {"client", "auth"} /\ r.op # "consent"
         \/ r.pc = "token" /\ r.op = "userinfo"
         \/ r.pc = "issue" /\ r.secret = None /\ r.pkce
  PROVE  Inv'
<1> DEFINE n == [r EXCEPT !.lacks = Missing(r, reg, me)]
<1>1. TypeOK /\ n \in Request
  BY MissingIs DEF Inv, Request
<1>2. req' = [req EXCEPT ![p] = n]
  BY DEF Begin
<1>3. /\ req' \in [Handlers -> Request] /\ req'[p] = n
      /\ \A q \in Handlers \ {p} : req'[q] = req[q]
  BY <1>1, <1>2, BeginEffect
<1>4. req'[p] = [r EXCEPT !.lacks = Missing(r, reg, me')]
  BY <1>3
<1> HIDE DEF n
<1>5. Worsens /\ TypeOK'
  BY <1>1, <1>3 DEF Worsens, TypeOK
<1> QED BY <1>3, <1>4, <1>5, BeginStep

\* Authorize is called.
LEMMA AuthorizeStep ==
  ASSUME Inv, NEW p \in Handlers, NEW c \in Clients, NEW u \in Uris,
         Authorize(p, c, u)
  PROVE  Inv'
<1> DEFINE r == [Idle EXCEPT !.pc = "client", !.client = c, !.uri = u]
<1>1. /\ r \in Request /\ r.client = c /\ r.uri = u /\ r.pc = "client"
      /\ r.op = "authorize"
  BY IdleType DEF Idle, Request, PCs, Ops
<1>2. Begin(p, r) /\ UNCHANGED <<reg, last, code, tok, me, issued, by>>
  BY DEF Authorize
<1> HIDE DEF r
<1>3. Shape(r)
  BY <1>1 DEF Shape
<1>4. code' \in [Codes -> Code \cup {None}]
  BY <1>2 DEF Inv, TypeOK
<1> QED BY <1>1, <1>2, <1>3, <1>4, ArriveStep

\* Consent is called, with an agreement or with a denial.
LEMMA ConsentStep ==
  ASSUME Inv, NEW p \in Handlers, NEW c \in Clients, NEW u \in Uris,
         NEW S \in SUBSET Scopes, NEW b \in BOOLEAN,
         Consent(p, c, u, S, b) \/ Deny(p, c, u)
  PROVE  Inv'
<1> DEFINE r == [Idle EXCEPT !.pc = "session", !.op = "consent", !.client = c,
                             !.uri = u, !.scopes = S, !.pkce = b]
           d == [Idle EXCEPT !.pc = "session", !.op = "deny", !.client = c,
                             !.uri = u]
<1>1. /\ r \in Request /\ r.client = c /\ r.uri = u /\ r.pc = "session"
      /\ r.op = "consent"
  BY IdleType DEF Idle, Request, PCs, Ops
<1>2. /\ d \in Request /\ d.client = c /\ d.uri = u /\ d.pc = "session"
      /\ d.op = "deny"
  BY IdleType DEF Idle, Request, PCs, Ops
<1>3. Begin(p, r) \/ Begin(p, d)
  BY DEF Consent, Deny
<1>4. UNCHANGED <<reg, last, code, tok, me, issued, by>>
  BY DEF Consent, Deny
<1> HIDE DEF r, d
<1>5. Shape(r) /\ Shape(d)
  BY <1>1, <1>2 DEF Shape
<1>6. code' \in [Codes -> Code \cup {None}]
  BY <1>4 DEF Inv, TypeOK
<1>7. CASE Begin(p, r)
  BY <1>1, <1>4, <1>5, <1>6, <1>7, ArriveStep
<1>8. CASE Begin(p, d)
  BY <1>2, <1>4, <1>5, <1>6, <1>8, ArriveStep
<1> QED BY <1>3, <1>7, <1>8

\* EndSession signs the user out and goes on to the redirect.
LEMMA EndSessionStep ==
  ASSUME Inv, NEW p \in Handlers, NEW c \in Clients, NEW u \in Uris,
         EndSession(p, c, u)
  PROVE  Inv'
<1> DEFINE r == [Idle EXCEPT !.pc = "client", !.op = "end_session", !.client = c,
                             !.uri = u]
           n == [r EXCEPT !.lacks = Missing(r, reg, me')]
<1>1. /\ r \in Request /\ r.client = c /\ r.uri = u /\ r.pc = "client"
      /\ r.op = "end_session"
  BY IdleType DEF Idle, Request, PCs, Ops
<1>2. /\ UNCHANGED <<reg, last, code, tok, issued, by>> /\ TypeOK
      /\ me' = [me EXCEPT !.in = FALSE]
  BY DEF Inv, EndSession
<1>3. me' \in Me /\ ~me'.in /\ me'.mfa = me.mfa /\ me'.recent = me.recent
  BY <1>2, SignedOut
<1>4. req' = [req EXCEPT ![p] = n]
  BY <1>2 DEF EndSession
<1>5. Shape(r)
  BY <1>1 DEF Shape
<1> HIDE DEF r
<1>6. n \in Request
  BY <1>1, MissingIs DEF Request
<1>7. /\ req' \in [Handlers -> Request] /\ req'[p] = n
      /\ \A q \in Handlers \ {p} : req'[q] = req[q]
  BY <1>2, <1>4, <1>6, BeginEffect
<1>8. Worsens /\ TypeOK'
  BY <1>2, <1>3, <1>7 DEF Inv, Worsens, TypeOK
<1> QED BY <1>1, <1>2, <1>5, <1>7, <1>8, BeginStep

\* FindByClientID: a redirect URI that is registered now, and for a consent
\* scopes that are, are no longer lacking.
LEMMA ReadClientStep ==
  ASSUME Inv, NEW p \in Handlers, ReadClient(p)
  PROVE  Inv'
<1>1. /\ TypeOK /\ Reads /\ req[p] \in Request /\ Known(req[p])
      /\ req[p].pc = "client"
  BY DEF Inv, TypeOK, Reads, ReadClient
<1>2. /\ req[p].op \in {"authorize", "consent", "deny", "end_session"}
      /\ req[p].lacks \subseteq Missing(req[p], reg, me)
  BY <1>1 DEF Known, Shape, Current
<1>3. CASE Finish(p)
  BY <1>1, <1>3, EndStep
<1>4. ASSUME NEW pc \in PCs, Goto(p, pc), UriOK(req[p], reg),
             \/ pc = "redirect" /\ req[p].op \in {"deny", "end_session"}
             \/ pc = "session" /\ req[p].op = "authorize"
             \/ pc = "create" /\ req[p].op = "consent" /\ ScopesOK(req[p], reg)
      PROVE  Inv'
  <2>1. /\ req' \in [Handlers -> Request]
        /\ \A q \in Handlers \ {p} : req'[q] = req[q]
        /\ req'[p].pc = pc /\ req'[p].lacks = req[p].lacks
        /\ req'[p].blind = req[p].blind /\ Same(req[p], req'[p])
    BY <1>1, <1>4, GotoEffect
  <2>2. /\ "uri" \notin req[p].lacks
        /\ ScopesOK(req[p], reg) => "scopes" \notin req[p].lacks
    BY <1>1, <1>2, <1>4, MissingIs
  <2>3. UNCHANGED tok
    BY <1>1 DEF Reads
  <2>4. Shape(req[p])'
    BY <1>1, <1>4, <2>1, <2>3 DEF Known, Shape, Same
  <2>5. Cleared(req[p])'
    BY <1>1, <1>4, <2>1, <2>2, <2>3 DEF Known, Cleared, Same
  <2>6. req'[p].pc # "idle"
    BY <1>4, <2>1
  <2> QED BY <1>1, <2>1, <2>4, <2>5, <2>6, AdvanceStep
<1>5. "redirect" \in PCs /\ "session" \in PCs /\ "create" \in PCs
  BY DEF PCs
<1>6. CASE UriOK(req[p], reg) /\ ~Finish(p)
  BY <1>2, <1>4, <1>5, <1>6 DEF ReadClient, RedirectAllowed
<1>7. CASE ~UriOK(req[p], reg)
  BY <1>3, <1>7 DEF ReadClient, RedirectAllowed
<1> QED BY <1>3, <1>6, <1>7

\* IsRevoked of the browser's token: the user is signed in, or there is no
\* answer.
LEMMA SessionStep ==
  ASSUME Inv, NEW p \in Handlers, Session(p)
  PROVE  Inv'
<1>1. /\ TypeOK /\ Reads /\ req[p] \in Request /\ Known(req[p])
      /\ req[p].pc = "session"
  BY DEF Inv, TypeOK, Reads, Session
<1>2. /\ req[p].op \in {"authorize", "consent", "deny"}
      /\ req[p].lacks \subseteq Missing(req[p], reg, me)
  BY <1>1 DEF Known, Shape, Current
<1>3. CASE Finish(p)
  BY <1>1, <1>3, EndStep
<1>4. ASSUME NEW pc \in PCs,
             req' \in [Handlers -> Request],
             \A q \in Handlers \ {p} : req'[q] = req[q],
             req'[p].pc = pc, req'[p].lacks = req[p].lacks, Same(req[p], req'[p]),
             \/ req[p].op = "authorize" /\ pc = "redirect"
             \/ req[p].op = "consent" /\ pc = "proof" /\ Given(req'[p], "session")
             \/ req[p].op = "deny" /\ pc = "client"
      PROVE  Inv'
  <2>1. UNCHANGED tok
    BY <1>1 DEF Reads
  <2>2. Shape(req[p])'
    BY <1>1, <1>4, <2>1 DEF Known, Shape, Same
  <2>3. Cleared(req[p])'
    BY <1>1, <1>4, <2>1 DEF Known, Cleared, Same
  <2>4. req'[p].pc # "idle"
    BY <1>4
  <2> QED BY <1>1, <1>4, <2>2, <2>3, <2>4, AdvanceStep
<1>5. /\ "redirect" \in PCs /\ "proof" \in PCs /\ "client" \in PCs
      /\ {"session"} \in SUBSET FailOpen
  BY DEF PCs, FailOpen
<1>6. CASE req[p].op = "authorize" /\ Goto(p, "redirect")
  <2>1. /\ req' \in [Handlers -> Request]
        /\ \A q \in Handlers \ {p} : req'[q] = req[q]
        /\ req'[p].pc = "redirect" /\ req'[p].lacks = req[p].lacks
        /\ Same(req[p], req'[p])
    BY <1>1, <1>5, <1>6, GotoEffect
  <2> QED BY <1>4, <1>5, <1>6, <2>1
<1> DEFINE next == IF req[p].op = "consent" THEN "proof" ELSE "client"
<1>7. next \in PCs
  BY <1>5
<1>8. CASE req[p].op # "authorize" /\ me.in /\ Goto(p, next)
  <2>1. /\ req' \in [Handlers -> Request]
        /\ \A q \in Handlers \ {p} : req'[q] = req[q]
        /\ req'[p].pc = next /\ req'[p].lacks = req[p].lacks
        /\ Same(req[p], req'[p])
    BY <1>1, <1>7, <1>8, GotoEffect
  <2>2. Given(req'[p], "session")
    BY <1>1, <1>2, <1>8, <2>1, MissingIs
  <2> QED BY <1>2, <1>4, <1>5, <1>8, <2>1, <2>2
<1>9. CASE /\ req[p].op # "authorize"
           /\ req' = [req EXCEPT ![p].pc = next,
                                 ![p].blind = req[p].blind \cup {"session"}]
  <2> HIDE DEF next
  <2>1. /\ req' \in [Handlers -> Request]
        /\ \A q \in Handlers \ {p} : req'[q] = req[q]
        /\ req'[p].pc = next /\ req'[p].lacks = req[p].lacks
        /\ {"session"} \subseteq req'[p].blind /\ Same(req[p], req'[p])
    BY <1>1, <1>5, <1>7, <1>9, AdvanceEffect
  <2> QED BY <1>2, <1>4, <1>5, <1>9, <2>1 DEF next
<1>10. (\/ req[p].op = "authorize" /\ Goto(p, "redirect")
        \/ Finish(p)
        \/ req[p].op # "authorize" /\ me.in /\ Goto(p, next)
        \/ /\ req[p].op # "authorize"
           /\ req' = [req EXCEPT ![p].pc = next,
                                 ![p].blind = req[p].blind \cup {"session"}])
  BY <1>1 DEF Session, TypeOK
<1> QED BY <1>3, <1>6, <1>8, <1>9, <1>10

\* The second factor: no proof is needed, or there is no answer.
LEMMA ProofStep ==
  ASSUME Inv, NEW p \in Handlers, Proof(p)
  PROVE  Inv'
<1>1. /\ TypeOK /\ Reads /\ req[p] \in Request /\ Known(req[p])
      /\ req[p].pc = "proof"
  BY DEF Inv, TypeOK, Request, Reads, Proof
<1>2. /\ req[p].op = "consent" /\ Given(req[p], "session")
      /\ req[p].lacks \subseteq Missing(req[p], reg, me)
  BY <1>1 DEF Known, Shape, Cleared, Current
<1>3. CASE Finish(p)
  BY <1>1, <1>3, EndStep
<1>4. ASSUME req' \in [Handlers -> Request],
             \A q \in Handlers \ {p} : req'[q] = req[q],
             req'[p].pc = "client", req'[p].lacks = req[p].lacks,
             Same(req[p], req'[p]), Given(req'[p], "proof")
      PROVE  Inv'
  <2>1. UNCHANGED tok
    BY <1>1 DEF Reads
  <2>2. Shape(req[p])'
    BY <1>1, <1>2, <1>4, <2>1 DEF Known, Shape, Same
  <2>3. Cleared(req[p])'
    BY <1>2, <1>4 DEF Cleared, Same
  <2>4. req'[p].pc # "idle"
    BY <1>4
  <2> QED BY <1>1, <1>4, <2>2, <2>3, <2>4, AdvanceStep
<1>5. "client" \in PCs /\ {"proof"} \in SUBSET FailOpen
  BY DEF PCs, FailOpen
<1>6. CASE ~ProofNeeded /\ Goto(p, "client")
  <2>1. /\ req' \in [Handlers -> Request]
        /\ \A q \in Handlers \ {p} : req'[q] = req[q]
        /\ req'[p].pc = "client" /\ req'[p].lacks = req[p].lacks
        /\ Same(req[p], req'[p])
    BY <1>1, <1>5, <1>6, GotoEffect
  <2>2. Given(req'[p], "proof")
    BY <1>1, <1>2, <1>6, <2>1, MissingIs DEF ProofNeeded
  <2> QED BY <1>4, <2>1, <2>2
<1>7. CASE req' = [req EXCEPT ![p].pc = "client",
                              ![p].blind = req[p].blind \cup {"proof"}]
  <2>1. /\ req' \in [Handlers -> Request]
        /\ \A q \in Handlers \ {p} : req'[q] = req[q]
        /\ req'[p].pc = "client" /\ req'[p].lacks = req[p].lacks
        /\ {"proof"} \subseteq req'[p].blind /\ Same(req[p], req'[p])
    BY <1>1, <1>5, <1>7, AdvanceEffect
  <2> QED BY <1>4, <2>1
<1> QED BY <1>1, <1>3, <1>6, <1>7 DEF Proof, TypeOK

\* CreateAuthCodeSession reads the client once more.
LEMMA CreateAuthCodeSessionStep ==
  ASSUME Inv, NEW p \in Handlers, CreateAuthCodeSession(p)
  PROVE  Inv'
<1>1. /\ TypeOK /\ Reads /\ req[p] \in Request /\ Known(req[p])
      /\ req[p].pc = "create"
  BY DEF Inv, TypeOK, Reads, CreateAuthCodeSession
<1>2. CASE Finish(p)
  BY <1>1, <1>2, EndStep
<1>3. CASE Goto(p, "save")
  <2>1. "save" \in PCs
    BY DEF PCs
  <2>2. /\ req' \in [Handlers -> Request]
        /\ \A q \in Handlers \ {p} : req'[q] = req[q]
        /\ req'[p].pc = "save" /\ req'[p].lacks = req[p].lacks
        /\ req'[p].blind = req[p].blind /\ Same(req[p], req'[p])
    BY <1>1, <1>3, <2>1, GotoEffect
  <2>3. UNCHANGED tok
    BY <1>1 DEF Reads
  <2>4. Shape(req[p])'
    BY <1>1, <2>2, <2>3 DEF Known, Shape, Same
  <2>5. Cleared(req[p])'
    BY <1>1, <2>2, <2>3 DEF Known, Shape, Cleared, Same
  <2> QED BY <1>1, <2>2, <2>4, <2>5, AdvanceStep
<1> QED BY <1>2, <1>3 DEF CreateAuthCodeSession

\* Save: the request goes on to the redirect.
LEMMA SaveStep ==
  ASSUME Inv, NEW p \in Handlers, Save(p)
  PROVE  Inv'
<1>1. /\ TypeOK /\ req[p] \in Request /\ Known(req[p]) /\ req[p].pc = "save"
      /\ UNCHANGED <<reg, last, tok, me, by>>
  BY DEF Inv, TypeOK, Save
<1>2. /\ req[p].client \in Clients /\ req[p].uri \in Uris
      /\ "uri" \notin req[p].lacks
  BY <1>1 DEF Known, Shape, Cleared
<1>3. CodeOf(req[p]) \in Code
  BY <1>1, <1>2 DEF CodeOf, Code, Request
<1>4. CASE Finish(p) /\ UNCHANGED <<code, issued>>
  BY <1>1, <1>4, EndStep DEF Reads
<1>5. ASSUME NEW k \in Codes, code' = [code EXCEPT ![k] = CodeOf(req[p])],
             issued' = issued \cup {k}, Goto(p, "redirect")
      PROVE  Inv'
  <2>1. code' \in [Codes -> Code \cup {None}] /\ issued' \subseteq Codes
    BY <1>1, <1>3, <1>5 DEF TypeOK
  <2>2. "redirect" \in PCs
    BY DEF PCs
  <2>3. /\ req' \in [Handlers -> Request]
        /\ \A q \in Handlers \ {p} : req'[q] = req[q]
        /\ req'[p].pc = "redirect" /\ req'[p].lacks = req[p].lacks
        /\ Same(req[p], req'[p])
    BY <1>1, <1>5, <2>2, GotoEffect
  <2>4. Worsens /\ TypeOK' /\ BlocklistInv'
    BY <1>1, <2>1, <2>3 DEF Inv, Worsens, TypeOK, BlocklistInv
  <2>5. Shape(req[p])'
    BY <1>1, <2>3 DEF Known, Shape, Same
  <2>6. Cleared(req[p])'
    BY <1>2, <2>3 DEF Cleared
  <2>7. Current(req[p])'
    BY <1>1, <2>3, <2>4, StillLacks DEF Known
  <2>8. Known(req[p])'
    BY <2>5, <2>6, <2>7 DEF Known
  <2> QED BY <2>3, <2>4, <2>8, WorsensStep
<1> QED BY <1>4, <1>5 DEF Save

\* The answer.
LEMMA AnswerStep ==
  ASSUME Inv, NEW p \in Handlers, Answer(p)
  PROVE  Inv'
BY EndStep DEF Answer, Reads

-----------------------------------------------------------------------------
(* The token endpoint, introspection, revocation, userinfo.                *)

\* ExchangeCode consumes the code; without a secret it has to be one with PKCE.
LEMMA ExchangeCodeStep ==
  ASSUME Inv, NEW p \in Handlers, NEW k \in Codes, NEW c \in Clients, NEW u \in Uris,
         NEW s \in 1..last[c] \cup {None}, ExchangeCode(p, k, c, u, s)
  PROVE  Inv'
<1> DEFINE q == [Idle EXCEPT !.op = "exchange", !.client = c,
                             !.scopes = code[k].scopes, !.pkce = code[k].pkce,
                             !.secret = s]
           a == [q EXCEPT !.pc = "auth"]
           i == [q EXCEPT !.pc = "issue"]
<1>1. /\ TypeOK /\ code[k] # None /\ UNCHANGED <<reg, last, tok, me, issued, by>>
      /\ code' = [code EXCEPT ![k] = None]
  BY DEF Inv, ExchangeCode
<1>2. code' \in [Codes -> Code \cup {None}]
  BY <1>1 DEF TypeOK
<1>4. /\ code[k].scopes \in SUBSET Scopes /\ code[k].pkce \in BOOLEAN
      /\ s \in Secrets \cup {None}
  BY <1>1, OidcClientsAssumption DEF TypeOK, Code, Secrets
<1>5. /\ a \in Request /\ a.pc = "auth" /\ a.op = "exchange" /\ a.client = c
      /\ a.secret = s
      /\ i \in Request /\ i.pc = "issue" /\ i.op = "exchange" /\ i.client = c
      /\ i.secret = s /\ i.pkce = code[k].pkce
  BY <1>4, IdleType DEF Idle, Request, PCs, Ops
<1>6. \/ UNCHANGED req
      \/ s # None /\ Begin(p, a)
      \/ s = None /\ code[k].pkce /\ Begin(p, i)
  BY DEF ExchangeCode
<1> HIDE DEF a, i
<1>7. (s # None => Shape(a)) /\ Shape(i)
  BY <1>5 DEF Shape
<1>8. CASE UNCHANGED req
  <2>1. Worsens /\ TypeOK' /\ BlocklistInv'
    BY <1>1, <1>2, <1>8 DEF Inv, Worsens, TypeOK, BlocklistInv
  <2> QED BY <1>8, <2>1, WorsensStep
<1>9. CASE s # None /\ Begin(p, a)
  BY <1>1, <1>2, <1>5, <1>7, <1>9, ArriveStep
<1>10. CASE s = None /\ code[k].pkce /\ Begin(p, i)
  BY <1>1, <1>2, <1>5, <1>7, <1>10, ArriveStep
<1> QED BY <1>6, <1>8, <1>9, <1>10

\* Introspect, Revoke and UserInfo are called with a token.
LEMMA BeginTokenStep ==
  ASSUME Inv, NEW p \in Handlers, NEW t \in Tokens,
         \/ UserInfo(p, t)
         \/ \E c \in Clients : \E s \in 1..last[c] :
              Introspect(p, c, s, t) \/ Revoke(p, c, s, t)
  PROVE  Inv'
<1>1. tok[t] # None /\ UNCHANGED <<reg, last, code, tok, me, issued, by>>
  BY DEF UserInfo, Introspect, Revoke
<1>2. code' \in [Codes -> Code \cup {None}]
  BY <1>1 DEF Inv, TypeOK
<1>3. CASE UserInfo(p, t)
  <2> DEFINE r == [Idle EXCEPT !.pc = "token", !.op = "userinfo", !.token = t]
  <2>1. r \in Request /\ r.pc = "token" /\ r.op = "userinfo" /\ r.token = t
    BY IdleType DEF Idle, Request, PCs, Ops
  <2>2. Begin(p, r)
    BY <1>3 DEF UserInfo
  <2> HIDE DEF r
  <2>3. Shape(r)
    BY <1>1, <2>1 DEF Shape
  <2> QED BY <1>1, <1>2, <2>1, <2>2, <2>3, ArriveStep
<1>4. ASSUME NEW c \in Clients, NEW s \in 1..last[c],
             Introspect(p, c, s, t) \/ Revoke(p, c, s, t)
      PROVE  Inv'
  <2> DEFINE r(op) == [Idle EXCEPT !.pc = "auth", !.op = op, !.client = c,
                                   !.secret = s, !.token = t]
  <2>1. s \in Secrets /\ s # None
    BY OidcClientsAssumption DEF Inv, TypeOK, Secrets
  <2>2. \A op \in {"introspect", "revoke"} :
          /\ r(op) \in Request /\ r(op).pc = "auth" /\ r(op).op = op
          /\ r(op).token = t /\ r(op).secret = s
    BY <2>1, IdleType DEF Idle, Request, PCs, Ops
  <2>3. PICK op \in {"introspect", "revoke"} : Begin(p, r(op))
    BY <1>4 DEF Introspect, Revoke
  <2> HIDE DEF r
  <2>4. Shape(r(op))
    BY <1>1, <2>1, <2>2 DEF Shape
  <2> QED BY <1>1, <1>2, <2>2, <2>3, <2>4, ArriveStep
<1> QED BY <1>3, <1>4

\* AuthenticateClient: a secret that is current now is no longer lacking.
LEMMA AuthenticateClientStep ==
  ASSUME Inv, NEW p \in Handlers, AuthenticateClient(p)
  PROVE  Inv'
<1>1. /\ TypeOK /\ Reads /\ req[p] \in Request /\ Known(req[p])
      /\ req[p].pc = "auth"
  BY DEF Inv, TypeOK, Reads, AuthenticateClient
<1>2. CASE Finish(p)
  BY <1>1, <1>2, EndStep
<1>3. CASE /\ SecretOK(req[p], reg)
           /\ Goto(p, IF req[p].op = "exchange" THEN "issue" ELSE "token")
  <2> DEFINE pc == IF req[p].op = "exchange" THEN "issue" ELSE "token"
  <2>1. pc \in PCs /\ pc \in {"issue", "token"} /\ (pc = "issue" <=> req[p].op = "exchange")
    BY DEF PCs
  <2>2. Goto(p, pc)
    BY <1>3
  <2> HIDE DEF pc
  <2>3. /\ req' \in [Handlers -> Request]
        /\ \A q \in Handlers \ {p} : req'[q] = req[q]
        /\ req'[p].pc = pc /\ req'[p].lacks = req[p].lacks
        /\ Same(req[p], req'[p])
    BY <1>1, <2>1, <2>2, GotoEffect
  <2>4. "secret" \notin req[p].lacks
    BY <1>1, <1>3, MissingIs DEF Known, Current, Shape
  <2>5. UNCHANGED tok
    BY <1>1 DEF Reads
  <2>6. Shape(req[p])'
    BY <1>1, <2>1, <2>3, <2>5 DEF Known, Shape, Same
  <2>7. Cleared(req[p])'
    BY <2>1, <2>3, <2>4 DEF Cleared
  <2>8. req'[p].pc # "idle"
    BY <2>1, <2>3
  <2> QED BY <1>1, <2>3, <2>6, <2>7, <2>8, AdvanceStep
<1> QED BY <1>2, <1>3 DEF AuthenticateClient

\* A token is signed, once.
LEMMA IssueStep ==
  ASSUME Inv, NEW p \in Handlers, Issue(p)
  PROVE  Inv'
<1>1. /\ TypeOK /\ req[p] \in Request /\ Known(req[p]) /\ req[p].pc = "issue"
      /\ UNCHANGED <<reg, last, code, me, issued, by>> /\ Finish(p)
  BY DEF Inv, TypeOK, Issue
<1>2. CASE UNCHANGED tok
  BY <1>1, <1>2, EndStep DEF Reads
<1>3. ASSUME NEW t \in Tokens, tok[t] = None,
             tok' = [tok EXCEPT ![t] = [client |-> req[p].client,
                                        scopes |-> req[p].scopes]]
      PROVE  Inv'
  <2> DEFINE n == [client |-> req[p].client, scopes |-> req[p].scopes]
  <2>1. n \in Token
    BY <1>1 DEF Known, Shape, Request, Token
  <2>2. tok' = [tok EXCEPT ![t] = n]
    BY <1>3
  <2> HIDE DEF n
  <2>3. /\ tok' \in [Tokens -> Token \cup {None}]
        /\ \A v \in Tokens : tok[v] # None => tok'[v] = tok[v]
    BY <1>1, <1>3, <2>1, <2>2 DEF TypeOK
  <2>4. /\ req' \in [Handlers -> Request]
        /\ \A q \in Handlers \ {p} : req'[q] = req[q]
        /\ req'[p].pc = "idle" /\ req'[p].op = "authorize"
    BY <1>1, FinishEffect
  <2>5. Worsens /\ TypeOK'
    BY <1>1, <2>3, <2>4 DEF Inv, Worsens, TypeOK
  <2>6. BlocklistInv'
    BY <1>1, <2>3 DEF Inv, BlocklistInv
  <2>7. Known(req[p])'
    BY <2>4, IdleKnown
  <2> QED BY <2>4, <2>5, <2>6, <2>7, WorsensStep
<1> QED BY <1>2, <1>3 DEF Issue

\* Introspect and UserInfo look at the blocklist and at the audience.
LEMMA LookUpStep ==
  ASSUME Inv, NEW p \in Handlers, LookUp(p)
  PROVE  Inv'
<1>1. /\ TypeOK /\ Reads /\ req[p] \in Request /\ Known(req[p])
      /\ req[p].pc = "token" /\ req[p].op \in {"introspect", "userinfo"}
      /\ req[p].lacks \in SUBSET Needs
  BY DEF Inv, TypeOK, Request, Reads, LookUp
<1>2. /\ req[p].token \in Tokens /\ "secret" \notin req[p].lacks
      /\ req[p].lacks \subseteq Missing(req[p], reg, me)
  BY <1>1 DEF Known, Shape, Cleared, Current
<1>3. CASE Finish(p)
  BY <1>1, <1>3, EndStep
<1>4. ASSUME NEW B \in SUBSET {"unrevoked"},
             B = {} => ~Blocked(req[p]),
             req[p].op = "introspect" => Audience(req[p]),
             req' = [req EXCEPT ![p].pc = "active", ![p].blind = req[p].blind \cup B]
      PROVE  Inv'
  <2>1. B \in SUBSET FailOpen /\ "active" \in PCs
    BY DEF FailOpen, PCs
  <2>2. /\ req' \in [Handlers -> Request]
        /\ \A q \in Handlers \ {p} : req'[q] = req[q]
        /\ req'[p].pc = "active" /\ req'[p].lacks = req[p].lacks
        /\ B \subseteq req'[p].blind /\ Same(req[p], req'[p])
    BY <1>1, <1>4, <2>1, AdvanceEffect
  <2>3. Given(req'[p], "unrevoked")
    BY <1>1, <1>2, <1>4, <2>2, MissingIs DEF Blocked
  <2>4. UNCHANGED tok
    BY <1>1 DEF Reads
  <2>5. Shape(req[p])'
    BY <1>1, <2>2, <2>4 DEF Known, Shape, Same
  <2>6. Cleared(req[p])'
    BY <1>1, <1>2, <1>4, <2>2, <2>3, <2>4 DEF Cleared, Same, Audience
  <2> QED BY <1>1, <2>2, <2>5, <2>6, AdvanceStep
<1>5. \/ Finish(p)
      \/ \E B \in SUBSET {"unrevoked"} :
           /\ B = {} => ~Blocked(req[p])
           /\ req[p].op = "introspect" => Audience(req[p])
           /\ req' = [req EXCEPT ![p].pc = "active", ![p].blind = req[p].blind \cup B]
  BY <1>1 DEF LookUp, TypeOK
<1> QED BY <1>3, <1>4, <1>5

\* RevokeAccessToken: the client of the token enters it.
LEMMA BlockStep ==
  ASSUME Inv, NEW p \in Handlers, Block(p)
  PROVE  Inv'
<1>0. PICK t : t = req[p].token
  OBVIOUS
<1>1. /\ TypeOK /\ req[p] \in Request /\ Known(req[p]) /\ req[p].pc = "token"
      /\ req[p].op = "revoke" /\ Finish(p)
      /\ UNCHANGED <<reg, last, code, tok, me, issued>>
  BY DEF Inv, TypeOK, Block
<1>2. t \in Tokens /\ tok[t] # None
  BY <1>0, <1>1 DEF Known, Shape
<1>3. CASE UNCHANGED by
  BY <1>1, <1>3, EndStep DEF Reads
<1>4. CASE by' = [by EXCEPT ![t] = req[p].client] /\ tok[t].client = req[p].client
  <2>1. req[p].client \in Clients /\ req[p].client # None
    BY <1>1, <1>2, <1>4, OidcClientsAssumption DEF TypeOK, Token
  <2>2. /\ by' \in [Tokens -> Clients \cup {None}] /\ by'[t] = req[p].client
        /\ \A v \in Tokens \ {t} : by'[v] = by[v]
    BY <1>1, <1>2, <1>4, <2>1 DEF TypeOK
  <2>3. /\ req' \in [Handlers -> Request]
        /\ \A q \in Handlers \ {p} : req'[q] = req[q]
        /\ req'[p].pc = "idle" /\ req'[p].op = "authorize"
    BY <1>1, FinishEffect
  <2>4. Worsens
    BY <1>1, <2>1, <2>2 DEF Worsens
  <2>5. TypeOK'
    BY <1>1, <2>2, <2>3 DEF Inv, TypeOK
  <2>6. BlocklistInv'
    BY <1>1, <1>2, <1>4, <2>2 DEF Inv, BlocklistInv
  <2>7. Known(req[p])'
    BY <2>3, IdleKnown
  <2> QED BY <2>3, <2>4, <2>5, <2>6, <2>7, WorsensStep
<1> QED BY <1>0, <1>3, <1>4 DEF Block, Audience

-----------------------------------------------------------------------------
(* Theorems.                                                               *)

\* Every step preserves the invariant.
LEMMA NextInv == Inv /\ [Next]_vars => Inv'
<1> SUFFICES ASSUME Inv, [Next]_vars PROVE Inv'
  OBVIOUS
<1>1. ASSUME NEW c \in Clients,
             \/ CreateClient(c) \/ UpdateClient(c)
             \/ RotateClientSecret(c) \/ DeleteClient(c)
      PROVE  Inv'
  BY <1>1, SecretStep, UpdateStep
<1>2. CASE Logout \/ \E m \in Me : ChangeMfa(m)
  BY <1>2, LogoutStep, ChangeMfaStep
<1>3. ASSUME NEW p \in Handlers,
             \/ ReadClient(p) \/ Session(p) \/ Proof(p)
             \/ CreateAuthCodeSession(p) \/ Save(p) \/ Answer(p)
             \/ AuthenticateClient(p) \/ Issue(p) \/ LookUp(p) \/ Block(p)
      PROVE  Inv'
  BY <1>3, ReadClientStep, SessionStep, ProofStep, CreateAuthCodeSessionStep,
     SaveStep, AnswerStep, AuthenticateClientStep, IssueStep, LookUpStep, BlockStep
<1>4. ASSUME NEW p \in Handlers, NEW c \in Clients, NEW u \in Uris,
             \/ Authorize(p, c, u) \/ Deny(p, c, u) \/ EndSession(p, c, u)
             \/ \E S \in SUBSET Scopes, b \in BOOLEAN : Consent(p, c, u, S, b)
             \/ \E k \in Codes, s \in 1..last[c] \cup {None} :
                  ExchangeCode(p, k, c, u, s)
      PROVE  Inv'
  BY <1>4, AuthorizeStep, ConsentStep, EndSessionStep, ExchangeCodeStep
<1>5. ASSUME NEW p \in Handlers, NEW t \in Tokens,
             \/ UserInfo(p, t)
             \/ \E c \in Clients : \E s \in 1..last[c] :
                  Introspect(p, c, s, t) \/ Revoke(p, c, s, t)
      PROVE  Inv'
  BY <1>5, BeginTokenStep
<1>6. CASE UNCHANGED vars
  <2>1. Reads /\ UNCHANGED req
    BY <1>6 DEF vars, Reads
  <2>2. Worsens /\ TypeOK' /\ BlocklistInv'
    BY <2>1, ReadsEffect DEF Inv, TypeOK
  <2> QED BY <2>1, <2>2, WorsensStep
<1> QED BY <1>1, <1>2, <1>3, <1>4, <1>5, <1>6 DEF Next

\* The invariant and its strengthening hold in every reachable state.
THEOREM Invariance == Spec => []Inv
<1>1. Init => Inv
  <2> SUFFICES ASSUME Init PROVE Inv
    OBVIOUS
  <2>1. TypeOK
    BY IdleType, OidcClientsAssumption DEF Init, TypeOK
  <2>2. ASSUME NEW p \in Handlers PROVE Known(req[p])
    BY IdleType DEF Init, Known, Shape, Cleared, Current
  <2>3. BlocklistInv
    BY DEF Init, BlocklistInv
  <2> QED BY <2>1, <2>2, <2>3 DEF Inv
<1>2. Inv /\ [Next]_vars => Inv'
  BY NextInv
<1> QED BY <1>1, <1>2, PTL DEF Spec

\* A step that issues a code takes it from a consented request.
IssuesConsented ==
  \A k \in issued' \ issued :
    \E p \in Handlers : Consented(req[p]) /\ code'[k] = CodeOf(req[p])

\* Only Save issues a code, and its request has passed every check.
LEMMA ConsentedStep == Inv /\ [Next]_vars => IssuesConsented
<1> SUFFICES ASSUME Inv, [Next]_vars PROVE IssuesConsented
  OBVIOUS
<1>1. CASE UNCHANGED issued
  BY <1>1 DEF IssuesConsented
<1>2. ASSUME NEW p \in Handlers, Save(p) PROVE IssuesConsented
  <2>1. TypeOK /\ req[p] \in Request /\ Known(req[p]) /\ req[p].pc = "save"
    BY <1>2 DEF Inv, TypeOK, Save
  <2>2. /\ req[p].op = "consent"
        /\ req[p].lacks \subseteq Missing(req[p], reg, me)
        /\ Given(req[p], "session") /\ Given(req[p], "proof")
        /\ "uri" \notin req[p].lacks /\ "scopes" \notin req[p].lacks
    BY <2>1 DEF Known, Shape, Cleared, Current
  <2>3. Consented(req[p])
    BY <2>1, <2>2, MissingIs, NeededIs DEF Consented
  <2>4. ASSUME NEW k \in Codes, code' = [code EXCEPT ![k] = CodeOf(req[p])],
               issued' = issued \cup {k}
        PROVE  IssuesConsented
    BY <2>1, <2>3, <2>4 DEF IssuesConsented, TypeOK
  <2> QED BY <1>1, <1>2, <2>4 DEF Save
<1>3. ASSUME NEW p \in Handlers,
             \/ ReadClient(p) \/ Session(p) \/ Proof(p)
             \/ CreateAuthCodeSession(p) \/ Answer(p)
             \/ AuthenticateClient(p) \/ Issue(p) \/ LookUp(p) \/ Block(p)
      PROVE  UNCHANGED issued
  BY <1>3 DEF ReadClient, Session, Proof, CreateAuthCodeSession, Answer,
              AuthenticateClient, Issue, LookUp, Block
<1>4. ASSUME NEW p \in Handlers, NEW c, NEW u,
             \/ Authorize(p, c, u) \/ Deny(p, c, u) \/ EndSession(p, c, u)
             \/ \E S \in SUBSET Scopes, b \in BOOLEAN : Consent(p, c, u, S, b)
             \/ \E k \in Codes, s \in 1..last[c] \cup {None} :
                  ExchangeCode(p, k, c, u, s)
      PROVE  UNCHANGED issued
  BY <1>4 DEF Authorize, Deny, EndSession, Consent, ExchangeCode
<1>5. ASSUME NEW p \in Handlers, NEW t,
             \/ UserInfo(p, t)
             \/ \E c \in Clients : \E s \in 1..last[c] :
                  Introspect(p, c, s, t) \/ Revoke(p, c, s, t)
      PROVE  UNCHANGED issued
  BY <1>5 DEF UserInfo, Introspect, Revoke
<1>6. ASSUME NEW c \in Clients,
             \/ CreateClient(c) \/ UpdateClient(c)
             \/ RotateClientSecret(c) \/ DeleteClient(c)
      PROVE  UNCHANGED issued
  BY <1>6 DEF CreateClient, UpdateClient, RotateClientSecret, DeleteClient
<1>7. CASE Logout \/ (\E m \in Me : ChangeMfa(m)) \/ UNCHANGED vars
  BY <1>1, <1>7 DEF Logout, ChangeMfa, vars
<1> QED BY <1>1, <1>2, <1>3, <1>4, <1>5, <1>6, <1>7 DEF Next

\* Consent: a code is issued only for what was asked for by a request whose
\* user was signed in and had proved the second factor, as far as Redis and the
\* database answered, and whose client was registered with its redirect URI
\* and scopes.
THEOREM CodesAreConsented == Spec => CodeWasConsented
<1>1. Inv /\ [Next]_vars => [IssuesConsented]_vars
  BY ConsentedStep
<1>2. Spec => [][IssuesConsented]_vars
  BY <1>1, Invariance, PTL DEF Spec
<1> QED BY <1>2 DEF CodeWasConsented, IssuesConsented

\* Authorize, Consent and EndSession redirect only to a URI that was
\* registered for the client since the request began.
THEOREM RedirectsAreRegistered == Spec => []RedirectIsRegistered
<1>1. Inv => RedirectIsRegistered
  BY DEF Inv, Known, Cleared, RedirectIsRegistered
<1> QED BY <1>1, Invariance, PTL

\* Introspect, Revoke and the token endpoint serve a client that had its
\* current secret, or at the token endpoint a code with PKCE, and Introspect
\* and Revoke only about tokens of its own.
THEOREM ClientsSeeOnlyTheirOwn == Spec => []ClientsHaveTheirOwn
<1>1. Inv => ClientsHaveTheirOwn
  BY DEF Inv, Known, Cleared, BlocklistInv, ClientsHaveTheirOwn
<1> QED BY <1>1, Invariance, PTL

\* Introspect and UserInfo report no token active that was revoked before the
\* request began, as long as Redis answers.
THEOREM RevokedTokensAreInactive == Spec => []RevokedIsInactive
<1>1. Inv => RevokedIsInactive
  BY DEF Inv, Known, Cleared, RevokedIsInactive
<1> QED BY <1>1, Invariance, PTL
==================================================================================
