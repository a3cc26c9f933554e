-------------------------------- MODULE Settings --------------------------------
(***************************************************************************)
(* Package settings: the table system_settings, the cache each server      *)
(* process keeps in front of it, and the administrator's PATCH             *)
(* /admin/settings.                                                        *)
(*                                                                         *)
(* A value is the number of the write that set it, 0 for what the          *)
(* migrations put there.  GetInt, GetString and GetBool differ in how they *)
(* parse what they read; Update's validators let through only what parses. *)
(* A read looks up, queries and stores in three steps; updates, other      *)
(* reads and the expiry of the entry run in between.                       *)
(***************************************************************************)
EXTENDS Integers, FiniteSets

CONSTANTS
  Keys,
  Replicas,   \* server processes, each with a cache of its own
  Readers,    \* reads under way
  Admins,     \* PATCH requests under way
  None,
  Default,    \* the caller's default value
  TTL,        \* cacheTTL
  MaxLag,     \* bound on the time from a query to the store of its result: the
              \* Timeout middleware cancels a request after 30 seconds; of the
              \* mailer's worker, which reads webhook_enabled with
              \* context.Background(), it is an assumption
  DBErrors,   \* TRUE: a statement may fail
  MaxWrites,  \* bound on the writes of a key
  MaxTime     \* bound on the clock

ASSUME SettingsAssumption ==
  /\ {MaxLag, MaxWrites, MaxTime} \subseteq Nat /\ TTL \in Nat \ {0}
  /\ DBErrors \in BOOLEAN
  /\ None \notin Keys \cup Replicas \cup Nat
  /\ Default \notin Nat \cup {None}

Times == 0..MaxTime
Values == 0..MaxWrites

\* late is history: Invalidate ran between the query and the store.
Entry == [value : Values, expires : Nat, late : BOOLEAN]
ASSUME NoneAssumption == None \notin Entry
Read == [pc : {"idle", "lookup", "query", "store"}, key : Keys \cup {None},
         rep : Replicas \cup {None}, value : Values, at : Times, late : BOOLEAN]
Patch == [rep : Replicas \cup {None}, todo : SUBSET Keys, inv : Keys \cup {None}]

VARIABLES
  clock,
  db,         \* system_settings
  cache,      \* vals, per process
  rd,         \* the reads
  upd,        \* the updates: keys to set, key to invalidate
  answer,     \* what a read answered last
  ended,      \* history: per key and value, when the value was replaced
  floor       \* history: per process and key, the value at its last Invalidate

vars == <<clock, db, cache, rd, upd, answer, ended, floor>>

NoRead == [pc |-> "idle", key |-> None, rep |-> None, value |-> 0, at |-> 0,
           late |-> FALSE]
NoPatch == [rep |-> None, todo |-> {}, inv |-> None]

Init ==
  /\ clock = 0
  /\ db = [k \in Keys |-> 0]
  /\ cache = [r \in Replicas |-> [k \in Keys |-> None]]
  /\ rd = [h \in Readers |-> NoRead]
  /\ upd = [a \in Admins |-> NoPatch]
  /\ answer = [h \in Readers |-> None]
  /\ ended = [k \in Keys |-> [v \in Values |-> None]]
  /\ floor = [r \in Replicas |-> [k \in Keys |-> 0]]

\* Time passes; no read holds its result longer than MaxLag.
Tick ==
  /\ clock < MaxTime
  /\ \A h \in Readers : rd[h].pc = "store" => clock - rd[h].at < MaxLag
  /\ clock' = clock + 1
  /\ UNCHANGED <<db, cache, rd, upd, answer, ended, floor>>

-----------------------------------------------------------------------------
(* GetInt, GetString, GetBool.                                             *)

Reply(h, v) ==
  /\ answer' = [answer EXCEPT ![h] = v]
  /\ rd' = [rd EXCEPT ![h] = NoRead]

\* The call, up to the lookup.
Get(h, r, k) ==
  /\ rd[h].pc = "idle"
  /\ rd' = [rd EXCEPT ![h] = [NoRead EXCEPT !.pc = "lookup", !.key = k, !.rep = r]]
  /\ answer' = [answer EXCEPT ![h] = None]
  /\ UNCHANGED <<clock, db, cache, upd, ended, floor>>

\* now.Before(entry.expires)
LiveEver(e) == e # None  \* mutant: entries never expire
Live(e) == e # None /\ clock < e.expires

Hit(h) ==
  LET e == cache[rd[h].rep][rd[h].key] IN
  /\ rd[h].pc = "lookup"
  /\ Live(e)
  /\ Reply(h, e.value)
  /\ UNCHANGED <<clock, db, cache, upd, ended, floor>>

Miss(h) ==
  /\ rd[h].pc = "lookup"
  /\ ~Live(cache[rd[h].rep][rd[h].key])
  /\ rd' = [rd EXCEPT ![h].pc = "query"]
  /\ UNCHANGED <<clock, db, cache, upd, answer, ended, floor>>

\* repo.Get: the row of the moment.
Query(h) ==
  /\ rd[h].pc = "query"
  /\ rd' = [rd EXCEPT ![h].pc = "store", ![h].value = db[rd[h].key],
                      ![h].at = clock]
  /\ UNCHANGED <<clock, db, cache, upd, answer, ended, floor>>

\* A failed statement answers with the default and is not cached.
QueryFails(h) ==
  /\ DBErrors
  /\ rd[h].pc = "query"
  /\ Reply(h, Default)
  /\ UNCHANGED <<clock, db, cache, upd, ended, floor>>

\* The entry lives TTL from the moment it is stored.
CachedLong(q) ==  \* mutant: a TTL after that of the entry it replaces
  LET e == cache[q.rep][q.key] IN
  [value |-> q.value, late |-> q.late,
   expires |-> TTL + IF e = None \/ e.expires < clock THEN clock ELSE e.expires]
Cached(q) == [value |-> q.value, expires |-> clock + TTL, late |-> q.late]
Store(h) ==
  LET q == rd[h] IN
  /\ q.pc = "store"
  /\ cache' = [cache EXCEPT ![q.rep][q.key] = Cached(q)]
  /\ Reply(h, q.value)
  /\ UNCHANGED <<clock, db, upd, ended, floor>>

-----------------------------------------------------------------------------
(* PATCH /admin/settings.                                                  *)

\* Update checks every key and value before it sets one; a request with an
\* unknown key or an invalid value is refused.
Update(a, r, K) ==
  /\ upd[a] = NoPatch
  /\ upd' = [upd EXCEPT ![a] = [rep |-> r, todo |-> K, inv |-> None]]
  /\ UNCHANGED <<clock, db, cache, rd, answer, ended, floor>>

\* repo.Set, one statement of its own per key, in the order of a map.
Written(k) == [db EXCEPT ![k] = @ + 1]
Set(a, k) ==
  /\ upd[a].inv = None /\ k \in upd[a].todo
  /\ db[k] < MaxWrites
  /\ db' = Written(k)
  /\ ended' = [ended EXCEPT ![k][db[k]] = clock]
  /\ upd' = [upd EXCEPT ![a].todo = @ \ {k}, ![a].inv = k]
  /\ UNCHANGED <<clock, cache, rd, answer, floor>>

\* A failed Set ends the request; the keys set before keep their new values.
SetFails(a) ==
  /\ DBErrors
  /\ upd[a].inv = None /\ upd[a].todo # {}
  /\ upd' = [upd EXCEPT ![a] = NoPatch]
  /\ UNCHANGED <<clock, db, cache, rd, answer, ended, floor>>

\* cache.Invalidate of the process that serves the request.
InvalidatedNot(r, k) == cache  \* mutant: the entry is left to expire
Invalidated(r, k) == [cache EXCEPT ![r][k] = None]
Invalidate(a) ==
  LET r == upd[a].rep
      k == upd[a].inv IN
  /\ k # None
  /\ cache' = Invalidated(r, k)
  /\ upd' = [upd EXCEPT ![a] =
       IF upd[a].todo = {} THEN NoPatch ELSE [upd[a] EXCEPT !.inv = None]]
  /\ floor' = [floor EXCEPT ![r][k] = db[k]]
  /\ rd' = [h \in Readers |->
       [rd[h] EXCEPT !.late = @ \/ (/\ rd[h].pc = "store"
                                    /\ rd[h].rep = r /\ rd[h].key = k)]]
  /\ UNCHANGED <<clock, db, answer, ended>>

-----------------------------------------------------------------------------

\* A process dies with its cache and its requests; a Set that was committed
\* stays, without its Invalidate.
Restart(r) ==
  /\ cache' = [cache EXCEPT ![r] = [k \in Keys |-> None]]
  /\ rd' = [h \in Readers |-> IF rd[h].rep = r THEN NoRead ELSE rd[h]]
  /\ upd' = [a \in Admins |-> IF upd[a].rep = r THEN NoPatch ELSE upd[a]]
  /\ UNCHANGED <<clock, db, answer, ended, floor>>

Next ==
  \/ Tick
  \/ \E r \in Replicas : Restart(r)
  \/ \E h \in Readers :
       \/ \E r \in Replicas, k \in Keys : Get(h, r, k)
       \/ Hit(h) \/ Miss(h) \/ Query(h) \/ QueryFails(h) \/ Store(h)
  \/ \E a \in Admins :
       \/ \E r \in Replicas, K \in SUBSET Keys \ {{}} : Update(a, r, K)
       \/ \E k \in Keys : Set(a, k)
       \/ SetFails(a) \/ Invalidate(a)

Spec == Init /\ [][Next]_vars

-----------------------------------------------------------------------------
(* Properties.                                                             *)

\* Every variable has its type.
TypeOK ==
  /\ clock \in Times
  /\ db \in [Keys -> Values]
  /\ cache \in [Replicas -> [Keys -> Entry \cup {None}]]
  /\ rd \in [Readers -> Read]
  /\ upd \in [Admins -> Patch]
  /\ answer \in [Readers -> Values \cup {None, Default}]
  /\ ended \in [Keys -> [Values -> Times \cup {None}]]
  /\ floor \in [Replicas -> [Keys -> Values]]

\* Invalidate after Set: a process that invalidated a key caches an older
\* value of it only when the read that stored it had queried the database
\* before the Invalidate and stored its result after.
StaleOnlyByLateStore ==
  \A r \in Replicas, k \in Keys :
    LET e == cache[r][k] IN e # None /\ e.value < floor[r][k] => e.late

\* An entry holds a value its key has had, and once that value is replaced the
\* entry has at most TTL + MaxLag to live, a store that an update overtook
\* included.
EntryAge ==
  \A r \in Replicas, k \in Keys :
    LET e == cache[r][k] IN
      /\ e # None => e.value <= db[k]
      /\ e # None /\ e.value < db[k] =>
           e.expires <= ended[k][e.value] + TTL + MaxLag

\* The cache keeps the promise of BoundedStaleness: no read answers with a
\* value replaced TTL + MaxLag ago or earlier, whatever the interleaving of
\* reads, updates, failures and restarts, in every process.
Abstract == INSTANCE BoundedStaleness WITH
  Staleness <- TTL + MaxLag,
  asked <- [h \in Readers |-> rd[h].key]
StalenessIsBounded == Abstract!Spec
=================================================================================
