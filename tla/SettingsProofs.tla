---------------------------- MODULE SettingsProofs ----------------------------
(***************************************************************************)
(* Proofs about Settings for every set of keys, processes, readers and     *)
(* administrators, every TTL and every schedule: how stale the cache can   *)
(* be, and that it implements BoundedStaleness.                            *)
(***************************************************************************)
EXTENDS Settings, TLAPS

(***************************************************************************)
(* The strengthening.  An entry is as old as the query it came from, so    *)
(* the invariant follows a value from the query through the store: while a *)
(* read holds a value, the value was replaced after the query, if at all,  *)
(* and the query is at most MaxLag ago.                                    *)
(***************************************************************************)

\* The replaced values of a key, and only they need it, have an end in the
\* past.
EndedInv ==
  \A k \in Keys : \A v \in Values :
    v < db[k] => ended[k][v] \in Times /\ ended[k][v] <= clock

\* A process has invalidated no value that is still to come.
FloorInv == \A r \in Replicas, k \in Keys : floor[r][k] <= db[k]

\* An entry expires at most TTL from now.
ExpiryInv ==
  \A r \in Replicas, k \in Keys :
    cache[r][k] # None => cache[r][k].expires <= clock + TTL

\* A read has a key and a process exactly while it is under way.
AskedInv ==
  \A h \in Readers :
    IF rd[h].pc = "idle" THEN rd[h].key = None
                         ELSE rd[h].key \in Keys /\ rd[h].rep \in Replicas

\* What a read q holds between its query and its store.
Held(q) ==
  /\ q.value <= db[q.key]
  /\ q.at <= clock /\ clock <= q.at + MaxLag
  /\ q.value < db[q.key] => q.at <= ended[q.key][q.value]
  /\ q.value < floor[q.rep][q.key] => q.late

HeldInv == \A h \in Readers : rd[h].pc = "store" => Held(rd[h])

Inv ==
  /\ TypeOK
  /\ EndedInv
  /\ FloorInv
  /\ ExpiryInv
  /\ AskedInv
  /\ HeldInv
  /\ EntryAge
  /\ StaleOnlyByLateStore

\* The part of the invariant that is about the entries.
CacheInv == ExpiryInv /\ EntryAge /\ StaleOnlyByLateStore

-----------------------------------------------------------------------------
(* Types.                                                                  *)

\* The constants the proofs calculate with.
LEMMA ConstantTypes ==
  /\ MaxLag \in Nat /\ MaxWrites \in Nat /\ MaxTime \in Nat
  /\ TTL \in Nat /\ TTL > 0
  /\ None \notin Keys /\ None \notin Replicas /\ None \notin Nat
BY SettingsAssumption

\* A read that has ended is an idle one, without key and process.
LEMMA NoReadType == NoRead \in Read /\ NoRead.pc = "idle" /\ NoRead.key = None
BY ConstantTypes DEF NoRead, Read, Values, Times

\* Values and times are natural numbers.
LEMMA NumberTypes == Values \subseteq Nat /\ Times \subseteq Nat
BY ConstantTypes DEF Values, Times

\* What a Reply leaves of the reads.
LEMMA ReplyEffect ==
  ASSUME TypeOK, NEW h \in Readers, NEW v \in Values \cup {Default}, Reply(h, v)
  PROVE  /\ rd' \in [Readers -> Read]
         /\ answer' \in [Readers -> Values \cup {None, Default}]
         /\ rd'[h] = NoRead
         /\ \A g \in Readers \ {h} : rd'[g] = rd[g]
BY NoReadType DEF TypeOK, Reply

\* The entry Store puts into the cache.
LEMMA StoreType ==
  ASSUME TypeOK, AskedInv, NEW h \in Readers, Store(h)
  PROVE  /\ rd[h] \in Read /\ rd[h].key \in Keys /\ rd[h].rep \in Replicas
         /\ Cached(rd[h]) \in Entry
         /\ cache' \in [Replicas -> [Keys -> Entry \cup {None}]]
         /\ cache'[rd[h].rep][rd[h].key] = Cached(rd[h])
         /\ \A r \in Replicas, k \in Keys :
              r # rd[h].rep \/ k # rd[h].key => cache'[r][k] = cache[r][k]
<1>1. rd[h] \in Read /\ rd[h].key \in Keys /\ rd[h].rep \in Replicas
  BY DEF TypeOK, AskedInv, Store
<1>2. Cached(rd[h]) \in Entry
  BY <1>1, ConstantTypes, NumberTypes DEF Cached, Entry, Read, TypeOK
<1>3. cache' = [cache EXCEPT ![rd[h].rep][rd[h].key] = Cached(rd[h])]
  BY DEF Store
<1> QED BY <1>1, <1>2, <1>3 DEF TypeOK

\* Every step keeps the types.
LEMMA TypeStep ==
  ASSUME TypeOK, AskedInv, Next
  PROVE  TypeOK'
<1> USE NumberTypes, ConstantTypes
<1>1. ASSUME Tick PROVE TypeOK'
  BY <1>1 DEF Tick, TypeOK, Times
<1>2. ASSUME NEW r \in Replicas, Restart(r) PROVE TypeOK'
  <2>1. /\ cache' \in [Replicas -> [Keys -> Entry \cup {None}]]
        /\ rd' \in [Readers -> Read]
    BY <1>2, NoReadType DEF Restart, TypeOK
  <2>2. upd' \in [Admins -> Patch]
    BY <1>2 DEF Restart, TypeOK, NoPatch, Patch
  <2> QED BY <1>2, <2>1, <2>2 DEF Restart, TypeOK
<1>3. ASSUME NEW h \in Readers, NEW r \in Replicas, NEW k \in Keys, Get(h, r, k)
      PROVE  TypeOK'
  <2>1. [NoRead EXCEPT !.pc = "lookup", !.key = k, !.rep = r] \in Read
    BY NoReadType DEF Read
  <2> QED BY <1>3, <2>1 DEF Get, TypeOK
<1>4. ASSUME NEW h \in Readers, Hit(h) PROVE TypeOK'
  <2>1. cache[rd[h].rep][rd[h].key].value \in Values
    BY <1>4 DEF Hit, Live, TypeOK, AskedInv, Entry
  <2> QED BY <1>4, <2>1, ReplyEffect DEF Hit, TypeOK
<1>5. ASSUME NEW h \in Readers, Miss(h) PROVE TypeOK'
  BY <1>5 DEF Miss, TypeOK, Read
<1>6. ASSUME NEW h \in Readers, Query(h) PROVE TypeOK'
  <2>1. db[rd[h].key] \in Values
    BY <1>6 DEF Query, TypeOK, AskedInv
  <2>2. rd[h] \in Read /\ clock \in Times
    BY DEF TypeOK
  <2>3. [rd[h] EXCEPT !.pc = "store", !.value = db[rd[h].key], !.at = clock] \in Read
    BY <2>1, <2>2 DEF Read
  <2>4. rd' = [rd EXCEPT ![h] = [rd[h] EXCEPT !.pc = "store",
                                    !.value = db[rd[h].key], !.at = clock]]
    BY <1>6 DEF Query, TypeOK
  <2> QED BY <1>6, <2>3, <2>4 DEF Query, TypeOK
<1>7. ASSUME NEW h \in Readers, QueryFails(h) PROVE TypeOK'
  BY <1>7, ReplyEffect DEF QueryFails, TypeOK
<1>8. ASSUME NEW h \in Readers, Store(h) PROVE TypeOK'
  <2>1. rd[h].value \in Values
    BY <1>8 DEF TypeOK, Read
  <2> QED BY <1>8, <2>1, StoreType, ReplyEffect DEF Store, TypeOK
<1>9. ASSUME NEW a \in Admins, NEW r \in Replicas, NEW K \in SUBSET Keys,
             Update(a, r, K)
      PROVE  TypeOK'
  BY <1>9 DEF Update, TypeOK, Patch
<1>10. ASSUME NEW a \in Admins, NEW k \in Keys, Set(a, k) PROVE TypeOK'
  <2>1. db[k] + 1 \in Values /\ db[k] \in Values
    BY <1>10 DEF Set, TypeOK, Values
  <2>2. db' \in [Keys -> Values] /\ ended' \in [Keys -> [Values -> Times \cup {None}]]
    BY <1>10, <2>1 DEF Set, Written, TypeOK
  <2>3. upd' \in [Admins -> Patch]
    <3>1. upd[a] \in Patch
      BY DEF TypeOK
    <3>2. [upd[a] EXCEPT !.todo = @ \ {k}, !.inv = k] \in Patch
      BY <3>1 DEF Patch
    <3>3. upd' = [upd EXCEPT ![a] = [upd[a] EXCEPT !.todo = @ \ {k}, !.inv = k]]
      BY <1>10 DEF Set, TypeOK
    <3> QED BY <3>2, <3>3 DEF TypeOK
  <2> QED BY <1>10, <2>2, <2>3 DEF Set, TypeOK
<1>11. ASSUME NEW a \in Admins, SetFails(a) PROVE TypeOK'
  BY <1>11 DEF SetFails, TypeOK, NoPatch, Patch
<1>12. ASSUME NEW a \in Admins, Invalidate(a) PROVE TypeOK'
  <2>1. upd[a].inv \in Keys
    BY <1>12 DEF Invalidate, TypeOK, Patch
  <2>2. upd' \in [Admins -> Patch]
    BY <1>12 DEF Invalidate, TypeOK, NoPatch, Patch
  <2>3. rd' \in [Readers -> Read]
    <3>1. ASSUME NEW q \in Read, NEW b \in BOOLEAN
          PROVE  [q EXCEPT !.late = b] \in Read
      BY <3>1 DEF Read
    <3>2. \A h \in Readers : rd[h] \in Read /\ rd[h].late \in BOOLEAN
      BY DEF TypeOK, Read
    <3> QED BY <1>12, <3>1, <3>2 DEF Invalidate
  <2>4. /\ cache' \in [Replicas -> [Keys -> Entry \cup {None}]]
        /\ floor' \in [Replicas -> [Keys -> Values]]
    BY <1>12, <2>1 DEF Invalidate, Invalidated, TypeOK
  <2> QED BY <1>12, <2>2, <2>3, <2>4 DEF Invalidate, TypeOK
<1> QED BY <1>1, <1>2, <1>3, <1>4, <1>5, <1>6, <1>7, <1>8, <1>9, <1>10, <1>11,
           <1>12 DEF Next

-----------------------------------------------------------------------------
(* The parts of the invariant.                                             *)

\* The numbers an entry and a read are made of.
LEMMA FieldTypes ==
  ASSUME TypeOK
  PROVE  /\ clock \in Nat
         /\ \A k \in Keys : db[k] \in Values /\ db[k] \in Nat
         /\ \A r \in Replicas, k \in Keys :
              /\ floor[r][k] \in Nat
              /\ cache[r][k] # None => /\ cache[r][k].value \in Values
                                       /\ cache[r][k].value \in Nat
                                       /\ cache[r][k].expires \in Nat
         /\ \A h \in Readers : /\ rd[h].value \in Values /\ rd[h].value \in Nat
                               /\ rd[h].at \in Nat /\ rd[h].late \in BOOLEAN
<1>1. clock \in Nat
  BY NumberTypes DEF TypeOK
<1>2. \A k \in Keys : db[k] \in Values /\ db[k] \in Nat
  BY NumberTypes DEF TypeOK
<1>3. ASSUME NEW r \in Replicas, NEW k \in Keys
      PROVE  floor[r][k] \in Nat /\ cache[r][k] \in Entry \cup {None}
  BY NumberTypes DEF TypeOK
<1>4. \A e \in Entry : e.value \in Values /\ e.value \in Nat /\ e.expires \in Nat
  BY NumberTypes DEF Entry
<1>5. \A q \in Read : /\ q.value \in Values /\ q.value \in Nat
                      /\ q.at \in Nat /\ q.late \in BOOLEAN
  BY NumberTypes DEF Read
<1>6. \A h \in Readers : rd[h] \in Read
  BY DEF TypeOK
<1> QED BY <1>1, <1>2, <1>3, <1>4, <1>5, <1>6

\* Entries that stay or go, over a table that stays, keep what the invariant
\* says of entries.
LEMMA EntriesLeft ==
  ASSUME CacheInv, UNCHANGED <<clock, db, ended, floor>>,
         \A r \in Replicas, k \in Keys :
           cache'[r][k] = None \/ cache'[r][k] = cache[r][k]
  PROVE  CacheInv'
BY DEF CacheInv, ExpiryInv, EntryAge, StaleOnlyByLateStore

\* Reads that stay, end, or go on without having queried, over a table that
\* stays, keep what the invariant says of reads.
LEMMA ReadsLeft ==
  ASSUME AskedInv, HeldInv, UNCHANGED <<clock, db, ended, floor>>,
         \A h \in Readers :
           \/ rd'[h] = rd[h]
           \/ rd'[h].pc = "idle" /\ rd'[h].key = None
           \/ /\ rd'[h].pc \in {"lookup", "query"}
              /\ rd'[h].key \in Keys /\ rd'[h].rep \in Replicas
  PROVE  AskedInv' /\ HeldInv'
<1>1. AskedInv'
  BY DEF AskedInv
<1>2. HeldInv'
  BY DEF HeldInv, Held
<1> QED BY <1>1, <1>2

\* A table that stays keeps what the invariant says of it.
LEMMA TableLeft ==
  ASSUME EndedInv, FloorInv, UNCHANGED <<clock, db, ended, floor>>
  PROVE  EndedInv' /\ FloorInv'
BY DEF EndedInv, FloorInv

\* Time passes.
LEMMA TickStep ==
  ASSUME Inv, Tick
  PROVE  EndedInv' /\ FloorInv' /\ CacheInv' /\ AskedInv' /\ HeldInv'
<1> USE FieldTypes, ConstantTypes, NumberTypes DEF Inv
<1>1. EndedInv'
  <2>1. \A t \in Times : t <= clock => t <= clock + 1
    BY DEF Times, TypeOK
  <2> QED BY <2>1 DEF EndedInv, Tick
<1>4. FloorInv' /\ AskedInv'
  BY DEF FloorInv, AskedInv, Tick
<1>2. CacheInv'
  BY DEF CacheInv, ExpiryInv, EntryAge, StaleOnlyByLateStore, Tick
<1>3. HeldInv'
  BY DEF HeldInv, Held, Tick
<1> QED BY <1>1, <1>2, <1>3, <1>4

\* The query: what it reads is the present value, of the present moment.
LEMMA QueryStep ==
  ASSUME Inv, NEW h \in Readers, Query(h)
  PROVE  EndedInv' /\ FloorInv' /\ CacheInv' /\ AskedInv' /\ HeldInv'
<1> USE FieldTypes, ConstantTypes DEF Inv
<1>1. UNCHANGED <<clock, db, cache, ended, floor>>
  BY DEF Query
<1>2. EndedInv' /\ FloorInv' /\ CacheInv'
  BY <1>1, TableLeft, EntriesLeft DEF CacheInv
<1>3. /\ \A g \in Readers \ {h} : rd'[g] = rd[g]
      /\ rd'[h].pc = "store" /\ rd'[h].key = rd[h].key /\ rd'[h].rep = rd[h].rep
      /\ rd'[h].value = db[rd[h].key] /\ rd'[h].at = clock
      /\ rd[h].key \in Keys /\ rd[h].rep \in Replicas
  BY DEF Query, TypeOK, Read, AskedInv
<1>4. AskedInv'
  BY <1>3 DEF AskedInv
<1>5. HeldInv'
  BY <1>1, <1>3 DEF HeldInv, Held, FloorInv
<1> QED BY <1>2, <1>4, <1>5

\* The store: the entry inherits what the read held, and MaxLag bounds what
\* the way from the query adds to its life.
LEMMA StoreStep ==
  ASSUME Inv, NEW h \in Readers, Store(h)
  PROVE  EndedInv' /\ FloorInv' /\ CacheInv' /\ AskedInv' /\ HeldInv'
<1> USE FieldTypes, ConstantTypes, NumberTypes DEF Inv
<1> DEFINE q == rd[h]
           e == Cached(q)
<1>1. UNCHANGED <<clock, db, ended, floor>> /\ Reply(h, q.value) /\ q.pc = "store"
  BY DEF Store
<1>2. EndedInv' /\ FloorInv' /\ AskedInv' /\ HeldInv'
  BY <1>1, TableLeft, ReplyEffect, NoReadType, ReadsLeft
<1>3. /\ q.key \in Keys /\ q.rep \in Replicas
      /\ cache'[q.rep][q.key] = e
      /\ \A r \in Replicas, k \in Keys :
           r # q.rep \/ k # q.key => cache'[r][k] = cache[r][k]
  BY StoreType
<1>4. /\ e.value = q.value /\ e.expires = clock + TTL /\ e.late = q.late
  BY DEF Cached
<1>5. Held(q)
  BY <1>1 DEF HeldInv
<1>6. /\ e.value <= db[q.key]
      /\ e.value < db[q.key] => e.expires <= ended[q.key][e.value] + TTL + MaxLag
      /\ e.value < floor[q.rep][q.key] => e.late
  <2>1. q.value < db[q.key] => ended[q.key][q.value] \in Nat
    BY <1>3 DEF EndedInv
  <2> QED BY <1>3, <1>4, <1>5, <2>1 DEF Held
<1>7. ExpiryInv'
  BY <1>1, <1>3, <1>4 DEF ExpiryInv
<1>8. EntryAge'
  BY <1>1, <1>3, <1>6 DEF EntryAge
<1>9. StaleOnlyByLateStore'
  BY <1>1, <1>3, <1>6 DEF StaleOnlyByLateStore
<1> QED BY <1>2, <1>7, <1>8, <1>9 DEF CacheInv

\* The write: the value it replaces ends now, so whoever holds it, in an entry
\* or in a read, holds it from before.
LEMMA SetStep ==
  ASSUME Inv, NEW a \in Admins, NEW k \in Keys, Set(a, k)
  PROVE  EndedInv' /\ FloorInv' /\ CacheInv' /\ AskedInv' /\ HeldInv'
<1> USE FieldTypes, ConstantTypes, NumberTypes DEF Inv
<1>1. /\ db'[k] = db[k] + 1
      /\ \A j \in Keys \ {k} : db'[j] = db[j] /\ ended'[j] = ended[j]
      /\ ended'[k][db[k]] = clock
      /\ \A v \in Values \ {db[k]} : ended'[k][v] = ended[k][v]
      /\ UNCHANGED <<clock, cache, rd, floor>>
  BY DEF Set, Written, TypeOK
<1>2. clock \in Times
  BY DEF TypeOK
<1>3. EndedInv'
  <2> SUFFICES ASSUME NEW j \in Keys, NEW v \in Values, v < db'[j]
               PROVE  ended'[j][v] \in Times /\ ended'[j][v] <= clock
    BY <1>1 DEF EndedInv
  <2>1. CASE j # k
    BY <1>1, <2>1 DEF EndedInv
  <2>2. CASE j = k /\ v = db[k]
    BY <1>1, <1>2, <2>2
  <2>3. CASE j = k /\ v # db[k]
    BY <1>1, <2>3 DEF EndedInv
  <2> QED BY <2>1, <2>2, <2>3
<1>4. FloorInv' /\ AskedInv'
  BY <1>1 DEF FloorInv, AskedInv
<1>5. ExpiryInv' /\ StaleOnlyByLateStore'
  BY <1>1 DEF ExpiryInv, StaleOnlyByLateStore
<1>6. EntryAge'
  <2> SUFFICES ASSUME NEW r \in Replicas, NEW j \in Keys, cache[r][j] # None
               PROVE  LET e == cache[r][j] IN
                        /\ e.value <= db'[j]
                        /\ e.value < db'[j] =>
                             e.expires <= ended'[j][e.value] + TTL + MaxLag
    BY <1>1 DEF EntryAge
  <2>1. CASE j # k
    BY <1>1, <2>1 DEF EntryAge
  <2>2. CASE j = k /\ cache[r][j].value = db[k]
    BY <1>1, <2>2 DEF ExpiryInv
  <2>3. CASE j = k /\ cache[r][j].value # db[k]
    <3>1. cache[r][j].value < db[k] /\ cache[r][j].value \in Values
      BY <2>3 DEF EntryAge
    <3> QED BY <1>1, <2>3, <3>1 DEF EntryAge
  <2> QED BY <2>1, <2>2, <2>3
<1>7. HeldInv'
  <2> SUFFICES ASSUME NEW h \in Readers, rd[h].pc = "store" PROVE Held(rd[h])'
    BY <1>1 DEF HeldInv
  <2>1. Held(rd[h]) /\ rd[h].key \in Keys
    BY DEF HeldInv, AskedInv
  <2>2. CASE rd[h].key # k
    BY <1>1, <2>1, <2>2 DEF Held
  <2>3. CASE rd[h].key = k /\ rd[h].value = db[k]
    BY <1>1, <2>1, <2>3 DEF Held
  <2>4. CASE rd[h].key = k /\ rd[h].value # db[k]
    <3>1. rd[h].value < db[k] /\ rd[h].value \in Values
      BY <2>1, <2>4 DEF Held
    <3> QED BY <1>1, <2>1, <2>4, <3>1 DEF Held
  <2> QED BY <2>2, <2>3, <2>4
<1> QED BY <1>3, <1>4, <1>5, <1>6, <1>7 DEF CacheInv

\* Invalidate: the entry goes, and the reads of the key that hold a value are
\* the late ones from now on.
LEMMA InvalidateStep ==
  ASSUME Inv, NEW a \in Admins, Invalidate(a)
  PROVE  EndedInv' /\ FloorInv' /\ CacheInv' /\ AskedInv' /\ HeldInv'
<1> USE FieldTypes, ConstantTypes, NumberTypes DEF Inv
<1> DEFINE r == upd[a].rep
           k == upd[a].inv
<1>1. k \in Keys /\ UNCHANGED <<clock, db, ended>>
  BY DEF Invalidate, TypeOK, Patch
<1>2. \A s \in Replicas, j \in Keys :
        IF s = r /\ j = k
          THEN cache'[s][j] = None /\ floor'[s][j] = db[k]
          ELSE cache'[s][j] = cache[s][j] /\ floor'[s][j] = floor[s][j]
  BY <1>1 DEF Invalidate, Invalidated, TypeOK
<1>3. \A h \in Readers :
        /\ rd'[h].pc = rd[h].pc /\ rd'[h].key = rd[h].key
        /\ rd'[h].rep = rd[h].rep /\ rd'[h].value = rd[h].value
        /\ rd'[h].at = rd[h].at
        /\ rd[h].late => rd'[h].late
        /\ rd[h].pc = "store" /\ rd[h].rep = r /\ rd[h].key = k => rd'[h].late
  <2> SUFFICES ASSUME NEW h \in Readers
               PROVE  /\ rd'[h].pc = rd[h].pc /\ rd'[h].key = rd[h].key
                      /\ rd'[h].rep = rd[h].rep /\ rd'[h].value = rd[h].value
                      /\ rd'[h].at = rd[h].at
                      /\ rd[h].late => rd'[h].late
                      /\ rd[h].pc = "store" /\ rd[h].rep = r /\ rd[h].key = k =>
                           rd'[h].late
    OBVIOUS
  <2> DEFINE hit == rd[h].pc = "store" /\ rd[h].rep = r /\ rd[h].key = k
  <2>1. rd[h] \in Read
    BY DEF TypeOK
  <2>2. rd'[h] = [rd[h] EXCEPT !.late = rd[h].late \/ hit]
    BY DEF Invalidate
  <2> HIDE DEF hit
  <2>3. /\ rd'[h].pc = rd[h].pc /\ rd'[h].key = rd[h].key
        /\ rd'[h].rep = rd[h].rep /\ rd'[h].value = rd[h].value
        /\ rd'[h].at = rd[h].at /\ rd'[h].late = (rd[h].late \/ hit)
    BY <2>1, <2>2 DEF Read
  <2> QED BY <2>3 DEF hit
<1>4. EndedInv' /\ FloorInv'
  BY <1>1, <1>2 DEF EndedInv, FloorInv
<1>5. CacheInv'
  BY <1>1, <1>2 DEF CacheInv, ExpiryInv, EntryAge, StaleOnlyByLateStore
<1>6. AskedInv'
  BY <1>3 DEF AskedInv
<1>7. HeldInv'
  <2> SUFFICES ASSUME NEW h \in Readers, rd[h].pc = "store" PROVE Held(rd[h])'
    BY <1>3 DEF HeldInv
  <2>1. Held(rd[h]) /\ rd[h].key \in Keys /\ rd[h].rep \in Replicas
    BY DEF HeldInv, AskedInv
  <2> QED BY <1>1, <1>2, <1>3, <2>1 DEF Held
<1> QED BY <1>4, <1>5, <1>6, <1>7

-----------------------------------------------------------------------------
(* The invariant.                                                          *)

\* A step that leaves the table alone, drops entries at most, and begins,
\* carries on or ends reads before their query.
LEMMA QuietStep ==
  ASSUME Inv, UNCHANGED <<clock, db, ended, floor>>,
         \A r \in Replicas, k \in Keys :
           cache'[r][k] = None \/ cache'[r][k] = cache[r][k],
         \A h \in Readers :
           \/ rd'[h] = rd[h]
           \/ rd'[h].pc = "idle" /\ rd'[h].key = None
           \/ /\ rd'[h].pc \in {"lookup", "query"}
              /\ rd'[h].key \in Keys /\ rd'[h].rep \in Replicas
  PROVE  EndedInv' /\ FloorInv' /\ CacheInv' /\ AskedInv' /\ HeldInv'
<1>1. EndedInv' /\ FloorInv'
  BY TableLeft DEF Inv
<1>2. CacheInv'
  BY EntriesLeft DEF Inv, CacheInv
<1>3. AskedInv' /\ HeldInv'
  BY ReadsLeft DEF Inv
<1> QED BY <1>1, <1>2, <1>3

\* The first states satisfy the invariant.
LEMMA InitInv == Init => Inv
<1> SUFFICES ASSUME Init PROVE Inv
  OBVIOUS
<1> USE ConstantTypes, NumberTypes
<1>1. /\ 0 \in Values /\ 0 \in Times /\ NoPatch \in Patch
  BY DEF Values, Times, NoPatch, Patch
<1>2. TypeOK
  BY <1>1, NoReadType DEF Init, TypeOK
<1>3. EndedInv /\ FloorInv
  BY DEF Init, EndedInv, FloorInv
<1>4. ExpiryInv /\ EntryAge /\ StaleOnlyByLateStore
  BY DEF Init, ExpiryInv, EntryAge, StaleOnlyByLateStore
<1>5. AskedInv /\ HeldInv
  BY NoReadType DEF Init, AskedInv, HeldInv
<1> QED BY <1>2, <1>3, <1>4, <1>5 DEF Inv

\* Every step keeps the invariant.
LEMMA NextInv == Inv /\ [Next]_vars => Inv'
<1> SUFFICES ASSUME Inv, [Next]_vars PROVE Inv'
  OBVIOUS
<1> DEFINE Rest == EndedInv /\ FloorInv /\ CacheInv /\ AskedInv /\ HeldInv
<1>0. TypeOK /\ AskedInv
  BY DEF Inv
<1>1. ASSUME Tick PROVE Rest'
  BY <1>1, TickStep
<1>2. ASSUME NEW r \in Replicas, Restart(r) PROVE Rest'
  <2>1. /\ UNCHANGED <<clock, db, ended, floor>>
        /\ \A s \in Replicas, k \in Keys :
             cache'[s][k] = None \/ cache'[s][k] = cache[s][k]
    BY <1>0, <1>2 DEF Restart, TypeOK
  <2>2. \A h \in Readers :
          rd'[h] = rd[h] \/ (rd'[h].pc = "idle" /\ rd'[h].key = None)
    BY <1>2, NoReadType DEF Restart
  <2> QED BY <2>1, <2>2, QuietStep
<1>3. ASSUME NEW h \in Readers, NEW r \in Replicas, NEW k \in Keys, Get(h, r, k)
      PROVE  Rest'
  <2>1. UNCHANGED <<clock, db, ended, floor, cache>>
    BY <1>3 DEF Get
  <2>2. /\ rd'[h].pc = "lookup" /\ rd'[h].key = k /\ rd'[h].rep = r
        /\ \A g \in Readers \ {h} : rd'[g] = rd[g]
    BY <1>0, <1>3 DEF Get, TypeOK, NoRead
  <2> QED BY <2>1, <2>2, QuietStep
<1>4. ASSUME NEW h \in Readers, Hit(h) \/ QueryFails(h) PROVE Rest'
  <2>1. UNCHANGED <<clock, db, ended, floor, cache>>
    BY <1>4 DEF Hit, QueryFails
  <2>2. \A g \in Readers :
          rd'[g] = rd[g] \/ (rd'[g].pc = "idle" /\ rd'[g].key = None)
    BY <1>0, <1>4, NoReadType DEF Hit, QueryFails, Reply, TypeOK
  <2> QED BY <2>1, <2>2, QuietStep
<1>5. ASSUME NEW h \in Readers, Miss(h) PROVE Rest'
  <2>1. UNCHANGED <<clock, db, ended, floor, cache>>
    BY <1>5 DEF Miss
  <2>2. rd[h].key \in Keys /\ rd[h].rep \in Replicas
    BY <1>0, <1>5 DEF Miss, AskedInv
  <2>3. /\ rd'[h].pc = "query" /\ rd'[h].key = rd[h].key /\ rd'[h].rep = rd[h].rep
        /\ \A g \in Readers \ {h} : rd'[g] = rd[g]
    BY <1>0, <1>5 DEF Miss, TypeOK, Read
  <2> QED BY <2>1, <2>2, <2>3, QuietStep
<1>6. ASSUME NEW h \in Readers, Query(h) PROVE Rest'
  BY <1>6, QueryStep
<1>7. ASSUME NEW h \in Readers, Store(h) PROVE Rest'
  BY <1>7, StoreStep
<1>8. ASSUME NEW a \in Admins,
             \/ \E r \in Replicas, K \in SUBSET Keys : Update(a, r, K)
             \/ SetFails(a)
      PROVE  Rest'
  <2>1. UNCHANGED <<clock, db, ended, floor, cache, rd>>
    BY <1>8 DEF Update, SetFails
  <2> QED BY <2>1, QuietStep
<1>9. ASSUME NEW a \in Admins, NEW k \in Keys, Set(a, k) PROVE Rest'
  BY <1>9, SetStep
<1>10. ASSUME NEW a \in Admins, Invalidate(a) PROVE Rest'
  BY <1>10, InvalidateStep
<1>11. CASE UNCHANGED vars
  <2>1. UNCHANGED <<clock, db, ended, floor, cache, rd>> /\ TypeOK'
    BY <1>0, <1>11 DEF vars, TypeOK
  <2>2. Rest'
    BY <2>1, QuietStep
  <2> QED BY <2>1, <2>2 DEF Inv, CacheInv
<1>12. CASE Next
  <2>1. TypeOK'
    BY <1>0, <1>12, TypeStep
  <2>2. Rest'
    BY <1>1, <1>2, <1>3, <1>4, <1>5, <1>6, <1>7, <1>8, <1>9, <1>10, <1>12 DEF Next
  <2> QED BY <2>1, <2>2 DEF Inv, CacheInv
<1> QED BY <1>11, <1>12

\* The invariant holds always.
THEOREM Invariance == Spec => []Inv
BY InitInv, NextInv, PTL DEF Spec

\* Every variable of the cache, the table and the requests has its type.
THEOREM TypeCorrect == Spec => []TypeOK
<1>1. Inv => TypeOK
  BY DEF Inv
<1> QED BY <1>1, Invariance, PTL

\* Invalidate after Set: after its own Invalidate a process caches an older
\* value only by a read that had queried before and stored after.
THEOREM StaleEntriesAreLateStores == Spec => []StaleOnlyByLateStore
<1>1. Inv => StaleOnlyByLateStore
  BY DEF Inv
<1> QED BY <1>1, Invariance, PTL

\* A replaced value has at most TTL + MaxLag to live in any cache.
THEOREM EntriesAgeOut == Spec => []EntryAge
<1>1. Inv => EntryAge
  BY DEF Inv
<1> QED BY <1>1, Invariance, PTL

-----------------------------------------------------------------------------
(* The refinement.                                                         *)

\* The cache begins as the abstract setting does.
LEMMA RefinesInit == Init => Abstract!Init
BY NoReadType DEF Init, Abstract!Init, Abstract!Values, Values

\* An answer v to reader h that the abstract setting allows.
LEMMA RefinesAnswer ==
  ASSUME Inv, NEW h \in Readers, NEW v, Reply(h, v),
         UNCHANGED <<clock, db, ended>>,
         rd[h].key \in Keys,
         v \in Abstract!Fresh(rd[h].key) \cup {Default}
  PROVE  Abstract!Answer(h)
<1>1. TypeOK
  BY DEF Inv
<1>2. [g \in Readers |-> rd'[g].key] =
        [[g \in Readers |-> rd[g].key] EXCEPT ![h] = None]
  BY <1>1, NoReadType DEF Reply, TypeOK
<1> QED BY <1>2, ConstantTypes DEF Abstract!Answer, Reply

\* A value the invariant bounds is one the abstract setting allows.
LEMMA BoundedIsFresh ==
  ASSUME Inv, NEW k \in Keys, NEW v \in Values, v <= db[k],
         v < db[k] => clock < ended[k][v] + TTL + MaxLag
  PROVE  v \in Abstract!Fresh(k)
<1>1. TypeOK /\ EndedInv
  BY DEF Inv
<1>2. /\ db[k] \in Nat /\ v \in Nat /\ clock \in Nat
      /\ v < db[k] => ended[k][v] \in Nat
  BY <1>1, FieldTypes, NumberTypes DEF EndedInv
<1>3. v = db[k] \/ (v < db[k] /\ clock - ended[k][v] < TTL + MaxLag)
  BY <1>2, ConstantTypes
<1> QED BY <1>3 DEF Abstract!Fresh, Abstract!Values, Values

\* Every step of the cache is a step of the abstract setting, or none.
LEMMA RefinesNext == Inv /\ [Next]_vars => [Abstract!Next]_(Abstract!vars)
<1> SUFFICES ASSUME Inv, [Next]_vars PROVE [Abstract!Next]_(Abstract!vars)
  OBVIOUS
<1> DEFINE asks == [h \in Readers |-> rd[h].key]
<1>0. TypeOK /\ AskedInv
  BY DEF Inv
<1>1. ASSUME UNCHANGED <<clock, db, ended, answer>>,
             \A h \in Readers : rd'[h].key = rd[h].key
      PROVE  UNCHANGED Abstract!vars
  BY <1>1 DEF Abstract!vars
<1>2. ASSUME Tick PROVE Abstract!Tick
  BY <1>2 DEF Tick, Abstract!Tick
<1>3. ASSUME NEW r \in Replicas, Restart(r) PROVE Abstract!Next
  <2>1. PICK H \in SUBSET Readers : H = {h \in Readers : rd[h].rep = r}
    OBVIOUS
  <2>2. Abstract!Stop(H)
    BY <1>3, <2>1, NoReadType DEF Restart, Abstract!Stop
  <2> QED BY <2>2 DEF Abstract!Next
<1>4. ASSUME NEW h \in Readers, NEW r \in Replicas, NEW k \in Keys, Get(h, r, k)
      PROVE  Abstract!Next
  <2>1. rd[h].key = None
    BY <1>0, <1>4 DEF Get, AskedInv
  <2>2. asks' = [asks EXCEPT ![h] = k]
    BY <1>0, <1>4 DEF Get, TypeOK, NoRead
  <2>3. Abstract!Ask(h, k)
    BY <1>4, <2>1, <2>2 DEF Get, Abstract!Ask
  <2> QED BY <2>3 DEF Abstract!Next
<1>5. ASSUME NEW h \in Readers, Hit(h) PROVE Abstract!Next
  <2> DEFINE e == cache[rd[h].rep][rd[h].key]
  <2>1. rd[h].key \in Keys /\ rd[h].rep \in Replicas
    BY <1>0, <1>5 DEF Hit, AskedInv
  <2>2. e # None /\ clock < e.expires
    BY <1>5 DEF Hit, Live
  <2>3. e.value \in Values /\ e.expires \in Nat
    BY <1>0, <2>1, <2>2, FieldTypes
  <2>4. /\ e.value <= db[rd[h].key]
        /\ e.value < db[rd[h].key] =>
             e.expires <= ended[rd[h].key][e.value] + TTL + MaxLag
    BY <2>1, <2>2 DEF Inv, EntryAge
  <2>5. e.value < db[rd[h].key] => clock < ended[rd[h].key][e.value] + TTL + MaxLag
    <3>1. e.value < db[rd[h].key] => ended[rd[h].key][e.value] \in Nat
      BY <2>1, <2>3, NumberTypes DEF Inv, EndedInv
    <3> QED BY <1>0, <2>2, <2>3, <2>4, <3>1, FieldTypes, ConstantTypes
  <2>6. e.value \in Abstract!Fresh(rd[h].key)
    BY <2>1, <2>3, <2>4, <2>5, BoundedIsFresh
  <2>7. Abstract!Answer(h)
    BY <1>5, <2>1, <2>6, RefinesAnswer DEF Hit
  <2> QED BY <2>7 DEF Abstract!Next
<1>6. ASSUME NEW h \in Readers, QueryFails(h) PROVE Abstract!Next
  <2>1. rd[h].key \in Keys
    BY <1>0, <1>6 DEF QueryFails, AskedInv
  <2>2. Abstract!Answer(h)
    BY <1>6, <2>1, RefinesAnswer DEF QueryFails
  <2> QED BY <2>2 DEF Abstract!Next
<1>7. ASSUME NEW h \in Readers, Store(h) PROVE Abstract!Next
  <2> DEFINE q == rd[h]
  <2>1. q.key \in Keys /\ q.rep \in Replicas /\ q.value \in Values /\ q.at \in Nat
    BY <1>0, <1>7, FieldTypes DEF Store, AskedInv
  <2>2. Held(q)
    BY <1>7 DEF Store, Inv, HeldInv
  <2>3. q.value < db[q.key] => clock < ended[q.key][q.value] + TTL + MaxLag
    <3>1. q.value < db[q.key] => ended[q.key][q.value] \in Nat
      BY <2>1, NumberTypes DEF Inv, EndedInv
    <3> QED BY <1>0, <2>1, <2>2, <3>1, FieldTypes, ConstantTypes DEF Held
  <2>4. q.value \in Abstract!Fresh(q.key)
    BY <2>1, <2>2, <2>3, BoundedIsFresh DEF Held
  <2>5. Abstract!Answer(h)
    BY <1>7, <2>1, <2>4, RefinesAnswer DEF Store
  <2> QED BY <2>5 DEF Abstract!Next
<1>8. ASSUME NEW a \in Admins, NEW k \in Keys, Set(a, k) PROVE Abstract!Next
  <2>1. Abstract!Write(k)
    BY <1>8 DEF Set, Written, Abstract!Write
  <2> QED BY <2>1 DEF Abstract!Next
<1>9. ASSUME NEW h \in Readers, Miss(h) \/ Query(h) PROVE UNCHANGED Abstract!vars
  <2>1. \A g \in Readers \ {h} : rd'[g] = rd[g]
    BY <1>0, <1>9 DEF Miss, Query, TypeOK
  <2>2. ASSUME Miss(h) PROVE rd'[h].key = rd[h].key
    BY <1>0, <2>2 DEF Miss, TypeOK, Read
  <2>3. ASSUME Query(h) PROVE rd'[h].key = rd[h].key
    BY <1>0, <2>3 DEF Query, TypeOK, Read
  <2> QED BY <1>1, <1>9, <2>1, <2>2, <2>3 DEF Miss, Query
<1>10. ASSUME NEW a \in Admins,
              \/ \E r \in Replicas, K \in SUBSET Keys : Update(a, r, K)
              \/ SetFails(a)
       PROVE  UNCHANGED Abstract!vars
  BY <1>1, <1>10 DEF Update, SetFails
<1>11. ASSUME NEW a \in Admins, Invalidate(a) PROVE UNCHANGED Abstract!vars
  <2>1. \A g \in Readers : rd'[g].key = rd[g].key
    BY <1>0, <1>11 DEF Invalidate, TypeOK, Read
  <2> QED BY <1>1, <1>11, <2>1 DEF Invalidate
<1>12. CASE UNCHANGED vars
  BY <1>1, <1>12 DEF vars
<1>13. CASE Next
  BY <1>2, <1>3, <1>4, <1>5, <1>6, <1>7, <1>8, <1>9, <1>10, <1>11, <1>13
     DEF Next, Abstract!Next
<1> QED BY <1>12, <1>13

\* The cache keeps the promise of BoundedStaleness for every number of
\* processes, whatever the interleaving of reads, updates, failures and
\* restarts.
THEOREM CacheRefinesBoundedStaleness == Spec => StalenessIsBounded
BY RefinesInit, RefinesNext, Invariance, PTL
   DEF Spec, StalenessIsBounded, Abstract!Spec
===============================================================================
