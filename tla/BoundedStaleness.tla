---------------------------- MODULE BoundedStaleness ----------------------------
(***************************************************************************)
(* What package settings promises to the callers of GetInt, GetString and  *)
(* GetBool ("Stale after cacheTTL - acceptable for admin-set configuration *)
(* values"): a read answers with the value of the key at the moment, with  *)
(* one that was replaced less than Staleness ago, or with the caller's     *)
(* default.  A value is the number of the write that set it.               *)
(***************************************************************************)
EXTENDS Integers

CONSTANTS Keys, Readers, None, Default, Staleness, MaxWrites, MaxTime

Times == 0..MaxTime
Values == 0..MaxWrites

VARIABLES
  clock,
  db,      \* the value of each key
  ended,   \* per key and value, when the value was replaced
  asked,   \* what each reader reads, None between two reads
  answer   \* and the answer, None while there is none

vars == <<clock, db, ended, asked, answer>>

Init ==
  /\ clock = 0
  /\ db = [k \in Keys |-> 0]
  /\ ended = [k \in Keys |-> [v \in Values |-> None]]
  /\ asked = [h \in Readers |-> None]
  /\ answer = [h \in Readers |-> None]

Tick ==
  /\ clock' = clock + 1
  /\ UNCHANGED <<db, ended, asked, answer>>

Write(k) ==
  /\ db[k] < MaxWrites
  /\ db' = [db EXCEPT ![k] = @ + 1]
  /\ ended' = [ended EXCEPT ![k][db[k]] = clock]
  /\ UNCHANGED <<clock, asked, answer>>

Ask(h, k) ==
  /\ asked[h] = None
  /\ asked' = [asked EXCEPT ![h] = k]
  /\ answer' = [answer EXCEPT ![h] = None]
  /\ UNCHANGED <<clock, db, ended>>

\* The values a read of k may answer with.
Fresh(k) ==
  {v \in Values : \/ v = db[k]
                  \/ v < db[k] /\ clock - ended[k][v] < Staleness}

Answer(h) ==
  /\ asked[h] # None
  /\ \E v \in Fresh(asked[h]) \cup {Default} :
       answer' = [answer EXCEPT ![h] = v]
  /\ asked' = [asked EXCEPT ![h] = None]
  /\ UNCHANGED <<clock, db, ended>>

\* The process dies with its reads.
Stop(H) ==
  /\ asked' = [h \in Readers |-> IF h \in H THEN None ELSE asked[h]]
  /\ UNCHANGED <<clock, db, ended, answer>>

Next ==
  \/ Tick
  \/ \E k \in Keys : Write(k)
  \/ \E h \in Readers : Answer(h) \/ \E k \in Keys : Ask(h, k)
  \/ \E H \in SUBSET Readers : Stop(H)

Spec == Init /\ [][Next]_vars
=================================================================================
