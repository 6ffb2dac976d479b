---------------------- MODULE BoardPersistenceRefines ----------------------
(***************************************************************************)
(* What holds as long as the compactions of a board do not overlap: a      *)
(* compaction knows exactly what the snapshot it replaces and the rows it  *)
(* prunes hold, so no step but an append changes what a load delivers, and *)
(* what a room read before it opened is what the log and the snapshot had. *)
(***************************************************************************)
EXTENDS BoardPersistenceProofs

AtMostOne == \A i, j \in Jobs : Running(i) /\ Running(j) => i = j

\* Until its commit a compaction extends the newest snapshot, with all of the
\* rows up to its target; after it, its own snapshot is the newest.
JobSound(j) ==
    /\ jobs[j].pc \in {"since", "base", "put", "check", "record"} => jobs[j].from = Latest
    /\ jobs[j].pc = "base" => jobs[j].content = Since(jobs[j].from, jobs[j].target)
    /\ jobs[j].pc \in {"put", "check", "record"} =>
          /\ jobs[j].content = BytesOf(Latest) \cup Since(Latest, jobs[j].target)
          /\ ~Gap(jobs[j].content)
    /\ jobs[j].pc = "record" =>
          /\ jobs[j].target \in DOMAIN objects
          /\ objects[jobs[j].target] = jobs[j].content
    /\ jobs[j].pc \in {"prune", "older", "delete", "forget"} => Latest = jobs[j].target

Serial == AtMostOne /\ \A j \in Jobs : JobSound(j)

Inv2 == ~overlapped => Serial

-----------------------------------------------------------------------------
LEMMA InitInv2 == Init => Inv2
  BY DEF Init, Inv2, Serial, AtMostOne, Running, JobSound, IdleJob

\* A step of the one running compaction leaves the others idle.
LEMMA OneRuns ==
    ASSUME TypeOK, AtMostOne, NEW j \in Jobs, Running(j), NEW next,
           jobs' = [jobs EXCEPT ![j] = next]
    PROVE  /\ AtMostOne'
           /\ jobs'[j] = next
           /\ \A i \in Jobs \ {j} : JobSound(i)'
  <1>1. jobs' \in [Jobs -> {jobs[i] : i \in Jobs} \cup {next}] /\ jobs'[j] = next
        /\ \A i \in Jobs \ {j} : jobs'[i] = jobs[i] /\ jobs[i].pc = "idle"
    BY DEF AtMostOne, Running, TypeOK, JobsOK
  <1>2. AtMostOne'
    BY <1>1 DEF AtMostOne, Running
  <1>3. \A i \in Jobs \ {j} : JobSound(i)'
    BY <1>1 DEF JobSound
  <1> QED  BY <1>1, <1>2, <1>3

\* What a compaction knows and will do next does not change.
SameWork(j) ==
    /\ jobs'[j].pc = jobs[j].pc
    /\ jobs'[j].from = jobs[j].from
    /\ jobs'[j].target = jobs[j].target
    /\ jobs'[j].content = jobs[j].content

\* A step that leaves the database and the object store alone.
LEMMA SameDurable ==
    ASSUME UNCHANGED durable
    PROVE  /\ Stored' = Stored /\ Latest' = Latest
           /\ \A j \in Jobs : SameWork(j) => (JobSound(j)' <=> JobSound(j))
  <1>1. log' = log /\ catalog' = catalog /\ objects' = objects
    BY DEF durable
  <1>2. Latest' = Latest /\ HighWater' = HighWater
    BY <1>1 DEF Latest, HighWater, SeqsOf
  <1>3. BytesOf(Latest)' = BytesOf(Latest) /\ Since(Latest, HighWater)' = Since(Latest, HighWater)
    BY <1>1, <1>2 DEF BytesOf, Since
  <1>4. Stored' = Stored
    BY <1>2, <1>3 DEF Stored
  <1>5. ASSUME NEW j \in Jobs, SameWork(j) PROVE JobSound(j)' <=> JobSound(j)
    <2>1. /\ Since(jobs[j].from, jobs[j].target)' = Since(jobs[j].from, jobs[j].target)
          /\ Since(Latest, jobs[j].target)' = Since(Latest, jobs[j].target)
      BY <1>1, <1>2, <1>5 DEF Since, SameWork
    <2>2. Gap(jobs[j].content)' <=> Gap(jobs[j].content)
      BY <1>5 DEF Gap, SameWork
    <2> QED  BY <1>1, <1>2, <1>3, <1>5, <2>1, <2>2 DEF JobSound, SameWork
  <1> QED  BY <1>2, <1>4, <1>5

\* A compaction that ends by a step that leaves the durable state alone.
LEMMA SettleSerial ==
    ASSUME Inv1, Serial, NEW j \in Jobs, Running(j), NEW ok, Settle(j, ok), UNCHANGED durable
    PROVE  Serial' /\ Stored' = Stored
  <1>1. AtMostOne' /\ jobs'[j] = IdleJob /\ \A i \in Jobs \ {j} : JobSound(i)'
    BY OneRuns DEF Settle, Inv1, Serial
  <1>2. JobSound(j)'
    BY <1>1 DEF JobSound, IdleJob
  <1> QED  BY <1>1, <1>2, SameDurable DEF Serial

\* A compaction that has rebuilt the document, and not yet recorded it.
LEMMA RebuiltSound ==
    ASSUME NEW j \in Jobs, log' = log, Latest' = Latest, BytesOf(Latest)' = BytesOf(Latest),
           jobs'[j].pc \in {"put", "check", "record"},
           jobs'[j].from = Latest, jobs'[j].target = jobs[j].target,
           jobs'[j].content = BytesOf(Latest) \cup Since(Latest, jobs[j].target),
           ~Gap(jobs'[j].content),
           jobs'[j].pc = "record" => /\ jobs'[j].target \in DOMAIN objects'
                                     /\ objects'[jobs'[j].target] = jobs'[j].content
    PROVE  JobSound(j)'
  <1>1. Since(Latest, jobs[j].target)' = Since(Latest, jobs[j].target)
    BY DEF Since
  <1>2. Gap(jobs[j].content)' <=> Gap(jobs'[j].content)
    BY DEF Gap
  <1> QED  BY <1>1, <1>2 DEF JobSound

LEMMA LatestSerial ==
    ASSUME Inv1, Serial, [Next]_vars, NEW j \in Jobs, CompactLatest(j)
    PROVE  Serial' /\ Stored' = Stored
  <1>1. Running(j) /\ UNCHANGED durable
    BY DEF CompactLatest, Running
  <1>2. CASE jobs[j].target <= Latest
    BY <1>1, <1>2, SettleSerial DEF CompactLatest
  <1>3. CASE ~(jobs[j].target <= Latest)
    <2> DEFINE next == [jobs[j] EXCEPT !.from = Latest, !.pc = "since"]
    <2>1. AtMostOne' /\ jobs'[j] = next /\ \A i \in Jobs \ {j} : JobSound(i)'
      BY <1>1, <1>3, OneRuns DEF CompactLatest, Step, Inv1, Serial
    <2>2. next.pc = "since" /\ next.from = Latest
      BY DEF Inv1, TypeOK, JobsOK, JobType
    <2>3. JobSound(j)'
      BY <1>1, <2>1, <2>2, SameDurable DEF JobSound
    <2> QED  BY <1>1, <2>1, <2>3, SameDurable DEF Serial
  <1> QED  BY <1>2, <1>3

LEMMA SinceSerial ==
    ASSUME Inv1, Serial, [Next]_vars, NEW j \in Jobs, CompactSince(j)
    PROVE  Serial' /\ Stored' = Stored
  <1> DEFINE next == [jobs[j] EXCEPT !.content = Since(jobs[j].from, jobs[j].target),
                                     !.pc = "base"]
  <1>1. Running(j) /\ UNCHANGED durable
    BY DEF CompactSince, Running
  <1>2. AtMostOne' /\ jobs'[j] = next /\ \A i \in Jobs \ {j} : JobSound(i)'
    BY <1>1, OneRuns DEF CompactSince, Step, Inv1, Serial
  <1>3. /\ next.pc = "base" /\ next.from = jobs[j].from /\ next.target = jobs[j].target
        /\ next.content = Since(jobs[j].from, jobs[j].target)
        /\ jobs[j].from = Latest
    BY DEF Inv1, TypeOK, JobsOK, JobType, CompactSince, Serial, JobSound
  <1>4. JobSound(j)'
    <2>1. Since(jobs[j].from, jobs[j].target)' = Since(jobs[j].from, jobs[j].target)
      BY <1>1, <1>2, <1>3 DEF Since, durable
    <2> QED  BY <1>1, <1>2, <1>3, <2>1, SameDurable DEF JobSound
  <1> QED  BY <1>1, <1>2, <1>4, SameDurable DEF Serial

LEMMA BaseSerial ==
    ASSUME Inv1, Serial, [Next]_vars, NEW j \in Jobs, CompactBase(j)
    PROVE  Serial' /\ Stored' = Stored
  <1> DEFINE content == BytesOf(jobs[j].from) \cup jobs[j].content
             next == [jobs[j] EXCEPT !.content = content, !.pc = "put"]
  <1>1. Running(j) /\ UNCHANGED durable
    BY DEF CompactBase, Running
  <1>2. CASE Settle(j, FALSE)
    BY <1>1, <1>2, SettleSerial
  <1>3. CASE ~Gap(content) /\ Step(j, next)
    <2>1. AtMostOne' /\ jobs'[j] = next /\ \A i \in Jobs \ {j} : JobSound(i)'
      BY <1>1, <1>3, OneRuns DEF Step, Inv1, Serial
    <2>2. /\ next.pc = "put" /\ next.from = jobs[j].from /\ next.target = jobs[j].target
          /\ next.content = content
          /\ jobs[j].from = Latest
          /\ jobs[j].content = Since(Latest, jobs[j].target)
      BY DEF Inv1, TypeOK, JobsOK, JobType, CompactBase, Serial, JobSound
    <2>3. BytesOf(Latest)' = BytesOf(Latest)
      BY <1>1, SameDurable DEF BytesOf, durable
    <2>4. JobSound(j)'
      BY <1>1, <1>3, <2>1, <2>2, <2>3, SameDurable, RebuiltSound DEF durable
    <2> QED  BY <1>1, <2>1, <2>4, SameDurable DEF Serial
  <1> QED  BY <1>2, <1>3 DEF CompactBase, Complete, Rebuilt

\* The upload goes to a key above the newest snapshot's: nothing recorded is touched.
LEMMA PutSerial ==
    ASSUME Inv1, Serial, [Next]_vars, NEW j \in Jobs, CompactPut(j)
    PROVE  Serial' /\ Stored' = Stored
  <1> DEFINE T == jobs[j].target
             next == [jobs[j] EXCEPT !.pc = "check"]
  <1>1. /\ Running(j) /\ jobs[j].from = Latest /\ Latest < T /\ jobs[j] \in JobType
        /\ jobs[j].content = BytesOf(Latest) \cup Since(Latest, T) /\ ~Gap(jobs[j].content)
    BY DEF CompactPut, Running, Inv1, Ordered, JobOrdered, Serial, JobSound, TypeOK, JobsOK
  <1>2. AtMostOne' /\ jobs'[j] = next /\ \A i \in Jobs \ {j} : JobSound(i)'
    BY <1>1, OneRuns DEF CompactPut, Step, Inv1, Serial
  <1>3. PICK bytes : objects' = [k \in DOMAIN objects \cup {T} |->
                                     IF k = T THEN bytes ELSE objects[k]]
    BY DEF CompactPut
  <1>4. log' = log /\ catalog' = catalog /\ Latest' = Latest /\ HighWater' = HighWater
    BY DEF CompactPut, Latest, HighWater, SeqsOf
  <1>5. /\ LatestGood /\ T \in Nat
        /\ Latest \in Nat /\ Latest # T /\ \A s \in catalog : s # T
    <2>1. LatestGood /\ T \in Nat /\ TypeOK
      BY <1>1, Inv1Durable, LatestLemma DEF JobType, Inv1
    <2> QED  BY <1>1, <2>1 DEF LatestGood, TypeOK, DurableOK
  <1>6. BytesOf(Latest)' = BytesOf(Latest)
    BY <1>3, <1>4, <1>5 DEF BytesOf, Inv1, Backed, LatestIsReadable
  <1>7. Stored' = Stored /\ Since(Latest, T)' = Since(Latest, T)
    BY <1>4, <1>6, <1>2, <1>1 DEF Stored, Since, JobType
  <1>8. JobSound(j)'
    <2>1. /\ next.pc = "check" /\ next.from = jobs[j].from /\ next.target = T
          /\ next.content = jobs[j].content
      BY <1>1 DEF JobType
    <2> QED  BY <1>1, <1>2, <1>4, <1>6, <2>1, RebuiltSound
  <1> QED  BY <1>2, <1>6, <1>7, <1>8 DEF Serial

LEMMA CheckSerial ==
    ASSUME Inv1, Serial, [Next]_vars, NEW j \in Jobs, CompactCheck(j)
    PROVE  Serial' /\ Stored' = Stored
  <1> DEFINE next == [jobs[j] EXCEPT !.pc = "record"]
  <1>1. Running(j) /\ UNCHANGED durable /\ jobs[j] \in JobType
    BY DEF CompactCheck, Running, Inv1, TypeOK, JobsOK
  <1>2. CASE Settle(j, FALSE)
    BY <1>1, <1>2, SettleSerial
  <1>3. CASE /\ jobs[j].target \in DOMAIN objects
             /\ objects[jobs[j].target] = jobs[j].content
             /\ Step(j, next)
    <2>1. AtMostOne' /\ jobs'[j] = next /\ \A i \in Jobs \ {j} : JobSound(i)'
      BY <1>1, <1>3, OneRuns DEF Step, Inv1, Serial
    <2>2. /\ next.pc = "record" /\ next.from = jobs[j].from /\ next.target = jobs[j].target
          /\ next.content = jobs[j].content /\ jobs[j].from = Latest
          /\ jobs[j].content = BytesOf(Latest) \cup Since(Latest, jobs[j].target)
          /\ ~Gap(jobs[j].content)
      BY <1>1 DEF JobType, CompactCheck, Serial, JobSound
    <2>3. BytesOf(Latest)' = BytesOf(Latest)
      BY <1>1, SameDurable DEF BytesOf, durable
    <2>4. JobSound(j)'
      BY <1>1, <1>3, <2>1, <2>2, <2>3, SameDurable, RebuiltSound DEF durable
    <2> QED  BY <1>1, <2>1, <2>4, SameDurable DEF Serial
  <1> QED  BY <1>2, <1>3 DEF CompactCheck, Verified

\* The commit: the new snapshot and the rows after it are what was stored before.
LEMMA RecordSerial ==
    ASSUME Inv1, Serial, [Next]_vars, NEW j \in Jobs, CompactRecord(j)
    PROVE  Serial' /\ Stored' = Stored
  <1> DEFINE T == jobs[j].target
             next == [jobs[j] EXCEPT !.pc = "prune"]
  <1>1. /\ Running(j) /\ Latest < T /\ jobs[j] \in JobType /\ T \in Nat \ {0}
        /\ jobs[j].content = BytesOf(Latest) \cup Since(Latest, T) /\ ~Gap(jobs[j].content)
        /\ T \in DOMAIN objects /\ objects[T] = jobs[j].content
    BY DEF CompactRecord, Running, Inv1, Ordered, JobOrdered, Serial, JobSound, TypeOK,
           JobsOK, JobType
  <1>2. AtMostOne' /\ jobs'[j] = next /\ \A i \in Jobs \ {j} : JobSound(i)'
    BY <1>1, OneRuns DEF CompactRecord, Step, Inv1, Serial
  <1>3. log' = log /\ objects' = objects /\ catalog' = catalog \cup {T}
    BY DEF CompactRecord
  <1>4. TypeOK /\ LatestGood /\ LatestGood' /\ StoredGood /\ StoredGood'
    BY DurableStep
  <1>5. Latest' = T
    <2>1. \A s \in catalog' : s <= T
      <3>1. Latest \in Nat /\ \A s \in catalog : s \in Nat /\ s <= Latest
        BY <1>4 DEF LatestGood, TypeOK, DurableOK
      <3> QED  BY <1>1, <1>3, <3>1
    <2> QED  BY <1>3, <1>4, <2>1 DEF LatestGood
  <1>6. JobSound(j)'
    BY <1>1, <1>2, <1>5 DEF JobSound, JobType
  <1>7. Stored' = Stored
    <2> DEFINE above(n) == {r.update : r \in {q \in log : q.seq > n}}
    <2>1. Stored' = BytesOf(Latest) \cup Since(Latest, T) \cup above(T)
      BY <1>1, <1>3, <1>4, <1>5 DEF StoredGood, BytesOf
    <2>2. Since(Latest, T) \cup above(T) = above(Latest)
      BY <1>1, <1>4 DEF Since, LatestGood, TypeOK, DurableOK
    <2> QED  BY <1>4, <2>1, <2>2 DEF StoredGood
  <1> QED  BY <1>2, <1>6, <1>7 DEF Serial

\* Only rows that the newest snapshot holds are pruned.
LEMMA PruneSerial ==
    ASSUME Inv1, Serial, [Next]_vars, NEW j \in Jobs, CompactPrune(j)
    PROVE  Serial' /\ Stored' = Stored
  <1>1. Running(j) /\ Latest = jobs[j].target /\ jobs[j] \in JobType
    BY DEF CompactPrune, Running, Serial, JobSound, Inv1, TypeOK, JobsOK
  <1>2. AtMostOne' /\ jobs'[j] = [jobs[j] EXCEPT !.pc = "older"]
        /\ \A i \in Jobs \ {j} : JobSound(i)'
    BY <1>1, OneRuns DEF CompactPrune, Step, Inv1, Serial
  <1>3. /\ objects' = objects /\ catalog' = catalog /\ Latest' = Latest
        /\ log' = {r \in log : r.seq > Latest}
    BY <1>1 DEF CompactPrune, KeptAfterPrune, Latest
  <1>4. StoredGood /\ StoredGood'
    BY DurableStep
  <1>5. Stored' = Stored
    BY <1>3, <1>4 DEF StoredGood, BytesOf
  <1>6. JobSound(j)'
    BY <1>1, <1>2, <1>3 DEF JobSound, JobType
  <1> QED  BY <1>2, <1>5, <1>6 DEF Serial

LEMMA OlderSerial ==
    ASSUME Inv1, Serial, [Next]_vars, NEW j \in Jobs, CompactOlder(j)
    PROVE  Serial' /\ Stored' = Stored
  <1> DEFINE stale == {s \in catalog : s < jobs[j].target}
             next == [jobs[j] EXCEPT !.stale = stale, !.pc = "delete"]
  <1>1. Running(j) /\ UNCHANGED durable /\ Latest = jobs[j].target /\ jobs[j] \in JobType
    BY DEF CompactOlder, Running, Serial, JobSound, Inv1, TypeOK, JobsOK
  <1>2. CASE Settle(j, TRUE)
    BY <1>1, <1>2, SettleSerial
  <1>3. CASE Step(j, next)
    <2>1. AtMostOne' /\ jobs'[j] = next /\ \A i \in Jobs \ {j} : JobSound(i)'
      BY <1>1, <1>3, OneRuns DEF Step, Inv1, Serial
    <2>2. JobSound(j)'
      BY <1>1, <2>1, SameDurable DEF JobSound, JobType
    <2> QED  BY <1>1, <2>1, <2>2, SameDurable DEF Serial
  <1> QED  BY <1>2, <1>3 DEF CompactOlder, Older

\* A collected snapshot is older than the newest one.
LEMMA StaleIsOlder ==
    ASSUME Inv1, Serial, NEW j \in Jobs, jobs[j].pc \in {"delete", "forget"}
    PROVE  /\ Latest = jobs[j].target /\ Latest \in Nat /\ Latest # 0
           /\ Min(jobs[j].stale) < Latest /\ Min(jobs[j].stale) # Latest
  <1>1. /\ jobs[j].stale \in SUBSET Nat /\ jobs[j].stale # {} /\ jobs[j].target \in Nat
        /\ \A s \in jobs[j].stale : s < jobs[j].target
        /\ Latest = jobs[j].target
    BY DEF Inv1, TypeOK, JobsOK, JobType, Ordered, JobOrdered, Serial, JobSound
  <1>2. Min(jobs[j].stale) \in jobs[j].stale
    BY <1>1, MinIsLeast
  <1> QED  BY <1>1, <1>2

LEMMA DeleteSerial ==
    ASSUME Inv1, Serial, [Next]_vars, NEW j \in Jobs, CompactDelete(j)
    PROVE  Serial' /\ Stored' = Stored
  <1> DEFINE m == Min(jobs[j].stale)
  <1>1. Running(j) /\ jobs[j] \in JobType
        /\ Latest = jobs[j].target /\ Latest # 0 /\ m # Latest
    BY StaleIsOlder DEF CompactDelete, Running, Inv1, TypeOK, JobsOK
  <1>2. AtMostOne' /\ jobs'[j] = [jobs[j] EXCEPT !.pc = "forget"]
        /\ \A i \in Jobs \ {j} : JobSound(i)'
    BY <1>1, OneRuns DEF CompactDelete, Step, Inv1, Serial
  <1>3. /\ log' = log /\ catalog' = catalog /\ Latest' = Latest
        /\ DOMAIN objects' = DOMAIN objects \ {m}
        /\ \A k \in DOMAIN objects' : objects'[k] = objects[k]
    BY DEF CompactDelete, Latest, Restrict
  <1>4. Latest \in DOMAIN objects'
    BY <1>1, <1>3 DEF Inv1, Backed, LatestIsReadable
  <1>5. Stored' = Stored
    <2>1. StoredGood /\ StoredGood'
      BY DurableStep
    <2>2. BytesOf(Latest)' = BytesOf(Latest)
      BY <1>3, <1>4 DEF BytesOf
    <2> QED  BY <1>3, <2>1, <2>2 DEF StoredGood
  <1>6. JobSound(j)'
    BY <1>1, <1>2, <1>3 DEF JobSound, JobType
  <1> QED  BY <1>2, <1>5, <1>6 DEF Serial

LEMMA ForgetSerial ==
    ASSUME Inv1, Serial, [Next]_vars, NEW j \in Jobs, CompactForget(j)
    PROVE  Serial' /\ Stored' = Stored
  <1> DEFINE m == Min(jobs[j].stale)
             rest == jobs[j].stale \ {m}
             next == [jobs[j] EXCEPT !.stale = rest, !.pc = "delete"]
  <1>1. Running(j) /\ jobs[j] \in JobType
        /\ Latest = jobs[j].target /\ Latest # 0 /\ m # Latest
    BY StaleIsOlder DEF CompactForget, Running, Inv1, TypeOK, JobsOK
  <1>2. log' = log /\ objects' = objects /\ catalog' = catalog \ {m}
    BY DEF CompactForget
  <1>3. Latest' = Latest
    <2>1. LatestGood /\ LatestGood'
      BY DurableStep
    <2>2. Latest \in catalog' \cup {0} /\ \A s \in catalog' : s <= Latest
      BY <1>1, <1>2, <2>1 DEF LatestGood
    <2> QED  BY <2>1, <2>2 DEF LatestGood
  <1>4. Stored' = Stored
    <2>1. StoredGood /\ StoredGood'
      BY DurableStep
    <2> QED  BY <1>2, <1>3, <2>1 DEF StoredGood, BytesOf
  <1>5. CASE Settle(j, TRUE)
    <2>1. AtMostOne' /\ jobs'[j] = IdleJob /\ \A i \in Jobs \ {j} : JobSound(i)'
      BY <1>1, <1>5, OneRuns DEF Settle, Inv1, Serial
    <2>2. JobSound(j)'
      BY <2>1 DEF JobSound, IdleJob
    <2> QED  BY <1>4, <2>1, <2>2 DEF Serial
  <1>6. CASE Step(j, next)
    <2>1. AtMostOne' /\ jobs'[j] = next /\ \A i \in Jobs \ {j} : JobSound(i)'
      BY <1>1, <1>6, OneRuns DEF Step, Inv1, Serial
    <2>2. JobSound(j)'
      BY <1>1, <1>3, <2>1 DEF JobSound, JobType
    <2> QED  BY <1>4, <2>1, <2>2 DEF Serial
  <1> QED  BY <1>5, <1>6 DEF CompactForget

\* A new row lies above whatever a running compaction reads.
LEMMA InsertSerial ==
    ASSUME Inv1, Serial, [Next]_vars, NEW u \in Updates, Insert(u),
           UNCHANGED <<catalog, objects>>
    PROVE  /\ Stored' = Stored \cup {u}
           /\ \A j \in Jobs : SameWork(j) => JobSound(j)'
  <1>1. TypeOK /\ LatestGood /\ HighWaterGood /\ StoredGood /\ StoredGood'
    BY DurableStep
  <1>2. Latest' = Latest /\ BytesOf(Latest)' = BytesOf(Latest)
    BY DEF Latest, BytesOf
  <1>3. Stored' = Stored \cup {u}
    <2> DEFINE rows(l) == {q \in l : q.seq > Latest}
               above(l) == {r.update : r \in rows(l)}
    <2>1. above(log') = above(log) \cup {u}
      <3>1. HighWater + 1 > Latest
        BY <1>1 DEF LatestGood, HighWaterGood
      <3>2. PICK row : log' = log \cup {row} /\ row.seq > Latest /\ row.update = u
        <4> WITNESS [seq |-> HighWater + 1, update |-> u]
        <4> QED  BY <3>1 DEF Insert
      <3>3. rows(log') = rows(log) \cup {row}
        BY <3>2
      <3> HIDE DEF rows
      <3> QED  BY <3>2, <3>3
    <2> QED  BY <1>1, <1>2, <2>1 DEF StoredGood
  <1>4. ASSUME NEW j \in Jobs, SameWork(j) PROVE JobSound(j)'
    <2>1. JobSound(j) /\ jobs[j].target \in Nat /\ jobs[j].target <= HighWater
      BY DEF Inv1, TypeOK, JobsOK, JobType, Ordered, SeqWasHandedOut, Serial
    <2>2. \A n : {q \in log' : n < q.seq /\ q.seq <= jobs[j].target}
                    = {q \in log : n < q.seq /\ q.seq <= jobs[j].target}
      BY <1>1, <2>1 DEF Insert, HighWaterGood
    <2>3. /\ Since(jobs[j].from, jobs[j].target)' = Since(jobs[j].from, jobs[j].target)
          /\ Since(Latest, jobs[j].target)' = Since(Latest, jobs[j].target)
      BY <1>2, <1>4, <2>2 DEF Since, SameWork
    <2>4. Gap(jobs[j].content)' <=> Gap(jobs[j].content)
      BY <1>4 DEF Gap, SameWork
    <2> QED  BY <1>2, <1>4, <2>1, <2>3, <2>4 DEF JobSound, SameWork
  <1> QED  BY <1>3, <1>4

LEMMA StartSerial ==
    ASSUME TypeOK, ~overlapped', NEW j \in Jobs, NEW s, NEW onClose, StartJob(j, s, onClose)
    PROVE  AtMostOne' /\ \A i \in Jobs : JobSound(i)'
  <1>1. \A i \in Jobs \ {j} : jobs'[i].pc = "idle"
    BY DEF StartJob, Running, TypeOK, JobsOK
  <1>2. jobs'[j].pc = "latest"
    BY DEF StartJob, TypeOK, JobsOK, IdleJob
  <1> QED  BY <1>1, <1>2 DEF AtMostOne, Running, JobSound

\* No step of a compaction changes what is stored.
LEMMA CompactStored ==
    ASSUME Inv1, Serial, [Next]_vars, NEW j \in Jobs, Compact(j) \/ CompactFails(j)
    PROVE  Serial' /\ Stored' = Stored
  <1>1. CASE CompactFails(j)
    BY <1>1, SettleSerial DEF CompactFails
  <1>2. CASE Compact(j)
    BY <1>2, LatestSerial, SinceSerial, BaseSerial, PutSerial, CheckSerial,
       RecordSerial, PruneSerial, OlderSerial, DeleteSerial, ForgetSerial DEF Compact
  <1> QED  BY <1>1, <1>2

\* An overlap of compactions is never forgotten.
LEMMA OverlapStays ==
    ASSUME [Next]_vars, ~overlapped', Inv2
    PROVE  ~overlapped /\ Serial
  <1>1. ~overlapped
    BY DEF Next, BeginLoad, Load, LoadLatest, LoadGet, LoadSince, OpenRoom, LoadFails,
           Session, Join, Leave, Receive, AppendReturns, AppendOk, AppendFails,
           StartJob, Compact, CompactLatest, CompactSince, CompactBase, CompactPut,
           CompactCheck, CompactRecord, CompactPrune, CompactOlder, CompactDelete,
           CompactForget, CompactFails, Evict, Closing, BeginClose, CloseFold,
           CloseRelease, Release, Crash, history, vars
  <1> QED  BY <1>1 DEF Inv2

-----------------------------------------------------------------------------
\* What a step of the board is to its clients: nothing, or one update stored.
Visible ==
    \/ Stored' = Stored /\ acked' = acked
    \/ \E u \in Updates : Stored' = Stored \cup {u} /\ acked' \in {acked, acked \cup {u}}

LEMMA SerialStep ==
    Inv1 /\ Inv2 /\ [Next]_vars /\ ~overlapped' => Serial' /\ Visible
  <1> SUFFICES ASSUME Inv1, Inv2, [Next]_vars, ~overlapped' PROVE Serial' /\ Visible
    OBVIOUS
  <1>a. TypeOK /\ jobs \in [Jobs -> JobType]
    BY DEF Inv1, TypeOK, JobsOK
  <1>b. Serial
    BY OverlapStays
  <1>c. ASSUME UNCHANGED durable, UNCHANGED acked,
               \A j \in Jobs : SameWork(j)
        PROVE  Serial' /\ Visible
    <2>1. AtMostOne'
      BY <1>b, <1>c DEF Serial, AtMostOne, Running, SameWork
    <2> QED  BY <1>b, <1>c, <2>1, SameDurable DEF Serial, Visible
  <1>1. CASE \/ BeginLoad \/ Load \/ LoadFails \/ Session \/ BeginClose \/ UNCHANGED vars
    <2>1. UNCHANGED durable /\ UNCHANGED acked /\ UNCHANGED jobs
      BY <1>1 DEF BeginLoad, Load, LoadLatest, LoadGet, LoadSince, OpenRoom, LoadFails,
                  Session, Join, Leave, Receive, BeginClose, vars, durable, history
    <2> QED  BY <1>c, <2>1 DEF SameWork
  <1>2. ASSUME NEW u \in Updates, Insert(u), UNCHANGED <<catalog, objects>>,
               acked' \in {acked, acked \cup {u}},
               \/ UNCHANGED jobs
               \/ \E j \in Jobs : \E s, oc : StartJob(j, s, oc)
        PROVE  Serial' /\ Visible
    <2>1. Stored' = Stored \cup {u}
          /\ \A j \in Jobs : SameWork(j) => JobSound(j)'
      BY <1>2, <1>b, InsertSerial
    <2>2. AtMostOne' /\ \A j \in Jobs : JobSound(j)'
      <3>1. CASE UNCHANGED jobs
        BY <1>b, <2>1, <3>1 DEF Serial, AtMostOne, Running, SameWork
      <3>2. CASE \E j \in Jobs : \E s, oc : StartJob(j, s, oc)
        BY <1>a, <3>2, StartSerial
      <3> QED  BY <1>2, <3>1, <3>2
    <2> QED  BY <1>2, <2>1, <2>2 DEF Serial, Visible
  <1>3. CASE AppendOk
    <2>1. Head(queue).update \in Updates
      BY <1>3, <1>a, DequeueTyped DEF AppendOk
    <2>2. \/ UNCHANGED jobs
          \/ \E j \in Jobs : \E s, oc : StartJob(j, s, oc)
      BY <1>3 DEF AppendOk
    <2> QED  BY <1>2, <1>3, <2>1, <2>2 DEF AppendOk
  <1>4. ASSUME NEW w \in BOOLEAN, AppendFails(w) PROVE Serial' /\ Visible
    <2>1. CASE w
      <3>1. Head(queue).update \in Updates
        BY <1>4, <1>a, DequeueTyped DEF AppendFails
      <3> QED  BY <1>2, <1>4, <2>1, <3>1 DEF AppendFails
    <2>2. CASE ~w
      BY <1>c, <1>4, <2>2 DEF AppendFails, durable, SameWork
    <2> QED  BY <2>1, <2>2
  <1>5. ASSUME NEW j \in Jobs, Compact(j) \/ CompactFails(j) PROVE Serial' /\ Visible
    <2>1. Serial' /\ Stored' = Stored
      BY <1>b, <1>5, CompactStored
    <2>2. acked' = acked
      BY <1>5 DEF Compact, CompactLatest, CompactSince, CompactBase, CompactPut,
                  CompactCheck, CompactRecord, CompactPrune, CompactOlder,
                  CompactDelete, CompactForget, CompactFails, history
    <2> QED  BY <2>1, <2>2 DEF Visible
  <1>6. CASE Release
    <2>1. \A j \in Jobs : SameWork(j)
      BY <1>a, <1>6 DEF Release, JobType, SameWork
    <2> QED  BY <1>c, <1>6, <2>1 DEF Release, history
  <1>7. CASE CloseFold
    <2>1. UNCHANGED durable /\ acked' = acked /\ \E j \in Jobs : StartJob(j, seq, TRUE)
      BY <1>7 DEF CloseFold
    <2>2. AtMostOne' /\ \A j \in Jobs : JobSound(j)'
      BY <1>a, <2>1, StartSerial
    <2> QED  BY <1>b, <2>1, <2>2, SameDurable DEF Serial, Visible
  <1>8. CASE Crash
    <2>1. UNCHANGED durable /\ acked' = acked /\ jobs' = [j \in Jobs |-> IdleJob]
      BY <1>8 DEF Crash, history
    <2>2. AtMostOne' /\ \A j \in Jobs : JobSound(j)'
      BY <2>1 DEF AtMostOne, Running, JobSound, IdleJob
    <2> QED  BY <1>b, <2>1, <2>2, SameDurable DEF Serial, Visible
  <1> QED
    BY <1>1, <1>3, <1>4, <1>5, <1>6, <1>7, <1>8
       DEF Next, AppendReturns, Closing, Evict, CloseRelease

LEMMA Inv2Step == Inv1 /\ Inv2 /\ [Next]_vars => Inv2'
  BY SerialStep DEF Inv2

\* Only an overlap of two compactions of the board takes the serial invariant away.
LEMMA InvHolds == Spec => [](Inv1 /\ Inv2)
  BY InitInv1, InitInv2, Inv1Step, Inv2Step, PTL DEF Spec

\* The acknowledged updates are stored: inductive together with Inv1 and Inv2.
LEMMA AckedStep == Inv1 /\ Inv2 /\ AckedIsStored /\ [Next]_vars => AckedIsStored'
  <1> SUFFICES ASSUME Inv1, Inv2, AckedIsStored, [Next]_vars, ~overlapped'
               PROVE  acked' \subseteq Stored'
    BY DEF AckedIsStored
  <1>1. Visible
    BY SerialStep
  <1>2. acked \subseteq Stored
    BY OverlapStays DEF AckedIsStored
  <1> QED  BY <1>1, <1>2 DEF Visible

\* ADR-009: what was announced as saved is found by every later load, for any
\* number of updates, rows, crashes, failed uploads and half-finished compactions.
THEOREM SavedIsStored == Spec => []AckedIsStored
  <1>1. Init => AckedIsStored
    BY DEF Init, AckedIsStored
  <1> QED  BY InvHolds, AckedStep, <1>1, PTL DEF Spec

\* With compactions one at a time, persistence implements the board that only
\* ever stores: log, snapshots, pruning and crashes cannot be seen from outside.
THEOREM ImplementsDurableBoard == SerialSpec => ImplementsDurable
  <1>1. Init => Durable!Init
    <2> SUFFICES ASSUME Init PROVE Stored = {} /\ acked = {}
      BY DEF Durable!Init
    <2>1. LatestGood /\ StoredGood
      BY InitInv1, Inv1Durable, LatestLemma, StoredLemma
    <2>2. Latest = 0 /\ log = {}
      BY <2>1 DEF Init, LatestGood
    <2> QED  BY <2>1, <2>2 DEF Init, StoredGood, BytesOf
  <1>2. Inv1 /\ Inv2 /\ [Next /\ ~overlapped']_vars => [Durable!Next]_(Durable!vars)
    <2> SUFFICES ASSUME Inv1, Inv2, [Next /\ ~overlapped']_vars
                 PROVE  [Durable!Next]_(Durable!vars)
      OBVIOUS
    <2>1. CASE Next /\ ~overlapped'
      <3>1. Visible
        BY <2>1, SerialStep
      <3> QED  BY <3>1 DEF Visible, Durable!Next, Durable!Write, Durable!vars
    <2>2. CASE UNCHANGED vars
      BY <2>2 DEF vars, Durable!vars, Stored, Latest, HighWater, SeqsOf, BytesOf, Since
    <2> QED  BY <2>1, <2>2
  <1>3. SerialSpec => Spec
    <2>1. [Next /\ ~overlapped']_vars => [Next]_vars
      OBVIOUS
    <2> QED  BY <2>1, PTL DEF SerialSpec, Spec
  <1> QED
    BY <1>1, <1>2, <1>3, InvHolds, PTL DEF SerialSpec, ImplementsDurable, Durable!Spec
-----------------------------------------------------------------------------
\* What a room and a load have read, without overlapping compactions

\* What the rows after n hold.
Above(rows, n) == {r.update : r \in {q \in rows : q.seq > n}}

\* A load belongs to a room that is loading, and what is live to a room in memory.
HeldInv ==
    /\ (load.pc # "none") <=> phase = "loading"
    /\ \A i \in DOMAIN queue : queue[i].live => InMemory /\ queue[i].update \in doc
    /\ \A j \in Jobs : jobs[j].live => InMemory

\* A load reads only what is stored.
ReadInv ==
    ~overlapped =>
        /\ \A r \in log : r.update \in Stored
        /\ load.pc \in {"get", "since"} => load.from <= Latest
        /\ load.pc = "get" /\ load.from \in DOMAIN objects => objects[load.from] \subseteq Stored
        /\ load.content \subseteq Stored

\* In every step of a load, what it has read and will read has all that was saved.
CompleteInv ==
    ~overlapped /\ ~raced =>
        /\ load.pc = "get" => /\ load.from \in DOMAIN objects
                              /\ acked \subseteq objects[load.from] \cup Above(log, load.from)
        /\ load.pc = "since" => acked \subseteq load.content \cup Above(log, load.from)
        /\ load.pc = "seq" => acked \subseteq load.content
        /\ InMemory => acked \subseteq doc

\* An update is stored after those it refers to, or waits behind them.
ClosedInv ==
    ~overlapped /\ ~dropped =>
        /\ ~Gap(Stored)
        /\ \A i \in DOMAIN queue : \A d \in Deps[queue[i].update] :
               d \in Stored \/ \E k \in 1 .. (i - 1) : queue[k].update = d
        /\ InMemory => \A u \in doc : u \in Stored \/ \E k \in DOMAIN queue : queue[k].update = u

LEMMA Dequeued ==
    ASSUME TypeOK, queue # <<>>, Dequeue
    PROVE  /\ 1 \in DOMAIN queue /\ Head(queue) = queue[1] /\ Head(queue) \in Entry
           /\ \A i \in DOMAIN queue' : /\ i + 1 \in DOMAIN queue /\ queue'[i] = queue[i + 1]
                                       /\ i \in Nat \ {0}
           /\ \A i \in DOMAIN queue : /\ i \in Nat \ {0}
                                      /\ i # 1 => i - 1 \in DOMAIN queue' /\ queue'[i - 1] = queue[i]
  <1>1. queue \in Seq(Entry) /\ queue' = Tail(queue)
    BY DEF TypeOK, RoomOK, Dequeue
  <1>2. /\ Head(queue) \in Entry /\ Tail(queue) \in Seq(Entry) /\ Len(Tail(queue)) = Len(queue) - 1
        /\ \A i \in 1 .. Len(Tail(queue)) : Tail(queue)[i] = queue[i + 1]
    BY <1>1, HeadTailProperties
  <1>3. /\ DOMAIN queue = 1 .. Len(queue) /\ DOMAIN Tail(queue) = 1 .. Len(Tail(queue))
        /\ Len(queue) \in Nat \ {0}
    BY <1>1, <1>2, LenProperties, EmptySeq
  <1>4. 1 \in DOMAIN queue /\ Head(queue) = queue[1]
    BY <1>1, <1>3
  <1>5. ASSUME NEW i \in DOMAIN queue, i # 1
        PROVE  i - 1 \in DOMAIN queue' /\ queue'[i - 1] = queue[i]
    <2>1. i - 1 \in 1 .. Len(Tail(queue)) /\ (i - 1) + 1 = i
      BY <1>2, <1>3, <1>5
    <2>2. Tail(queue)[i - 1] = queue[(i - 1) + 1]
      BY <1>2, <2>1
    <2> QED  BY <1>1, <1>3, <2>1, <2>2
  <1> QED  BY <1>1, <1>2, <1>3, <1>4, <1>5

LEMMA Enqueued ==
    ASSUME TypeOK, NEW u \in Updates, Enqueue(u)
    PROVE  /\ DOMAIN queue \subseteq DOMAIN queue'
           /\ \A i \in DOMAIN queue : queue'[i] = queue[i] /\ i \in Nat \ {0}
           /\ \A i \in DOMAIN queue' : i \in DOMAIN queue \/ i = Len(queue) + 1
           /\ DOMAIN queue = 1 .. Len(queue) /\ Len(queue) \in Nat
           /\ Len(queue) + 1 \in DOMAIN queue'
           /\ queue'[Len(queue) + 1].update = u
  <1> DEFINE e == [update |-> u, live |-> TRUE]
  <1>1. queue \in Seq(Entry) /\ e \in Entry /\ queue' = Append(queue, e)
    BY DEF TypeOK, RoomOK, Enqueue, Entry
  <1> HIDE DEF e
  <1>2. /\ Append(queue, e) \in Seq(Entry) /\ Len(Append(queue, e)) = Len(queue) + 1
        /\ \A i \in 1 .. Len(queue) : Append(queue, e)[i] = queue[i]
        /\ Append(queue, e)[Len(queue) + 1] = e
    BY <1>1, AppendProperties
  <1>3. /\ DOMAIN queue = 1 .. Len(queue) /\ DOMAIN queue' = 1 .. (Len(queue) + 1)
        /\ Len(queue) \in Nat
    BY <1>1, <1>2, LenProperties
  <1> QED  BY <1>1, <1>2, <1>3 DEF e

\* What a compaction does to the room.
LEMMA CompactRoom ==
    ASSUME TypeOK, NEW j \in Jobs, Compact(j) \/ CompactFails(j)
    PROVE  /\ UNCHANGED <<doc, queue, load, acked, dropped, overlapped>>
           /\ phase' = phase \/ (jobs[j].live /\ phase' = "folded")
           /\ \A i \in Jobs : jobs'[i].live => jobs[i].live
  <1>1. /\ UNCHANGED <<load, acked, dropped, overlapped>>
        /\ (\E ok : Settle(j, ok)) \/ (\E next : Step(j, next) /\ next.live = jobs[j].live)
    <2>1. UNCHANGED <<load, acked, dropped, overlapped>>
      BY DEF Compact, CompactLatest, CompactSince, CompactBase, CompactPut, CompactCheck,
             CompactRecord, CompactPrune, CompactOlder, CompactDelete, CompactForget,
             CompactFails, history
    <2>2. jobs[j] \in JobType
      BY DEF TypeOK, JobsOK
    <2>3. /\ \A p, c, f, s : /\ [jobs[j] EXCEPT !.pc = p].live = jobs[j].live
                             /\ [jobs[j] EXCEPT !.from = f, !.pc = p].live = jobs[j].live
                             /\ [jobs[j] EXCEPT !.content = c, !.pc = p].live = jobs[j].live
                             /\ [jobs[j] EXCEPT !.stale = s, !.pc = p].live = jobs[j].live
      BY <2>2 DEF JobType
    <2> DEFINE Settles == \E ok : Settle(j, ok)
               Steps == \E next : Step(j, next) /\ next.live = jobs[j].live
    <2>4. CompactLatest(j) \/ CompactSince(j) \/ CompactBase(j) => Settles \/ Steps
      BY <2>3 DEF CompactLatest, CompactSince, CompactBase
    <2>5. CompactPut(j) \/ CompactCheck(j) \/ CompactRecord(j) => Settles \/ Steps
      BY <2>3 DEF CompactPut, CompactCheck, CompactRecord
    <2>6. CompactPrune(j) \/ CompactOlder(j) \/ CompactDelete(j) => Settles \/ Steps
      BY <2>3 DEF CompactPrune, CompactOlder, CompactDelete
    <2>7. CompactForget(j) \/ CompactFails(j) => Settles \/ Steps
      BY <2>3 DEF CompactForget, CompactFails
    <2> QED  BY <2>1, <2>4, <2>5, <2>6, <2>7 DEF Compact
  <1>2. ASSUME NEW ok, Settle(j, ok)
        PROVE  /\ UNCHANGED <<doc, queue>>
               /\ phase' = phase \/ (jobs[j].live /\ phase' = "folded")
               /\ \A i \in Jobs : jobs'[i].live => jobs[i].live
    BY <1>2 DEF Settle, FoldedAfter, IdleJob, TypeOK, JobsOK
  <1>3. ASSUME NEW next, Step(j, next), next.live = jobs[j].live
        PROVE  /\ UNCHANGED <<doc, queue, phase>>
               /\ \A i \in Jobs : jobs'[i].live => jobs[i].live
    BY <1>3 DEF Step, room, TypeOK, JobsOK
  <1> QED  BY <1>1, <1>2, <1>3

LEMMA HeldStep == TypeOK /\ HeldInv /\ [Next]_vars => HeldInv'
  <1> SUFFICES ASSUME TypeOK, HeldInv, [Next]_vars PROVE HeldInv'
    OBVIOUS
  <1>1. CASE BeginLoad \/ Load \/ LoadFails
    <2>1. UNCHANGED <<queue, jobs>> /\ ~InMemory
      BY <1>1 DEF BeginLoad, Load, LoadLatest, LoadGet, LoadSince, OpenRoom, LoadFails, room,
                  HeldInv, InMemory
    <2>2. (load'.pc # "none") <=> phase' = "loading"
      <3>1. CASE BeginLoad
        BY <3>1 DEF BeginLoad, NoLoad
      <3>2. CASE LoadLatest \/ LoadSince
        BY <3>2 DEF LoadLatest, LoadSince, room, HeldInv, TypeOK, LoadOK
      <3>3. CASE LoadGet
        <4>1. CASE load.from \in DOMAIN objects
          BY <3>3, <4>1 DEF LoadGet, HeldInv, TypeOK, LoadOK
        <4>2. CASE load.from \notin DOMAIN objects
          BY <3>3, <4>2 DEF LoadGet, NoLoad
        <4> QED  BY <4>1, <4>2
      <3>4. CASE OpenRoom \/ LoadFails
        BY <3>4 DEF OpenRoom, LoadFails, NoLoad
      <3> QED  BY <1>1, <3>1, <3>2, <3>3, <3>4 DEF Load
    <2> QED  BY <2>1, <2>2 DEF HeldInv
  <1>2. CASE Join \/ Leave \/ BeginClose \/ UNCHANGED vars
    BY <1>2 DEF Join, Leave, BeginClose, vars, HeldInv, InMemory
  <1>3. ASSUME NEW u \in Updates, Receive(u)
        PROVE  HeldInv'
    <2>1. /\ UNCHANGED <<phase, load, jobs>> /\ InMemory /\ doc' = doc \cup {u} /\ Enqueue(u)
      BY <1>3 DEF Receive
    <2> QED  BY <2>1, Enqueued DEF HeldInv, InMemory
  <1>4. ASSUME queue # <<>>, Dequeue, UNCHANGED <<phase, load, doc>>,
               UNCHANGED jobs \/ (Head(queue).live /\ \E j \in Jobs : \E s, oc : StartJob(j, s, oc))
        PROVE  HeldInv'
    <2>1. \A j \in Jobs : jobs'[j].live => InMemory
      BY <1>4, Dequeued DEF HeldInv, StartJob, TypeOK, JobsOK
    <2> QED  BY <1>4, <2>1, Dequeued DEF HeldInv, InMemory
  <1>5. CASE AppendOk
    BY <1>4, <1>5 DEF AppendOk
  <1>6. ASSUME NEW w \in BOOLEAN, AppendFails(w) PROVE HeldInv'
    BY <1>4, <1>6 DEF AppendFails
  <1>7. ASSUME NEW j \in Jobs, Compact(j) \/ CompactFails(j) PROVE HeldInv'
    BY <1>7, CompactRoom DEF HeldInv, InMemory
  <1>8. CASE Evict \/ CloseRelease
    <2>1. /\ phase' = "closed" /\ load' = load /\ load.pc = "none"
          /\ queue' = [i \in DOMAIN queue |-> [queue[i] EXCEPT !.live = FALSE]]
          /\ jobs' = [j \in Jobs |-> [jobs[j] EXCEPT !.live = FALSE]]
      BY <1>8 DEF Evict, CloseRelease, Release, HeldInv
    <2>2. \A e \in Entry : ~[e EXCEPT !.live = FALSE].live
      BY DEF Entry
    <2>3. \A i \in DOMAIN queue : queue[i] \in Entry
      BY LenProperties, ElementOfSeq DEF TypeOK, RoomOK
    <2>4. \A j \in Jobs : ~jobs'[j].live
      BY <2>1 DEF TypeOK, JobsOK, JobType
    <2>5. \A i \in DOMAIN queue' : ~queue'[i].live
      BY <2>1, <2>2, <2>3
    <2> QED  BY <2>1, <2>4, <2>5 DEF HeldInv
  <1>9. CASE CloseFold
    <2>1. UNCHANGED <<load, queue, doc>> /\ phase = "draining" /\ phase' = "folding"
      BY <1>9 DEF CloseFold
    <2> QED  BY <2>1 DEF HeldInv, InMemory
  <1>10. CASE Crash
    <2>1. DOMAIN queue' = {}
      BY <1>10 DEF Crash
    <2> QED  BY <1>10, <2>1 DEF Crash, HeldInv, NoLoad, IdleJob
  <1> QED
    BY <1>1, <1>2, <1>3, <1>5, <1>6, <1>7, <1>8, <1>9, <1>10
       DEF Next, Session, AppendReturns, Closing

\* What a step does to the load.
LEMMA LoadKinds ==
    ASSUME [Next]_vars
    PROVE  \/ load' = load \/ load' = NoLoad
           \/ BeginLoad \/ LoadLatest \/ LoadGet \/ LoadSince
  BY DEF Next, Load, OpenRoom, LoadFails,
         Session, Join, Leave, Receive, AppendReturns, AppendOk, AppendFails,
         Compact, CompactLatest, CompactSince, CompactBase, CompactPut,
         CompactCheck, CompactRecord, CompactPrune, CompactOlder, CompactDelete,
         CompactForget, CompactFails, Evict, Closing, BeginClose, CloseFold,
         CloseRelease, Release, Crash, vars

\* A put goes above the newest snapshot.
LEMMA PutAbove ==
    ASSUME Inv1, Serial, NEW j \in Jobs, CompactPut(j)
    PROVE  /\ log' = log /\ catalog' = catalog /\ load' = load
           /\ DOMAIN objects \subseteq DOMAIN objects'
           /\ \A s \in DOMAIN objects' : s <= Latest => s \in DOMAIN objects /\ objects'[s] = objects[s]
           /\ \A s \in DOMAIN objects : s <= Latest => objects'[s] = objects[s]
  <1> DEFINE T == jobs[j].target
  <1>1. jobs[j].from = Latest /\ Latest < T /\ jobs[j] \in JobType
    BY DEF CompactPut, Inv1, Ordered, JobOrdered, Serial, JobSound, TypeOK, JobsOK
  <1>2. PICK bytes : objects' = [k \in DOMAIN objects \cup {T} |->
                                     IF k = T THEN bytes ELSE objects[k]]
    BY DEF CompactPut
  <1>3. Latest \in Nat /\ T \in Nat /\ DOMAIN objects \in SUBSET Nat
    BY <1>1, Inv1Durable, LatestLemma DEF LatestGood, JobType, Inv1, TypeOK, DurableOK
  <1>4. \A s \in DOMAIN objects \cup {T} : s <= Latest => s # T
    BY <1>1, <1>3
  <1> QED  BY <1>2, <1>4 DEF CompactPut

\* The newest snapshot only moves up, and those up to it are not rewritten.
LEMMA SnapshotsStep ==
    ASSUME Inv1, Serial, [Next]_vars
    PROVE  /\ Latest <= Latest' /\ Latest \in Nat /\ Latest' \in Nat
           /\ \A s \in DOMAIN objects' : s <= Latest => s \in DOMAIN objects /\ objects'[s] = objects[s]
  <1>1. TypeOK /\ TypeOK' /\ LatestGood /\ LatestGood'
    BY DurableStep
  <1>2. Latest <= Latest'
    <2>1. Latest = 0 \/ \E s \in catalog : Latest <= s
      BY <1>1 DEF LatestGood
    <2>2. Latest = 0 \/ \E s \in catalog' : Latest <= s
      BY <1>1, <2>1, NumbersLemma DEF NumbersStep, LatestGood
    <2> QED  BY <1>1, <2>2 DEF LatestGood, TypeOK, DurableOK
  <1>3. ASSUME UNCHANGED objects \/ \E j \in Jobs : CompactPut(j) \/ CompactDelete(j)
        PROVE  \A s \in DOMAIN objects' : s <= Latest => s \in DOMAIN objects /\ objects'[s] = objects[s]
    BY <1>3, PutAbove DEF CompactDelete, Restrict
  <1>4. UNCHANGED objects \/ \E j \in Jobs : CompactPut(j) \/ CompactDelete(j)
    BY <1>1, DurableKinds DEF durable, CompactRecord, CompactPrune, CompactForget
  <1> QED  BY <1>1, <1>2, <1>3, <1>4 DEF LatestGood

\* A row is one that was there, or is stored now.
LEMMA RowsStep ==
    ASSUME Inv1, Serial, [Next]_vars
    PROVE  \A r \in log' : r \in log \/ r.update \in Stored'
  <1>1. CASE Insert(Head(queue).update) /\ Head(queue).update \in Updates
             /\ UNCHANGED <<catalog, objects>>
    BY <1>1, InsertSerial DEF Insert
  <1>2. CASE UNCHANGED durable
    BY <1>2 DEF durable
  <1>3. ASSUME NEW j \in Jobs,
               \/ CompactPut(j) \/ CompactRecord(j) \/ CompactPrune(j)
               \/ CompactDelete(j) \/ CompactForget(j)
        PROVE  log' \subseteq log
    BY <1>3 DEF CompactPut, CompactRecord, CompactPrune, CompactDelete, CompactForget,
                KeptAfterPrune
  <1> QED  BY <1>1, <1>2, <1>3, DurableKinds DEF Inv1

LEMMA ReadStep == Inv1 /\ Inv2 /\ ReadInv /\ [Next]_vars => ReadInv'
  <1> SUFFICES ASSUME Inv1, Inv2, ReadInv, [Next]_vars, ~overlapped'
               PROVE  /\ \A r \in log' : r.update \in Stored'
                      /\ load'.pc \in {"get", "since"} => load'.from <= Latest'
                      /\ load'.pc = "get" /\ load'.from \in DOMAIN objects'
                            => objects'[load'.from] \subseteq Stored'
                      /\ load'.content \subseteq Stored'
    BY DEF ReadInv
  <1>1. ~overlapped /\ Serial
    BY OverlapStays
  <1>2. Stored \subseteq Stored'
    BY SerialStep DEF Visible
  <1>3. \A r \in log' : r.update \in Stored'
    BY <1>1, <1>2, RowsStep DEF ReadInv
  <1>4. Latest <= Latest' /\ Latest \in Nat /\ Latest' \in Nat /\ load.from \in Nat
    BY <1>1, SnapshotsStep DEF Inv1, TypeOK, LoadOK
  <1>5. CASE load' = load
    <2>1. load.pc \in {"get", "since"} => load.from <= Latest'
      BY <1>1, <1>4 DEF ReadInv
    <2>2. ASSUME load.pc = "get", load.from \in DOMAIN objects'
          PROVE  objects'[load.from] \subseteq Stored'
      BY <1>1, <1>2, <2>2, SnapshotsStep DEF ReadInv
    <2> QED  BY <1>1, <1>2, <1>3, <1>5, <2>1, <2>2 DEF ReadInv
  <1>6. CASE load' = NoLoad \/ BeginLoad
    <2>1. load'.pc \notin {"get", "since"} /\ load'.content = {}
      BY <1>6 DEF NoLoad, BeginLoad
    <2> QED  BY <1>3, <2>1
  <1>7. CASE LoadLatest
    <2>1. UNCHANGED durable /\ Latest' = Latest /\ Stored' = Stored
      BY <1>7, SameDurable DEF LoadLatest
    <2>2. load'.from = Latest /\ load'.content = load.content
      BY <1>7 DEF LoadLatest, Inv1, TypeOK, LoadOK
    <2>3. Latest \in DOMAIN objects => objects[Latest] \subseteq Stored
      BY DEF Inv1, TypeOK, DurableOK, Stored, BytesOf
    <2> QED  BY <1>1, <1>3, <1>4, <2>1, <2>2, <2>3 DEF ReadInv, durable
  <1>8. CASE LoadGet
    <2>1. UNCHANGED durable /\ Latest' = Latest /\ Stored' = Stored /\ load.pc = "get"
      BY <1>8, SameDurable DEF LoadGet
    <2>2. CASE load' = NoLoad
      BY <1>6, <2>2
    <2>3. CASE load.from \in DOMAIN objects
      <3>1. load'.from = load.from /\ load'.pc = "since" /\ load'.content = objects[load.from]
        BY <1>8, <2>3 DEF LoadGet, Inv1, TypeOK, LoadOK
      <3> QED  BY <1>1, <1>3, <2>1, <2>3, <3>1 DEF ReadInv
    <2> QED  BY <1>8, <2>2, <2>3 DEF LoadGet
  <1>9. CASE LoadSince
    <2>1. UNCHANGED durable /\ Stored' = Stored
      BY <1>9, SameDurable DEF LoadSince
    <2>2. load'.pc = "seq" /\ load'.content = load.content \cup Since(load.from, HighWater)
      BY <1>9 DEF LoadSince, RowsAfter, Inv1, TypeOK, LoadOK
    <2>3. Since(load.from, HighWater) \subseteq Stored
      BY <1>1 DEF ReadInv, Since
    <2> QED  BY <1>1, <1>3, <2>1, <2>2, <2>3 DEF ReadInv
  <1> QED  BY <1>5, <1>6, <1>7, <1>8, <1>9, LoadKinds

\* Outside of appends, what was announced and what a load reads stays; a room
\* that is in memory afterwards was so before, and has its document still.
LEMMA QuietKinds ==
    ASSUME TypeOK, HeldInv, [Next]_vars
    PROVE  \/ BeginLoad \/ LoadLatest \/ LoadGet \/ LoadSince \/ OpenRoom \/ AppendReturns
           \/ /\ acked' = acked /\ load' \in {load, NoLoad} /\ (InMemory' => InMemory)
              /\ InMemory' => doc \subseteq doc'
  <1>1. CASE LoadFails \/ Crash
    BY <1>1 DEF LoadFails, Crash, InMemory, history
  <1>2. CASE Session \/ UNCHANGED vars
    BY <1>2 DEF Session, Join, Leave, Receive, InMemory, history, vars
  <1>3. ASSUME NEW j \in Jobs, Compact(j) \/ CompactFails(j)
        PROVE  /\ acked' = acked /\ load' \in {load, NoLoad} /\ (InMemory' => InMemory)
               /\ InMemory' => doc \subseteq doc'
    BY <1>3, CompactRoom DEF HeldInv, InMemory
  <1>4. CASE Evict \/ Closing
    BY <1>4 DEF Evict, Closing, BeginClose, CloseFold, CloseRelease, Release, InMemory, history
  <1> QED  BY <1>1, <1>2, <1>3, <1>4 DEF Next, Load

\* A load that has not read its rows loses none of them without a race, and
\* keeps the bytes of the snapshot it chose.
LEMMA RaceSeen ==
    ASSUME Inv1, Serial, ReadInv, ~overlapped, [Next]_vars, ~raced', ~BeginLoad
    PROVE  /\ ~raced
           /\ Loading => log \subseteq log'
           /\ load.pc = "get" /\ load.from \in DOMAIN objects
                 => load.from \in DOMAIN objects' /\ objects'[load.from] = objects[load.from]
  <1>1. ~raced
    BY DEF Next, Load, LoadLatest, LoadGet, LoadSince, OpenRoom, LoadFails,
           Session, Join, Leave, Receive, AppendReturns, AppendOk, AppendFails,
           Compact, CompactLatest, CompactSince, CompactBase, CompactPut,
           CompactCheck, CompactRecord, CompactPrune, CompactOlder, CompactDelete,
           CompactForget, CompactFails, Evict, Closing, BeginClose, CloseFold,
           CloseRelease, Release, Crash, history, vars
  <1>2. ASSUME \/ UNCHANGED durable
               \/ Insert(Head(queue).update) /\ UNCHANGED <<catalog, objects>>
        PROVE  log \subseteq log' /\ objects' = objects
    BY <1>2 DEF durable, Insert
  <1>3. ASSUME NEW j \in Jobs, CompactRecord(j) \/ CompactForget(j)
        PROVE  log \subseteq log' /\ objects' = objects
    BY <1>3 DEF CompactRecord, CompactForget
  <1>4. ASSUME NEW j \in Jobs, CompactPrune(j) \/ CompactDelete(j)
        PROVE  ~Loading
    BY <1>4 DEF CompactPrune, CompactDelete
  <1>5. ASSUME NEW j \in Jobs, CompactPut(j), load.pc = "get", load.from \in DOMAIN objects
        PROVE  load.from \in DOMAIN objects' /\ objects'[load.from] = objects[load.from]
    BY <1>5, PutAbove DEF ReadInv
  <1>6. ASSUME NEW j \in Jobs, CompactPut(j) PROVE log \subseteq log'
    BY <1>6, PutAbove
  <1>7. load.pc = "get" => Loading
    BY DEF Loading
  <1>8. CASE \E j \in Jobs : \/ CompactPut(j) \/ CompactRecord(j) \/ CompactPrune(j)
                              \/ CompactDelete(j) \/ CompactForget(j)
    BY <1>1, <1>3, <1>4, <1>5, <1>6, <1>7, <1>8
  <1>9. \/ UNCHANGED durable
        \/ Insert(Head(queue).update) /\ UNCHANGED <<catalog, objects>>
        \/ \E j \in Jobs : \/ CompactPut(j) \/ CompactRecord(j) \/ CompactPrune(j)
                           \/ CompactDelete(j) \/ CompactForget(j)
    BY DurableKinds, Zenon DEF Inv1
  <1> QED  BY <1>1, <1>2, <1>8, <1>9

LEMMA CompleteStep ==
    Inv1 /\ Inv2 /\ AckedIsStored /\ HeldInv /\ ReadInv /\ CompleteInv /\ [Next]_vars
       => CompleteInv'
  <1> SUFFICES ASSUME Inv1, Inv2, AckedIsStored, HeldInv, ReadInv, CompleteInv, [Next]_vars,
                      ~overlapped', ~raced'
               PROVE  /\ load'.pc = "get" =>
                            /\ load'.from \in DOMAIN objects'
                            /\ acked' \subseteq objects'[load'.from] \cup Above(log', load'.from)
                      /\ load'.pc = "since" => acked' \subseteq load'.content \cup Above(log', load'.from)
                      /\ load'.pc = "seq" => acked' \subseteq load'.content
                      /\ InMemory' => acked' \subseteq doc'
    BY DEF CompleteInv
  <1>1. /\ ~overlapped /\ Serial /\ TypeOK /\ LatestGood /\ HighWaterGood /\ StoredGood
        /\ acked \subseteq Stored
    BY OverlapStays, DurableStep DEF AckedIsStored
  <1>2. CASE BeginLoad
    BY <1>2 DEF BeginLoad, InMemory, NoLoad
  <1>3. CASE ~BeginLoad
    <2>1. /\ ~raced
          /\ Loading => log \subseteq log'
          /\ load.pc = "get" /\ load.from \in DOMAIN objects
                => load.from \in DOMAIN objects' /\ objects'[load.from] = objects[load.from]
      BY <1>1, <1>3, RaceSeen
    <2>2. /\ load.pc = "get" => /\ load.from \in DOMAIN objects
                                /\ acked \subseteq objects[load.from] \cup Above(log, load.from)
          /\ load.pc = "since" => acked \subseteq load.content \cup Above(log, load.from)
          /\ load.pc = "seq" => acked \subseteq load.content
          /\ InMemory => acked \subseteq doc
      BY <1>1, <2>1 DEF CompleteInv
    <2>3. Loading => Above(log, load.from) \subseteq Above(log', load.from)
      BY <2>1 DEF Above
    <2>4. ASSUME load.pc # "none" PROVE ~InMemory
      BY <2>4 DEF HeldInv, InMemory
    <2>5. CASE LoadLatest
      <3>1. /\ UNCHANGED <<log, catalog, objects, acked, phase>> /\ load'.from = Latest
            /\ load'.content = load.content
            /\ load'.pc = IF catalog = {} THEN "since" ELSE "get"
        BY <1>1, <2>5 DEF LoadLatest, TypeOK, LoadOK, room, durable, history
      <3>2. ~InMemory'
        BY <2>4, <2>5, <3>1 DEF LoadLatest, InMemory
      <3>3. acked \subseteq BytesOf(Latest) \cup Above(log, Latest)
        BY <1>1 DEF StoredGood, Above
      <3>4. Above(log', load'.from) = Above(log, Latest)
        BY <3>1 DEF Above
      <3>5. CASE catalog = {}
        BY <1>1, <3>1, <3>2, <3>3, <3>4, <3>5 DEF LatestGood, BytesOf
      <3>6. CASE catalog # {}
        <4>1. Latest # 0
          <5>1. PICK s \in catalog : s \in Nat \ {0} /\ s <= Latest
            BY <1>1, <3>6 DEF LatestGood, TypeOK, DurableOK
          <5> QED  BY <1>1, <5>1 DEF LatestGood
        <4> QED
          BY <1>1, <3>1, <3>2, <3>3, <3>4, <3>6, <4>1 DEF BytesOf, Inv1, Backed, LatestIsReadable
      <3> QED  BY <3>5, <3>6
    <2>6. CASE LoadGet
      <3>1. /\ load.from \in DOMAIN objects /\ load' = [load EXCEPT !.content = objects[load.from], !.pc = "since"]
            /\ UNCHANGED <<log, acked, phase>>
        BY <2>2, <2>6 DEF LoadGet, durable, history
      <3>2. load'.pc = "since" /\ load'.from = load.from /\ load'.content = objects[load.from]
        BY <1>1, <3>1 DEF TypeOK, LoadOK
      <3>4. Above(log', load'.from) = Above(log, load.from)
        BY <3>1, <3>2 DEF Above
      <3>5. ~InMemory'
        BY <2>4, <2>6, <3>1 DEF LoadGet, InMemory
      <3> QED  BY <2>2, <2>6, <3>1, <3>2, <3>4, <3>5 DEF LoadGet
    <2>7. CASE LoadSince
      <3>1. /\ load'.pc = "seq" /\ load'.content = load.content \cup Since(load.from, HighWater)
            /\ UNCHANGED <<acked, phase>>
        BY <1>1, <2>7 DEF LoadSince, RowsAfter, TypeOK, LoadOK, room, history
      <3>2. Above(log, load.from) = Since(load.from, HighWater)
        <4>1. {q \in log : q.seq > load.from} = {q \in log : load.from < q.seq /\ q.seq <= HighWater}
          BY <1>1 DEF HighWaterGood, TypeOK, LoadOK, DurableOK
        <4> QED  BY <4>1 DEF Above, Since
      <3>3. ~InMemory'
        BY <2>4, <2>7, <3>1 DEF LoadSince, InMemory
      <3> QED  BY <2>2, <2>7, <3>1, <3>2, <3>3 DEF LoadSince
    <2>8. CASE OpenRoom
      BY <2>2, <2>8 DEF OpenRoom, NoLoad, history
    <2>9. CASE AppendReturns
      <3>1. UNCHANGED <<catalog, objects, phase, doc, load>> /\ (InMemory' <=> InMemory)
        BY <2>9 DEF AppendReturns, AppendOk, AppendFails, InMemory
      <3>2. ASSUME acked' = acked
            PROVE  /\ load'.pc = "get" =>
                         /\ load'.from \in DOMAIN objects'
                         /\ acked' \subseteq objects'[load'.from] \cup Above(log', load'.from)
                   /\ load'.pc = "since" => acked' \subseteq load'.content \cup Above(log', load'.from)
                   /\ load'.pc = "seq" => acked' \subseteq load'.content
                   /\ InMemory' => acked' \subseteq doc'
        BY <2>2, <2>3, <3>1, <3>2 DEF Loading
      <3>3. CASE AppendOk
        <4> DEFINE u == Head(queue).update
        <4>1. /\ acked' = acked \cup {u} /\ ~Late /\ Insert(u) /\ queue # <<>> /\ Dequeue
          BY <3>3 DEF AppendOk
        <4>2. load.pc \in {"get", "since"} => u \in Above(log', load.from)
          <5> SUFFICES ASSUME load.pc \in {"get", "since"} PROVE u \in Above(log', load.from)
            OBVIOUS
          <5>1. load.from <= Latest /\ load.from \in Nat
            BY <1>1 DEF ReadInv, TypeOK, LoadOK
          <5>2. HighWater + 1 > load.from
            BY <1>1, <5>1 DEF LatestGood, HighWaterGood
          <5>3. PICK r : r \in log' /\ r.seq > load.from /\ r.update = u
            <6> WITNESS [seq |-> HighWater + 1, update |-> u]
            <6> QED  BY <4>1, <5>2 DEF Insert
          <5> QED  BY <5>3 DEF Above
        <4>3. Head(queue).live => InMemory /\ u \in doc
          BY <1>1, <4>1, Dequeued DEF HeldInv
        <4>4. load.pc # "seq"
          BY <2>4, <4>1, <4>3 DEF Late
        <4>5. InMemory => u \in doc
          BY <4>1, <4>3 DEF Late
        <4> QED  BY <2>2, <2>3, <3>1, <4>1, <4>2, <4>4, <4>5 DEF Loading
      <3>4. ASSUME NEW w \in BOOLEAN, AppendFails(w) PROVE acked' = acked
        BY <3>4 DEF AppendFails
      <3> QED  BY <2>9, <3>2, <3>3, <3>4 DEF AppendReturns
    <2>10. CASE /\ acked' = acked /\ load' \in {load, NoLoad} /\ (InMemory' => InMemory)
                /\ InMemory' => doc \subseteq doc'
      <3>1. CASE load' = load
        BY <2>1, <2>2, <2>3, <2>10, <3>1 DEF Loading
      <3>2. CASE load' = NoLoad
        BY <2>2, <2>10, <3>2 DEF NoLoad
      <3> QED  BY <2>10, <3>1, <3>2
    <2> QED
      BY <1>1, <1>3, <2>5, <2>6, <2>7, <2>8, <2>9, <2>10, QuietKinds
  <1> QED  BY <1>2, <1>3

\* An append that leaves the queue without a row is a drop.
LEMMA HeadStored ==
    ASSUME Inv1, Serial, [Next]_vars, ~dropped', AppendReturns
    PROVE  /\ queue # <<>> /\ Dequeue /\ ~dropped /\ Stored' = Stored \cup {Head(queue).update}
           /\ UNCHANGED <<phase, doc>>
  <1>1. /\ queue # <<>> /\ Dequeue /\ ~dropped /\ Insert(Head(queue).update)
        /\ UNCHANGED <<catalog, objects, phase, doc>>
    BY DEF AppendReturns, AppendOk, AppendFails
  <1> QED  BY <1>1, InsertSerial, DequeueTyped DEF Inv1

LEMMA ClosedStep ==
    Inv1 /\ Inv2 /\ HeldInv /\ ReadInv /\ ClosedInv /\ [Next]_vars => ClosedInv'
  <1> DEFINE Closed == /\ ~Gap(Stored)
                       /\ \A i \in DOMAIN queue : \A d \in Deps[queue[i].update] :
                              d \in Stored \/ \E k \in 1 .. (i - 1) : queue[k].update = d
                       /\ InMemory => \A u \in doc :
                              u \in Stored \/ \E k \in DOMAIN queue : queue[k].update = u
  <1> SUFFICES ASSUME Inv1, Inv2, HeldInv, ReadInv, ClosedInv, [Next]_vars, ~overlapped', ~dropped'
               PROVE  Closed'
    BY DEF ClosedInv
  <1>1. ~overlapped /\ Serial /\ TypeOK
    BY OverlapStays DEF Inv1
  <1>2. CASE AppendReturns
    <2>1. /\ queue # <<>> /\ Dequeue /\ ~dropped /\ Stored' = Stored \cup {Head(queue).update}
          /\ phase' = phase /\ doc' = doc
      BY <1>1, <1>2, HeadStored
    <2>2. Closed
      BY <1>1, <2>1 DEF ClosedInv
    <2>3. /\ 1 \in DOMAIN queue /\ Head(queue) = queue[1]
          /\ \A i \in DOMAIN queue' : i + 1 \in DOMAIN queue /\ queue'[i] = queue[i + 1] /\ i \in Nat \ {0}
          /\ \A i \in DOMAIN queue : /\ i \in Nat \ {0}
                                     /\ i # 1 => i - 1 \in DOMAIN queue' /\ queue'[i - 1] = queue[i]
      BY <1>1, <2>1, Dequeued
    <2>4. ~Gap(Stored')
      <3>1. \A d \in Deps[queue[1].update] : d \in Stored
        BY <2>2, <2>3
      <3> QED  BY <2>1, <2>2, <2>3, <3>1 DEF Gap
    <2>5. ASSUME NEW i \in DOMAIN queue', NEW d \in Deps[queue'[i].update]
          PROVE  d \in Stored' \/ \E k \in 1 .. (i - 1) : queue'[k].update = d
      <3>1. i + 1 \in DOMAIN queue /\ d \in Deps[queue[i + 1].update] /\ i \in Nat \ {0}
        BY <2>3, <2>5
      <3>2. CASE d \in Stored
        BY <2>1, <3>2
      <3>3. ASSUME NEW k \in 1 .. ((i + 1) - 1), queue[k].update = d
            PROVE  d \in Stored' \/ \E m \in 1 .. (i - 1) : queue'[m].update = d
        <4>1. k \in DOMAIN queue
          <5>1. DOMAIN queue = 1 .. Len(queue) /\ Len(queue) \in Nat
            BY <1>1, LenProperties DEF TypeOK, RoomOK
          <5> QED  BY <3>1, <3>3, <5>1
        <4>2. CASE k = 1
          BY <2>1, <2>3, <3>3, <4>2
        <4>3. CASE k # 1
          <5>1. k - 1 \in 1 .. (i - 1) /\ queue'[k - 1].update = d
            BY <2>3, <3>1, <3>3, <4>1, <4>3
          <5> QED  BY <5>1
        <4> QED  BY <4>2, <4>3
      <3> QED  BY <2>2, <3>1, <3>2, <3>3
    <2>6. ASSUME InMemory', NEW u \in doc'
          PROVE  u \in Stored' \/ \E k \in DOMAIN queue' : queue'[k].update = u
      <3>1. u \in Stored \/ \E k \in DOMAIN queue : queue[k].update = u
        BY <2>1, <2>2, <2>6 DEF InMemory
      <3>2. ASSUME NEW k \in DOMAIN queue, queue[k].update = u
            PROVE  u \in Stored' \/ \E m \in DOMAIN queue' : queue'[m].update = u
        BY <2>1, <2>3, <3>2
      <3> QED  BY <2>1, <3>1, <3>2
    <2>7. Gap(Stored)' <=> Gap(Stored')
      BY DEF Gap
    <2> QED  BY <2>4, <2>5, <2>6, <2>7
  <1>3. ASSUME Stored' = Stored, ~dropped, DOMAIN queue' = DOMAIN queue,
               \A i \in DOMAIN queue : queue'[i].update = queue[i].update,
               InMemory' => \A u \in doc' : u \in Stored \/ (InMemory /\ u \in doc)
        PROVE  Closed'
    <2>1. Closed
      BY <1>1, <1>3 DEF ClosedInv
    <2>2. DOMAIN queue = 1 .. Len(queue) /\ Len(queue) \in Nat
      BY <1>1, LenProperties DEF TypeOK, RoomOK
    <2>3. ASSUME NEW i \in DOMAIN queue', NEW d \in Deps[queue'[i].update]
          PROVE  d \in Stored' \/ \E k \in 1 .. (i - 1) : queue'[k].update = d
      <3>1. d \in Stored \/ \E k \in 1 .. (i - 1) : queue[k].update = d
        BY <1>3, <2>1, <2>3
      <3>2. 1 .. (i - 1) \subseteq DOMAIN queue
        BY <1>3, <2>2, <2>3
      <3> QED  BY <1>3, <3>1, <3>2
    <2>4. ASSUME InMemory', NEW u \in doc'
          PROVE  u \in Stored' \/ \E k \in DOMAIN queue' : queue'[k].update = u
      BY <1>3, <2>1, <2>4
    <2>5. Gap(Stored)' <=> Gap(Stored)
      BY <1>3 DEF Gap
    <2> QED  BY <2>1, <2>3, <2>4, <2>5
  <1>4. ASSUME NEW u \in Updates, Receive(u) PROVE Closed'
    <2>1. /\ Deps[u] \subseteq doc /\ doc' = doc \cup {u} /\ Enqueue(u) /\ InMemory
          /\ ~dropped /\ UNCHANGED durable
      BY <1>4 DEF Receive, history
    <2>2. Closed /\ Stored' = Stored
      BY <1>1, <2>1, SameDurable DEF ClosedInv
    <2>3. /\ DOMAIN queue \subseteq DOMAIN queue'
          /\ \A i \in DOMAIN queue : queue'[i] = queue[i] /\ i \in Nat \ {0}
          /\ \A i \in DOMAIN queue' : i \in DOMAIN queue \/ i = Len(queue) + 1
          /\ DOMAIN queue = 1 .. Len(queue) /\ Len(queue) \in Nat
          /\ Len(queue) + 1 \in DOMAIN queue'
          /\ queue'[Len(queue) + 1].update = u
      BY <1>1, <2>1, Enqueued
    <2>4. ASSUME NEW i \in DOMAIN queue', NEW d \in Deps[queue'[i].update]
          PROVE  d \in Stored' \/ \E k \in 1 .. (i - 1) : queue'[k].update = d
      <3>1. CASE i \in DOMAIN queue
        <4>1. d \in Stored \/ \E k \in 1 .. (i - 1) : queue[k].update = d
          BY <2>2, <2>3, <2>4, <3>1
        <4>2. 1 .. (i - 1) \subseteq DOMAIN queue
          BY <2>3, <3>1
        <4> QED  BY <2>2, <2>3, <4>1, <4>2
      <3>2. CASE i = Len(queue) + 1
        <4>1. d \in Stored \/ \E k \in DOMAIN queue : queue[k].update = d
          BY <2>1, <2>2, <2>3, <2>4, <3>2
        <4>2. DOMAIN queue = 1 .. (i - 1)
          BY <2>3, <3>2
        <4> QED  BY <2>2, <2>3, <4>1, <4>2
      <3> QED  BY <2>3, <2>4, <3>1, <3>2
    <2>5. ASSUME NEW v \in doc'
          PROVE  v \in Stored' \/ \E k \in DOMAIN queue' : queue'[k].update = v
      <3>1. CASE v = u
        BY <2>3, <3>1
      <3>2. CASE v \in doc
        <4>1. v \in Stored \/ \E k \in DOMAIN queue : queue[k].update = v
          BY <2>1, <2>2, <3>2
        <4> QED  BY <2>2, <2>3, <4>1
      <3> QED  BY <2>1, <2>5, <3>1, <3>2
    <2>6. Gap(Stored)' <=> Gap(Stored)
      BY <2>2 DEF Gap
    <2> QED  BY <2>2, <2>4, <2>5, <2>6
  <1>5. CASE BeginLoad \/ Load \/ LoadFails
    <2>1. UNCHANGED <<durable, dropped, queue>>
      BY <1>5 DEF BeginLoad, Load, LoadLatest, LoadGet, LoadSince, OpenRoom, LoadFails,
                  room, history
    <2>2. InMemory' => \A u \in doc' : u \in Stored \/ (InMemory /\ u \in doc)
      BY <1>1, <1>5 DEF BeginLoad, Load, LoadLatest, LoadGet, LoadSince, OpenRoom, LoadFails,
                  room, InMemory, ReadInv
    <2> QED  BY <1>3, <2>1, <2>2, SameDurable
  <1>6. CASE Join \/ Leave \/ BeginClose \/ CloseFold \/ UNCHANGED vars
    <2>1. UNCHANGED <<durable, dropped, queue, doc>> /\ (InMemory' => InMemory)
      BY <1>6 DEF Join, Leave, BeginClose, CloseFold, durable, history, vars, InMemory
    <2> QED  BY <1>3, <2>1, SameDurable
  <1>7. ASSUME NEW j \in Jobs, Compact(j) \/ CompactFails(j) PROVE Closed'
    <2>1. UNCHANGED <<doc, queue, dropped>> /\ (InMemory' => InMemory)
      BY <1>1, <1>7, CompactRoom DEF HeldInv, InMemory
    <2>2. Stored' = Stored
      BY <1>1, <1>7, CompactStored
    <2> QED  BY <1>3, <2>1, <2>2
  <1>8. CASE Evict \/ CloseRelease
    <2>1. /\ UNCHANGED <<durable, dropped>> /\ ~InMemory'
          /\ queue' = [i \in DOMAIN queue |-> [queue[i] EXCEPT !.live = FALSE]]
      BY <1>8 DEF Evict, CloseRelease, Release, InMemory, history
    <2>2. \A i \in DOMAIN queue : queue[i] \in Entry
      BY <1>1, LenProperties, ElementOfSeq DEF TypeOK, RoomOK
    <2>3. \A i \in DOMAIN queue : queue'[i].update = queue[i].update
      BY <2>1, <2>2 DEF Entry
    <2> QED  BY <1>3, <2>1, <2>3, SameDurable
  <1>9. CASE Crash
    <2>1. UNCHANGED <<durable, dropped>> /\ ~InMemory' /\ DOMAIN queue' = {}
      BY <1>9 DEF Crash, InMemory, history
    <2>2. Stored' = Stored /\ ~Gap(Stored)
      BY <1>1, <2>1, SameDurable DEF ClosedInv
    <2> QED  BY <2>1, <2>2 DEF Gap
  <1> QED
    BY <1>2, <1>4, <1>5, <1>6, <1>7, <1>8, <1>9 DEF Next, Session, Closing

-----------------------------------------------------------------------------
LEMMA RoomInvHolds == Spec => [](HeldInv /\ ReadInv /\ CompleteInv /\ ClosedInv)
  <1>1. Init => HeldInv /\ CompleteInv
    BY DEF Init, HeldInv, CompleteInv, NoLoad, IdleJob, InMemory
  <1>2. Init => ReadInv /\ ClosedInv
    <2> SUFFICES ASSUME Init PROVE ReadInv /\ ClosedInv
      OBVIOUS
    <2>1. LatestGood /\ StoredGood
      BY InitInv1, Inv1Durable, LatestLemma, StoredLemma
    <2>2. Stored = {}
      BY <2>1 DEF Init, LatestGood, StoredGood, BytesOf
    <2> QED  BY <2>2 DEF Init, ReadInv, ClosedInv, NoLoad, Gap, InMemory
  <1>3. Inv1 /\ HeldInv /\ [Next]_vars => HeldInv'
    BY HeldStep DEF Inv1
  <1> QED
    BY <1>1, <1>2, <1>3, ReadStep, CompleteStep, ClosedStep, InvHolds, SavedIsStored, PTL
       DEF Spec

\* A room serves all that was announced as saved: while a board is loaded
\* nothing saved slips between the snapshot, the rows and the document, unless
\* a room released before is still at work on the board.
THEOREM RoomServesSaved == Spec => []RoomIsComplete
  <1>1. CompleteInv => RoomIsComplete
    BY DEF CompleteInv, RoomIsComplete
  <1> QED  BY RoomInvHolds, <1>1, PTL

\* The serial queue of appends keeps what is stored causally closed, through
\* evictions with appends in flight, crashes and lost answers.
THEOREM GapsComeFromDrops == Spec => []GapOnlyAfterDrop
  <1>1. ClosedInv => GapOnlyAfterDrop
    BY DEF ClosedInv, GapOnlyAfterDrop
  <1> QED  BY RoomInvHolds, <1>1, PTL
=============================================================================
