---------------------- MODULE BoardPersistenceProofs ----------------------
EXTENDS BoardPersistenceLemmas

-----------------------------------------------------------------------------
(* Part 1: what holds of every behaviour, overlapping compactions included *)

\* Before its commit a compaction extends the snapshot it started from; after
\* it, a snapshot at least as new is recorded, and what it calls stale is older.
JobOrdered(j) ==
    /\ jobs[j].pc \in {"since", "base", "put", "check", "record"}
          => jobs[j].from < jobs[j].target
    /\ jobs[j].pc \in {"prune", "older", "delete", "forget"}
          => \E s \in catalog : jobs[j].target <= s
    /\ jobs[j].pc \in {"delete", "forget"}
          => /\ jobs[j].stale # {}
             /\ \A s \in jobs[j].stale : s < jobs[j].target

Ordered ==
    /\ Bounded(catalog)
    /\ Bounded(SeqsOf(log))
    /\ SeqWasHandedOut
    /\ awaiting <= Len(queue)
    /\ \A j \in Jobs : JobOrdered(j)

\* A compaction that has rebuilt the document goes on only without a gap, and
\* what it put is there unless a newer snapshot is recorded already.
JobBacked(j) ==
    /\ jobs[j].pc \in {"put", "check", "record"} => ~Gap(jobs[j].content)
    /\ jobs[j].pc \in {"check", "record"}
          => jobs[j].target \in DOMAIN objects \/ \E s \in catalog : jobs[j].target < s

Backed ==
    /\ LatestIsReadable
    /\ \A k \in DOMAIN objects : ~Gap(objects[k])
    /\ \A j \in Jobs : JobBacked(j)

Inv1 == TypeOK /\ Ordered /\ Backed

LEMMA Inv1Durable == Inv1 => DurableType
  BY DEF Inv1, TypeOK, DurableOK, Ordered, DurableType

LEMMA IdleJobTyped == IdleJob \in JobType
  BY DEF IdleJob, JobType, JobSteps

LEMMA InitTyped == Init => TypeOK
  <1> SUFFICES ASSUME Init PROVE TypeOK
    OBVIOUS
  <1>1. DurableOK
    BY DEF Init, DurableOK
  <1>2. RoomOK
    BY EmptySeq DEF Init, RoomOK, Phases
  <1>3. LoadOK
    BY DEF Init, LoadOK, NoLoad
  <1>4. JobsOK
    BY IdleJobTyped DEF Init, JobsOK
  <1>5. HistoryOK
    BY DEF Init, HistoryOK
  <1> QED  BY <1>1, <1>2, <1>3, <1>4, <1>5 DEF TypeOK

LEMMA InitInv1 == Init => Inv1
  <1> SUFFICES ASSUME Init PROVE Inv1
    OBVIOUS
  <1>1. TypeOK
    BY InitTyped
  <1>2. Bounded(catalog) /\ Bounded(SeqsOf(log))
    BY DEF Init, Bounded, SeqsOf
  <1>3. HighWater \in Nat
    BY <1>1, <1>2, HighWaterLemma DEF TypeOK, DurableOK, DurableType, HighWaterGood
  <1>4. SeqWasHandedOut
    BY <1>3 DEF Init, SeqWasHandedOut, IdleJob
  <1>5. awaiting <= Len(queue)
    BY DEF Init
  <1>6. Ordered
    BY <1>2, <1>4, <1>5 DEF Init, Ordered, JobOrdered, IdleJob
  <1>7. Backed
    <2>1. Latest = 0
      BY <1>1, <1>2, LatestLemma DEF TypeOK, DurableOK, DurableType, LatestGood, Init
    <2> QED  BY <2>1 DEF Init, Backed, LatestIsReadable, JobBacked, IdleJob
  <1> QED  BY <1>1, <1>6, <1>7 DEF Inv1

\* A compaction that goes on, or ends, leaves room and jobs well typed.
LEMMA StepTyped ==
    ASSUME TypeOK, NEW j \in Jobs, NEW next \in JobType, Step(j, next)
    PROVE  RoomOK' /\ JobsOK'
  <1>1. JobsOK'
    BY DEF Step, TypeOK, JobsOK
  <1>2. RoomOK'
    BY DEF Step, TypeOK, RoomOK, room
  <1> QED  BY <1>1, <1>2

LEMMA SettleTyped ==
    ASSUME TypeOK, NEW j \in Jobs, NEW ok \in BOOLEAN, Settle(j, ok)
    PROVE  RoomOK' /\ JobsOK'
  <1>1. JobsOK'
    BY IdleJobTyped DEF Settle, TypeOK, JobsOK
  <1>2. jobs[j].target \in Nat /\ jobs[j].live \in BOOLEAN /\ jobs[j].onClose \in BOOLEAN
    BY DEF TypeOK, JobsOK, JobType
  <1>3. RoomOK'
    BY <1>2 DEF Settle, Mine, CompactingAfter, FoldedAfter, TypeOK, RoomOK, Phases
  <1> QED  BY <1>1, <1>3

LEMMA StartTyped ==
    ASSUME TypeOK, NEW j \in Jobs, NEW target \in Nat, NEW onClose \in BOOLEAN,
           StartJob(j, target, onClose)
    PROVE  JobsOK' /\ overlapped' \in BOOLEAN
  <1>1. [IdleJob EXCEPT !.pc = "latest", !.target = target,
                        !.live = TRUE, !.onClose = onClose] \in JobType
    BY DEF IdleJob, JobType, JobSteps
  <1>2. JobsOK'
    BY <1>1 DEF StartJob, TypeOK, JobsOK
  <1>3. overlapped' \in BOOLEAN
    BY DEF StartJob, TypeOK, HistoryOK
  <1> QED  BY <1>2, <1>3

LEMMA ReleaseTyped ==
    ASSUME TypeOK, Release
    PROVE  TypeOK'
  <1>1. queue' \in Seq(Entry)
    <2>1. queue \in Seq(Entry)
      BY DEF TypeOK, RoomOK
    <2>2. Len(queue) \in Nat /\ DOMAIN queue = 1..Len(queue)
      BY <2>1, LenProperties
    <2>3. \A i \in 1..Len(queue) : [queue[i] EXCEPT !.live = FALSE] \in Entry
      <3>1. \A e \in Entry : [e EXCEPT !.live = FALSE] \in Entry
        BY DEF Entry
      <3> QED  BY <2>1, <3>1, ElementOfSeq
    <2>4. queue' \in [1..Len(queue) -> Entry]
      BY <2>2, <2>3 DEF Release
    <2> QED  BY <2>2, <2>4, SeqDef
  <1>2. RoomOK'
    BY <1>1 DEF Release, RoomOK, Phases
  <1>3. JobsOK'
    BY DEF Release, TypeOK, JobsOK, JobType
  <1>4. DurableOK' /\ LoadOK' /\ HistoryOK'
    BY DEF Release, TypeOK, DurableOK, LoadOK, HistoryOK, durable, history
  <1> QED  BY <1>2, <1>3, <1>4 DEF TypeOK

LEMMA DequeueTyped ==
    ASSUME TypeOK, queue # <<>>, Dequeue
    PROVE  /\ queue' \in Seq(Entry)
           /\ awaiting' \in Nat
           /\ Head(queue).update \in Updates
           /\ Head(queue).live \in BOOLEAN
  <1>1. queue \in Seq(Entry) /\ awaiting \in Nat
    BY DEF TypeOK, RoomOK
  <1>2. Head(queue) \in Entry /\ Tail(queue) \in Seq(Entry)
    BY <1>1, HeadTailProperties
  <1> QED  BY <1>1, <1>2 DEF Dequeue, Entry

LEMMA InsertTyped ==
    ASSUME TypeOK, HighWater \in Nat, NEW u \in Updates, Insert(u)
    PROVE  log' \in SUBSET [seq : Nat \ {0}, update : Updates]
  <1>1. HighWater + 1 \in Nat \ {0}
    OBVIOUS
  <1> QED  BY <1>1 DEF Insert, TypeOK, DurableOK

\* Every step leaves every variable well typed.
LEMMA TypeStep == Inv1 /\ [Next]_vars => TypeOK'
  <1> SUFFICES ASSUME Inv1, [Next]_vars PROVE TypeOK'
    OBVIOUS
  <1>a. TypeOK /\ LatestGood /\ HighWaterGood
    BY Inv1Durable, LatestLemma, HighWaterLemma DEF Inv1
  <1>b. Latest \in Nat /\ HighWater \in Nat
    BY <1>a DEF LatestGood, HighWaterGood
  <1>1. CASE BeginLoad
    BY <1>a, <1>1 DEF BeginLoad, TypeOK, DurableOK, RoomOK, LoadOK, JobsOK, HistoryOK,
                  durable, NoLoad, Phases
  <1>2. CASE Load \/ LoadFails
    <2>1. CASE LoadLatest
      BY <1>a, <1>b, <2>1 DEF LoadLatest, TypeOK, DurableOK, RoomOK, LoadOK, JobsOK,
                  HistoryOK, durable, room, history
    <2>2. CASE LoadGet
      <3>1. LoadOK'
        <4>1. CASE load.from \in DOMAIN objects
          <5>1. objects[load.from] \in SUBSET Updates
            BY <1>a, <4>1 DEF TypeOK, DurableOK
          <5> QED  BY <1>a, <2>2, <4>1, <5>1 DEF LoadGet, TypeOK, LoadOK
        <4>2. CASE load.from \notin DOMAIN objects
          BY <2>2, <4>2 DEF LoadGet, LoadOK, NoLoad
        <4> QED  BY <4>1, <4>2
      <3>2. RoomOK'
        BY <1>a, <2>2 DEF LoadGet, TypeOK, RoomOK, Phases
      <3>3. DurableOK' /\ JobsOK' /\ HistoryOK'
        BY <1>a, <2>2 DEF LoadGet, TypeOK, DurableOK, JobsOK, HistoryOK, durable, history
      <3> QED  BY <3>1, <3>2, <3>3 DEF TypeOK
    <2>3. CASE LoadSince
      <3>1. Since(load.from, HighWater) \in SUBSET Updates
        BY <1>a DEF Since, TypeOK, DurableOK
      <3> QED  BY <1>a, <2>3, <3>1 DEF LoadSince, RowsAfter, TypeOK, DurableOK, RoomOK,
                                       LoadOK, JobsOK, HistoryOK, durable, room, history
    <2>4. CASE OpenRoom
      BY <1>a, <1>b, <2>4 DEF OpenRoom, TypeOK, DurableOK, RoomOK, LoadOK, JobsOK,
                  HistoryOK, durable, history, NoLoad, Phases
    <2>5. CASE LoadFails
      BY <1>a, <2>5 DEF LoadFails, TypeOK, DurableOK, RoomOK, LoadOK, JobsOK,
                  HistoryOK, durable, history, NoLoad, Phases
    <2> QED  BY <1>2, <2>1, <2>2, <2>3, <2>4, <2>5 DEF Load
  <1>3. CASE Session
    <2>1. CASE Join \/ Leave
      BY <1>a, <2>1 DEF Join, Leave, TypeOK, DurableOK, RoomOK, LoadOK, JobsOK,
                  HistoryOK, durable, history
    <2>2. ASSUME NEW u \in Updates, Receive(u) PROVE TypeOK'
      <3>1. queue' \in Seq(Entry)
        BY <1>a, <2>2 DEF Receive, Enqueue, TypeOK, RoomOK, Entry
      <3> QED  BY <1>a, <2>2, <3>1 DEF Receive, TypeOK, DurableOK, RoomOK, LoadOK,
                                       JobsOK, HistoryOK, durable, history
    <2> QED  BY <1>3, <2>1, <2>2 DEF Session
  <1>4. CASE AppendOk
    <2>1. /\ queue' \in Seq(Entry) /\ awaiting' \in Nat
          /\ Head(queue).update \in Updates /\ Head(queue).live \in BOOLEAN
      BY <1>a, <1>4, DequeueTyped DEF AppendOk
    <2>2. log' \in SUBSET [seq : Nat \ {0}, update : Updates]
      BY <1>a, <1>b, <1>4, <2>1, InsertTyped DEF AppendOk
    <2>3. seq' \in Nat /\ compacting' \in BOOLEAN /\ JobsOK' /\ overlapped' \in BOOLEAN
      <3>1. CASE ~Head(queue).live
        BY <1>a, <1>4, <3>1 DEF AppendOk, TypeOK, RoomOK, JobsOK, HistoryOK
      <3>2. CASE Head(queue).live
        <4> DEFINE s == Max({seq, HighWater + 1})
        <4>1. s \in Nat
          <5>1. {seq, HighWater + 1} \in SUBSET Nat
            BY <1>a, <1>b DEF TypeOK, RoomOK
          <5>2. Bounded({seq, HighWater + 1})
            <6>1. seq + (HighWater + 1) \in Nat
                  /\ \A x \in {seq, HighWater + 1} : x <= seq + (HighWater + 1)
              BY <5>1
            <6> QED  BY <6>1 DEF Bounded
          <5> QED  BY <5>1, <5>2, MaxIsGreatest
        <4>2. seq' = s /\ \/ UNCHANGED <<compacting, jobs, overlapped>>
                          \/ compacting' = TRUE /\ \E j \in Jobs : StartJob(j, s, FALSE)
          BY <1>4, <3>2 DEF AppendOk, SeqAfterRow
        <4>3. CASE UNCHANGED <<compacting, jobs, overlapped>>
          BY <1>a, <4>1, <4>2, <4>3 DEF TypeOK, RoomOK, JobsOK, HistoryOK
        <4>4. CASE compacting' = TRUE /\ \E j \in Jobs : StartJob(j, s, FALSE)
          BY <1>a, <4>1, <4>2, <4>4, StartTyped
        <4> QED  BY <4>2, <4>3, <4>4
      <3> QED  BY <3>1, <3>2
    <2>4. acked' \in SUBSET Updates /\ raced' \in BOOLEAN /\ dropped' \in BOOLEAN
      BY <1>a, <1>4, <2>1 DEF AppendOk, Late, InMemory, TypeOK, HistoryOK
    <2>5. DurableOK' /\ LoadOK'
      BY <1>a, <1>4, <2>2 DEF AppendOk, TypeOK, DurableOK, LoadOK
    <2>6. RoomOK'
      BY <1>a, <1>4, <2>1, <2>3 DEF AppendOk, TypeOK, RoomOK
    <2> QED  BY <2>3, <2>4, <2>5, <2>6 DEF TypeOK, HistoryOK
  <1>5. ASSUME NEW w \in BOOLEAN, AppendFails(w) PROVE TypeOK'
    <2>1. /\ queue' \in Seq(Entry) /\ awaiting' \in Nat
          /\ Head(queue).update \in Updates
      BY <1>a, <1>5, DequeueTyped DEF AppendFails
    <2>2. log' \in SUBSET [seq : Nat \ {0}, update : Updates] /\ dropped' \in BOOLEAN
      <3>1. CASE w
        BY <1>a, <1>b, <1>5, <2>1, <3>1, InsertTyped DEF AppendFails, TypeOK, HistoryOK
      <3>2. CASE ~w
        BY <1>a, <1>5, <3>2 DEF AppendFails, TypeOK, DurableOK
      <3> QED  BY <3>1, <3>2
    <2> QED  BY <1>a, <1>5, <2>1, <2>2 DEF AppendFails, TypeOK, DurableOK, RoomOK, LoadOK,
                  JobsOK, HistoryOK
  <1>6. ASSUME NEW j \in Jobs, Compact(j) \/ CompactFails(j) PROVE TypeOK'
    <2>a. jobs[j] \in JobType
      BY <1>a DEF TypeOK, JobsOK
    <2>b. ASSUME NEW next \in JobType, Step(j, next) PROVE RoomOK' /\ JobsOK'
      BY <1>a, <2>b, StepTyped
    <2>c. ASSUME NEW ok \in BOOLEAN, Settle(j, ok) PROVE RoomOK' /\ JobsOK'
      BY <1>a, <2>c, SettleTyped
    <2>d. ASSUME UNCHANGED durable PROVE DurableOK'
      BY <1>a, <2>d DEF durable, TypeOK, DurableOK
    <2>e. ASSUME UNCHANGED <<load, history>> PROVE LoadOK' /\ HistoryOK'
      BY <1>a, <2>e DEF history, TypeOK, LoadOK, HistoryOK
    <2>1. CASE CompactLatest(j)
      <3>1. [jobs[j] EXCEPT !.from = Latest, !.pc = "since"] \in JobType
        BY <1>b, <2>a DEF JobType, JobSteps
      <3>2. RoomOK' /\ JobsOK'
        BY <2>1, <2>b, <2>c, <3>1 DEF CompactLatest
      <3> QED  BY <2>1, <2>d, <2>e, <3>2 DEF CompactLatest, TypeOK
    <2>2. CASE CompactSince(j)
      <3>1. Since(jobs[j].from, jobs[j].target) \in SUBSET Updates
        BY <1>a DEF Since, TypeOK, DurableOK
      <3>2. [jobs[j] EXCEPT !.content = Since(jobs[j].from, jobs[j].target),
                            !.pc = "base"] \in JobType
        BY <2>a, <3>1 DEF JobType, JobSteps
      <3>3. RoomOK' /\ JobsOK'
        BY <2>2, <2>b, <3>2 DEF CompactSince
      <3> QED  BY <2>2, <2>d, <2>e, <3>3 DEF CompactSince, TypeOK
    <2>3. CASE CompactBase(j)
      <3> DEFINE content == BytesOf(jobs[j].from) \cup jobs[j].content
      <3>1. ASSUME jobs[j].from \in DOMAIN objects \cup {0}
            PROVE  [jobs[j] EXCEPT !.content = content, !.pc = "put"] \in JobType
        <4>1. BytesOf(jobs[j].from) \in SUBSET Updates
          BY <1>a, <3>1 DEF BytesOf, TypeOK, DurableOK
        <4> QED  BY <2>a, <4>1 DEF JobType, JobSteps
      <3>2. RoomOK' /\ JobsOK'
        BY <2>3, <2>b, <2>c, <3>1 DEF CompactBase, Complete, Rebuilt
      <3> QED  BY <2>3, <2>d, <2>e, <3>2 DEF CompactBase, TypeOK
    <2>4. CASE CompactPut(j)
      <3>1. [jobs[j] EXCEPT !.pc = "check"] \in JobType
        BY <2>a DEF JobType, JobSteps
      <3>2. RoomOK' /\ JobsOK'
        BY <2>4, <2>b, <3>1 DEF CompactPut
      <3>3. jobs[j].target \in Nat \ {0} /\ jobs[j].content \in SUBSET Updates
        BY <2>4, <2>a DEF CompactPut, Inv1, Ordered, JobOrdered, JobType
      <3>4. PICK bytes \in SUBSET Updates :
                objects' = [k \in DOMAIN objects \cup {jobs[j].target} |->
                                IF k = jobs[j].target THEN bytes ELSE objects[k]]
        BY <2>4, <3>3 DEF CompactPut, Kept
      <3>5. DurableOK'
        BY <1>a, <2>4, <3>3, <3>4 DEF CompactPut, TypeOK, DurableOK
      <3> QED  BY <2>4, <2>e, <3>2, <3>5 DEF CompactPut, TypeOK
    <2>5. CASE CompactCheck(j)
      <3>1. [jobs[j] EXCEPT !.pc = "record"] \in JobType
        BY <2>a DEF JobType, JobSteps
      <3>2. RoomOK' /\ JobsOK'
        BY <2>5, <2>b, <2>c, <3>1 DEF CompactCheck
      <3> QED  BY <2>5, <2>d, <2>e, <3>2 DEF CompactCheck, TypeOK
    <2>6. CASE CompactRecord(j)
      <3>1. [jobs[j] EXCEPT !.pc = "prune"] \in JobType
        BY <2>a DEF JobType, JobSteps
      <3>2. RoomOK' /\ JobsOK'
        BY <2>6, <2>b, <3>1 DEF CompactRecord
      <3>3. jobs[j].target \in Nat \ {0}
        BY <2>6, <2>a DEF CompactRecord, Inv1, Ordered, JobOrdered, JobType
      <3>4. DurableOK'
        BY <1>a, <2>6, <3>3 DEF CompactRecord, TypeOK, DurableOK
      <3> QED  BY <2>6, <2>e, <3>2, <3>4 DEF CompactRecord, TypeOK
    <2>7. CASE CompactPrune(j)
      <3>1. [jobs[j] EXCEPT !.pc = "older"] \in JobType
        BY <2>a DEF JobType, JobSteps
      <3>2. RoomOK' /\ JobsOK'
        BY <2>7, <2>b, <3>1 DEF CompactPrune
      <3>3. DurableOK'
        BY <1>a, <2>7 DEF CompactPrune, KeptAfterPrune, TypeOK, DurableOK
      <3>4. LoadOK' /\ HistoryOK'
        BY <1>a, <2>7 DEF CompactPrune, Loading, TypeOK, LoadOK, HistoryOK
      <3> QED  BY <3>2, <3>3, <3>4 DEF TypeOK
    <2>8. CASE CompactOlder(j)
      <3> DEFINE stale == {s \in catalog : s < jobs[j].target}
      <3>1. [jobs[j] EXCEPT !.stale = stale, !.pc = "delete"] \in JobType
        <4>1. stale \in SUBSET Nat
          BY <1>a DEF TypeOK, DurableOK
        <4> QED  BY <2>a, <4>1 DEF JobType, JobSteps
      <3>2. RoomOK' /\ JobsOK'
        BY <2>8, <2>b, <2>c, <3>1 DEF CompactOlder, Older
      <3> QED  BY <2>8, <2>d, <2>e, <3>2 DEF CompactOlder, TypeOK
    <2>9. CASE CompactDelete(j)
      <3>1. [jobs[j] EXCEPT !.pc = "forget"] \in JobType
        BY <2>a DEF JobType, JobSteps
      <3>2. RoomOK' /\ JobsOK'
        BY <2>9, <2>b, <3>1 DEF CompactDelete
      <3>3. DurableOK'
        BY <1>a, <2>9 DEF CompactDelete, Restrict, TypeOK, DurableOK
      <3>4. LoadOK' /\ HistoryOK'
        BY <1>a, <2>9 DEF CompactDelete, Loading, TypeOK, LoadOK, HistoryOK
      <3> QED  BY <3>2, <3>3, <3>4 DEF TypeOK
    <2>10. CASE CompactForget(j)
      <3> DEFINE rest == jobs[j].stale \ {Min(jobs[j].stale)}
      <3>1. [jobs[j] EXCEPT !.stale = rest, !.pc = "delete"] \in JobType
        BY <2>a DEF JobType, JobSteps
      <3>2. RoomOK' /\ JobsOK'
        BY <2>10, <2>b, <2>c, <3>1 DEF CompactForget
      <3>3. DurableOK'
        BY <1>a, <2>10 DEF CompactForget, TypeOK, DurableOK
      <3> QED  BY <2>10, <2>e, <3>2, <3>3 DEF CompactForget, TypeOK
    <2>11. CASE CompactFails(j)
      <3>1. RoomOK' /\ JobsOK'
        BY <2>11, <2>c DEF CompactFails
      <3> QED  BY <2>11, <2>d, <2>e, <3>1 DEF CompactFails, TypeOK
    <2> QED  BY <1>6, <2>1, <2>2, <2>3, <2>4, <2>5, <2>6, <2>7, <2>8, <2>9, <2>10, <2>11
             DEF Compact
  <1>7. CASE Evict \/ CloseRelease
    BY <1>a, <1>7, ReleaseTyped DEF Evict, CloseRelease
  <1>8. CASE BeginClose
    <2>1. Len(queue) \in Nat
      BY <1>a, LenProperties DEF TypeOK, RoomOK
    <2> QED  BY <1>a, <1>8, <2>1 DEF BeginClose, TypeOK, DurableOK, RoomOK, LoadOK, JobsOK,
                  HistoryOK, durable, history, Phases
  <1>9. CASE CloseFold
    <2>1. JobsOK' /\ overlapped' \in BOOLEAN
      <3>1. seq \in Nat
        BY <1>a DEF TypeOK, RoomOK
      <3>2. PICK j \in Jobs : StartJob(j, seq, TRUE)
        BY <1>9 DEF CloseFold
      <3> QED  BY <1>a, <3>1, <3>2, StartTyped
    <2> QED  BY <1>a, <1>9, <2>1 DEF CloseFold, TypeOK, DurableOK, RoomOK, LoadOK,
                  HistoryOK, durable, Phases
  <1>10. CASE Crash
    <2>1. JobsOK'
      BY <1>10, IdleJobTyped DEF Crash, JobsOK
    <2>2. RoomOK'
      BY <1>10, EmptySeq DEF Crash, RoomOK, Phases
    <2>3. DurableOK' /\ LoadOK' /\ HistoryOK'
      BY <1>a, <1>10 DEF Crash, TypeOK, DurableOK, LoadOK, HistoryOK, durable, history,
                         NoLoad
    <2> QED  BY <2>1, <2>2, <2>3 DEF TypeOK
  <1>11. CASE UNCHANGED vars
    BY <1>a, <1>11 DEF vars, TypeOK, DurableOK, RoomOK, LoadOK, JobsOK, HistoryOK
  <1> QED
    BY <1>1, <1>2, <1>3, <1>4, <1>5, <1>6, <1>7, <1>8, <1>9, <1>10, <1>11
       DEF Next, AppendReturns, Closing

-----------------------------------------------------------------------------
\* What a step does to the numbers handed out: they stay bounded, the last one
\* never falls, and a number below some snapshot stays below some snapshot.
NumbersStep ==
    /\ Bounded(catalog')
    /\ Bounded(SeqsOf(log'))
    /\ HighWater' \in Nat
    /\ HighWater <= HighWater'
    /\ \A n \in Nat : (\E s \in catalog : n <= s) => (\E s \in catalog' : n <= s)

\* It is enough that the last number handed out is still there.
LEMMA KeepsHighWater ==
    ASSUME HighWaterGood, HighWaterGood', HighWater \in SeqsOf(log') \cup catalog' \cup {0}
    PROVE  HighWater' \in Nat /\ HighWater <= HighWater'
  <1>1. CASE HighWater \in SeqsOf(log')
    BY <1>1 DEF HighWaterGood, SeqsOf
  <1>2. CASE HighWater \in catalog' \cup {0}
    BY <1>2 DEF HighWaterGood
  <1> QED  BY <1>1, <1>2

LEMMA NumbersLemma == Inv1 /\ [Next]_vars => NumbersStep
  <1> SUFFICES ASSUME Inv1, [Next]_vars PROVE NumbersStep
    OBVIOUS
  <1>a. HighWaterGood /\ TypeOK /\ DurableOK'
    BY Inv1Durable, HighWaterLemma, TypeStep DEF Inv1, TypeOK
  <1>b. (DurableType => HighWaterGood)'
    BY HighWaterLemma, PTL
  <1>c. ASSUME Bounded(catalog'), Bounded(SeqsOf(log')) PROVE HighWaterGood'
    BY <1>a, <1>b, <1>c DEF DurableType, DurableOK
  <1>d. Bounded(catalog) /\ Bounded(SeqsOf(log))
    BY DEF Inv1, Ordered
  <1>1. ASSUME UNCHANGED <<log, catalog>> PROVE NumbersStep
    BY <1>a, <1>d, <1>1 DEF NumbersStep, HighWater, HighWaterGood
  <1>2. ASSUME NEW u \in Updates, Insert(u), UNCHANGED catalog PROVE NumbersStep
    <2>1. \A x \in SeqsOf(log') : x <= HighWater + 1
      BY <1>a, <1>2 DEF Insert, SeqsOf, HighWaterGood, TypeOK, DurableOK
    <2>2. Bounded(SeqsOf(log')) /\ Bounded(catalog')
      BY <1>a, <1>d, <1>2, <2>1 DEF Bounded, HighWaterGood
    <2>3. HighWaterGood'
      BY <1>c, <2>2
    <2>4. [seq |-> HighWater + 1, update |-> u] \in log'
      BY <1>2 DEF Insert
    <2>5. HighWater' \in Nat /\ HighWater + 1 <= HighWater'
      BY <2>3, <2>4 DEF HighWaterGood
    <2> QED  BY <1>a, <1>2, <2>2, <2>5 DEF NumbersStep, HighWaterGood
  <1>3. ASSUME NEW j \in Jobs, CompactRecord(j) PROVE NumbersStep
    <2>1. jobs[j].target <= HighWater /\ log' = log /\ catalog' = catalog \cup {jobs[j].target}
      BY <1>3 DEF Inv1, Ordered, SeqWasHandedOut, CompactRecord
    <2>2. Bounded(catalog') /\ Bounded(SeqsOf(log'))
      BY <1>a, <1>d, <2>1 DEF Bounded, HighWaterGood
    <2>3. HighWater \in SeqsOf(log') \cup catalog' \cup {0}
      BY <1>a, <2>1 DEF HighWaterGood
    <2>4. HighWater' \in Nat /\ HighWater <= HighWater'
      BY <1>a, <1>c, <2>2, <2>3, KeepsHighWater
    <2> QED  BY <2>1, <2>2, <2>4 DEF NumbersStep
  <1>4. ASSUME NEW j \in Jobs, CompactPrune(j) PROVE NumbersStep
    <2>1. log' = {r \in log : r.seq > jobs[j].target} /\ catalog' = catalog
      BY <1>4 DEF CompactPrune, KeptAfterPrune
    <2>2. PICK s \in catalog : jobs[j].target <= s
      BY <1>4 DEF CompactPrune, Inv1, Ordered, JobOrdered
    <2>3. Bounded(catalog') /\ Bounded(SeqsOf(log'))
      BY <1>d, <2>1 DEF Bounded, SeqsOf
    <2>4. HighWater \in SeqsOf(log') \cup catalog' \cup {0}
      <3>1. CASE HighWater \in SeqsOf(log) /\ HighWater > jobs[j].target
        <4>1. PICK r \in log : r.seq = HighWater
          BY <3>1 DEF SeqsOf
        <4> QED  BY <2>1, <3>1, <4>1 DEF SeqsOf
      <3>2. CASE HighWater <= jobs[j].target
        <4>1. s \in Nat /\ jobs[j].target \in Nat /\ s <= HighWater /\ HighWater \in Nat
          BY <1>a DEF HighWaterGood, TypeOK, DurableOK, JobsOK, JobType
        <4>2. HighWater = s
          BY <2>2, <3>2, <4>1
        <4> QED  BY <2>1, <4>2
      <3>3. CASE HighWater \in catalog \cup {0}
        BY <2>1, <3>3
      <3> QED
        BY <1>a, <3>1, <3>2, <3>3 DEF HighWaterGood, TypeOK, JobsOK, JobType
    <2>5. HighWater' \in Nat /\ HighWater <= HighWater'
      BY <1>a, <1>c, <2>3, <2>4, KeepsHighWater
    <2> QED  BY <2>1, <2>3, <2>5 DEF NumbersStep
  <1>5. ASSUME NEW j \in Jobs, CompactForget(j) PROVE NumbersStep
    <2> DEFINE m == Min(jobs[j].stale)
    <2>1. log' = log /\ catalog' = catalog \ {m}
      BY <1>5 DEF CompactForget
    <2>2. PICK s \in catalog : jobs[j].target <= s
      BY <1>5 DEF CompactForget, Inv1, Ordered, JobOrdered
    <2>3. m \in Nat /\ m < s /\ s \in Nat
      <3>1. jobs[j].stale \in SUBSET Nat /\ jobs[j].stale # {}
        BY <1>a, <1>5 DEF CompactForget, Inv1, Ordered, JobOrdered, TypeOK, JobsOK, JobType
      <3>2. m \in jobs[j].stale
        BY <3>1, MinIsLeast
      <3>3. m < jobs[j].target
        BY <1>5, <3>2 DEF CompactForget, Inv1, Ordered, JobOrdered
      <3>4. m \in Nat /\ s \in Nat /\ jobs[j].target \in Nat
        BY <1>a, <3>1, <3>2 DEF TypeOK, DurableOK, JobsOK, JobType
      <3> QED  BY <2>2, <3>3, <3>4
    <2>4. Bounded(catalog') /\ Bounded(SeqsOf(log'))
      BY <1>d, <2>1 DEF Bounded
    <2>5. HighWater # m
      BY <1>a, <2>2, <2>3 DEF HighWaterGood
    <2>6. HighWater \in SeqsOf(log') \cup catalog' \cup {0}
      BY <1>a, <2>1, <2>5 DEF HighWaterGood
    <2>7. HighWater' \in Nat /\ HighWater <= HighWater'
      BY <1>a, <1>c, <2>4, <2>6, KeepsHighWater
    <2>8. ASSUME NEW n \in Nat, NEW t \in catalog, n <= t
          PROVE  \E x \in catalog' : n <= x
      <3>1. CASE t = m
        <4>1. n <= s /\ s \in catalog'
          BY <2>1, <2>2, <2>3, <2>8, <3>1
        <4> QED  BY <4>1
      <3>2. CASE t # m
        BY <2>1, <2>8, <3>2
      <3> QED  BY <3>1, <3>2
    <2> QED  BY <2>4, <2>7, <2>8 DEF NumbersStep
  <1>6. CASE AppendReturns
    <2>1. Head(queue).update \in Updates
      BY <1>a, <1>6, DequeueTyped DEF AppendReturns, AppendOk, AppendFails
    <2>2. CASE AppendOk
      BY <1>2, <2>1, <2>2 DEF AppendOk
    <2>3. ASSUME NEW w \in BOOLEAN, AppendFails(w) PROVE NumbersStep
      BY <1>1, <1>2, <2>1, <2>3 DEF AppendFails
    <2> QED  BY <1>6, <2>2, <2>3 DEF AppendReturns
  <1>7. ASSUME NEW j \in Jobs, Compact(j) \/ CompactFails(j) PROVE NumbersStep
    BY <1>1, <1>3, <1>4, <1>5, <1>7
       DEF Compact, CompactLatest, CompactSince, CompactBase, CompactPut, CompactCheck,
           CompactOlder, CompactDelete, CompactFails, durable
  <1>8. CASE BeginLoad \/ Load \/ LoadFails
    BY <1>1, <1>8
       DEF BeginLoad, Load, LoadLatest, LoadGet, LoadSince, OpenRoom, LoadFails, durable
  <1>9. CASE Session
    BY <1>1, <1>9 DEF Session, Join, Leave, Receive, durable
  <1>10. CASE Evict \/ Closing \/ Crash
    BY <1>1, <1>10 DEF Evict, Closing, BeginClose, CloseFold, CloseRelease, Release,
                       Crash, durable
  <1>11. CASE UNCHANGED vars
    BY <1>1, <1>11 DEF vars
  <1> QED
    BY <1>6, <1>7, <1>8, <1>9, <1>10, <1>11 DEF Next

-----------------------------------------------------------------------------
\* Whatever the room calls saved, or asks a compaction to fold, was handed out.
LEMMA SeqStep == Inv1 /\ [Next]_vars => SeqWasHandedOut'
  <1> SUFFICES ASSUME Inv1, [Next]_vars PROVE SeqWasHandedOut'
    OBVIOUS
  <1>a. /\ TypeOK /\ seq \in Nat /\ seq <= HighWater
        /\ HighWater \in Nat /\ HighWater' \in Nat /\ HighWater <= HighWater'
        /\ jobs \in [Jobs -> JobType]
        /\ \A j \in Jobs : jobs[j].target \in Nat /\ jobs[j].target <= HighWater
    <2>1. HighWater \in Nat /\ NumbersStep
      BY Inv1Durable, HighWaterLemma, NumbersLemma DEF HighWaterGood
    <2> QED  BY <2>1 DEF Inv1, TypeOK, RoomOK, JobsOK, JobType, Ordered, SeqWasHandedOut,
                  NumbersStep
  <1>b. ASSUME seq' \in {seq, 0, HighWater},
               \A j \in Jobs : jobs'[j].target \in {jobs[j].target, 0}
        PROVE  SeqWasHandedOut'
    BY <1>a, <1>b DEF SeqWasHandedOut
  <1>c. ASSUME seq' \in Nat, seq' <= HighWater', NEW onClose \in BOOLEAN,
               NEW s \in Nat, s <= HighWater', NEW j \in Jobs, StartJob(j, s, onClose)
        PROVE  SeqWasHandedOut'
    BY <1>a, <1>c DEF StartJob, IdleJob, SeqWasHandedOut
  <1>1. CASE BeginLoad \/ Load \/ LoadFails \/ Session
    BY <1>b, <1>1 DEF BeginLoad, Load, LoadLatest, LoadGet, LoadSince, OpenRoom,
                      LoadFails, room, Session, Join, Leave, Receive
  <1>2. CASE AppendOk
    <2>1. Head(queue).update \in Updates
      BY <1>a, <1>2, DequeueTyped DEF AppendOk
    <2>2. HighWater + 1 <= HighWater'
      <3>1. [seq |-> HighWater + 1, update |-> Head(queue).update] \in log'
        BY <1>2 DEF AppendOk, Insert
      <3>2. HighWaterGood'
        <4>1. TypeOK' /\ NumbersStep
          BY TypeStep, NumbersLemma
        <4>2. (DurableType => HighWaterGood)'
          BY HighWaterLemma, PTL
        <4> QED  BY <4>1, <4>2 DEF TypeOK, DurableOK, NumbersStep, DurableType
      <3> QED  BY <3>1, <3>2 DEF HighWaterGood
    <2>3. CASE ~Head(queue).live
      BY <1>2, <1>b, <2>3 DEF AppendOk
    <2>4. CASE Head(queue).live
      <3> DEFINE s == Max({seq, HighWater + 1})
      <3>1. s \in {seq, HighWater + 1}
        <4>1. {seq, HighWater + 1} \in SUBSET Nat
          BY <1>a
        <4>2. Bounded({seq, HighWater + 1})
          BY <1>a DEF Bounded
        <4> QED  BY <4>1, <4>2, MaxIsGreatest
      <3>2. s \in Nat /\ s <= HighWater'
        BY <1>a, <2>2, <3>1
      <3>3. seq' = s /\ \/ UNCHANGED jobs
                        \/ \E j \in Jobs : StartJob(j, s, FALSE)
        BY <1>2, <2>4 DEF AppendOk, SeqAfterRow
      <3>4. CASE UNCHANGED jobs
        BY <1>a, <3>2, <3>3, <3>4 DEF SeqWasHandedOut
      <3>5. CASE \E j \in Jobs : StartJob(j, s, FALSE)
        BY <1>c, <3>2, <3>3, <3>5
      <3> QED  BY <3>3, <3>4, <3>5
    <2> QED  BY <2>3, <2>4
  <1>3. ASSUME NEW w \in BOOLEAN, AppendFails(w) PROVE SeqWasHandedOut'
    BY <1>b, <1>3 DEF AppendFails
  <1>4. ASSUME NEW j \in Jobs, Compact(j) \/ CompactFails(j) PROVE SeqWasHandedOut'
    <2>1. ASSUME NEW next, next.target = jobs[j].target, Step(j, next)
          PROVE  SeqWasHandedOut'
      BY <1>a, <1>b, <2>1 DEF Step, room
    <2>2. ASSUME NEW ok \in BOOLEAN, Settle(j, ok) PROVE SeqWasHandedOut'
      BY <1>a, <1>b, <2>2 DEF Settle, IdleJob
    <2>3. jobs[j] \in JobType
      BY <1>a
    <2> QED  BY <1>4, <2>1, <2>2, <2>3
             DEF Compact, CompactLatest, CompactSince, CompactBase, CompactPut,
                 CompactCheck, CompactRecord, CompactPrune, CompactOlder, CompactDelete,
                 CompactForget, CompactFails, JobType
  <1>5. CASE Evict \/ CloseRelease \/ Crash
    BY <1>a, <1>b, <1>5 DEF Evict, CloseRelease, Release, Crash, IdleJob, JobType
  <1>6. CASE BeginClose
    BY <1>b, <1>6 DEF BeginClose
  <1>7. CASE CloseFold
    <2>1. seq' = seq /\ \E j \in Jobs : StartJob(j, seq, TRUE)
      BY <1>7 DEF CloseFold
    <2>2. seq <= HighWater'
      BY <1>a
    <2> QED  BY <1>a, <1>c, <2>1, <2>2
  <1>8. CASE UNCHANGED vars
    BY <1>b, <1>8 DEF vars
  <1> QED
    BY <1>1, <1>2, <1>3, <1>4, <1>5, <1>6, <1>7, <1>8 DEF Next, AppendReturns, Closing

\* close() waits for appends that are in the queue.
LEMMA QueueStep == Inv1 /\ [Next]_vars => (awaiting <= Len(queue))'
  <1> SUFFICES ASSUME Inv1, [Next]_vars PROVE awaiting' <= Len(queue')
    OBVIOUS
  <1>a. queue \in Seq(Entry) /\ Len(queue) \in Nat /\ awaiting \in Nat
        /\ awaiting <= Len(queue)
    BY LenProperties DEF Inv1, TypeOK, RoomOK, Ordered
  <1>1. ASSUME UNCHANGED <<queue, awaiting>> PROVE awaiting' <= Len(queue')
    BY <1>a, <1>1
  <1>2. ASSUME NEW u \in Updates, Receive(u) PROVE awaiting' <= Len(queue')
    BY <1>a, <1>2 DEF Receive, Enqueue, Entry
  <1>3. CASE AppendReturns
    <2>1. queue # <<>> /\ Dequeue
      BY <1>3 DEF AppendReturns, AppendOk, AppendFails
    <2>2. Len(Tail(queue)) = Len(queue) - 1
      BY <1>a, <2>1, HeadTailProperties
    <2> QED  BY <1>a, <2>1, <2>2 DEF Dequeue
  <1>4. CASE Release
    <2>1. queue' \in Seq(Entry)
      BY <1>4, ReleaseTyped DEF Inv1, TypeOK, RoomOK
    <2>2. Len(queue') \in Nat
      BY <2>1, LenProperties
    <2> QED  BY <1>4, <2>2 DEF Release
  <1>5. CASE Crash
    BY <1>5, EmptySeq DEF Crash
  <1>6. CASE BeginClose
    BY <1>a, <1>6 DEF BeginClose
  <1>7. ASSUME NEW j \in Jobs, Compact(j) \/ CompactFails(j)
        PROVE  awaiting' <= Len(queue')
    BY <1>1, <1>7
       DEF Compact, CompactLatest, CompactSince, CompactBase, CompactPut, CompactCheck,
           CompactRecord, CompactPrune, CompactOlder, CompactDelete, CompactForget,
           CompactFails, Step, Settle, room
  <1>8. CASE BeginLoad \/ Load \/ LoadFails \/ Join \/ Leave \/ CloseFold \/ UNCHANGED vars
    BY <1>1, <1>8 DEF BeginLoad, Load, LoadLatest, LoadGet, LoadSince, OpenRoom,
                      LoadFails, room, Join, Leave, CloseFold, vars
  <1> QED
    BY <1>2, <1>3, <1>4, <1>5, <1>6, <1>7, <1>8 DEF Next, Session, Closing, Evict,
             CloseRelease

\* A compaction keeps its order, and what the others rely on in the catalog.
LEMMA JobsStep == Inv1 /\ [Next]_vars => (\A j \in Jobs : JobOrdered(j))'
  <1> SUFFICES ASSUME Inv1, [Next]_vars, NEW i \in Jobs PROVE JobOrdered(i)'
    OBVIOUS
  <1>a. /\ TypeOK /\ jobs \in [Jobs -> JobType] /\ JobOrdered(i)
        /\ jobs[i].target \in Nat
        /\ \A n \in Nat : (\E s \in catalog : n <= s) => (\E s \in catalog' : n <= s)
    BY NumbersLemma DEF Inv1, TypeOK, JobsOK, JobType, Ordered, NumbersStep
  <1>b. ASSUME jobs'[i].pc = jobs[i].pc, jobs'[i].from = jobs[i].from,
               jobs'[i].target = jobs[i].target, jobs'[i].stale = jobs[i].stale
        PROVE  JobOrdered(i)'
    BY <1>a, <1>b DEF JobOrdered
  <1>c. ASSUME jobs'[i].pc \in {"idle", "latest"} PROVE JobOrdered(i)'
    BY <1>c DEF JobOrdered
  <1>d. ASSUME NEW j \in Jobs, NEW s, NEW onClose, StartJob(j, s, onClose)
        PROVE  JobOrdered(i)'
    <2>1. CASE i = j
      BY <1>a, <1>c, <1>d, <2>1 DEF StartJob, IdleJob
    <2>2. CASE i # j
      BY <1>a, <1>b, <1>d, <2>2 DEF StartJob
    <2> QED  BY <2>1, <2>2
  <1>1. ASSUME UNCHANGED jobs PROVE JobOrdered(i)'
    BY <1>b, <1>1
  <1>2. CASE AppendOk
    BY <1>1, <1>2, <1>d DEF AppendOk
  <1>3. ASSUME NEW j \in Jobs, Compact(j) \/ CompactFails(j) PROVE JobOrdered(i)'
    <2>1. CASE i # j
      <3>1. jobs'[i] = jobs[i]
        BY <1>3, <1>a, <2>1
           DEF Compact, CompactLatest, CompactSince, CompactBase, CompactPut,
               CompactCheck, CompactRecord, CompactPrune, CompactOlder, CompactDelete,
               CompactForget, CompactFails, Step, Settle
      <3> QED  BY <1>b, <3>1
    <2>2. CASE i = j
      <3>a. jobs[i] \in JobType
        BY <1>a
      <3>b. ASSUME NEW ok, Settle(i, ok) PROVE JobOrdered(i)'
        BY <1>a, <1>c, <3>b DEF Settle, IdleJob
      <3>1. CASE CompactLatest(i)
        <4>1. CASE jobs[i].target <= Latest
          BY <3>1, <3>b, <4>1 DEF CompactLatest
        <4>2. CASE ~(jobs[i].target <= Latest)
          <5>1. jobs'[i] = [jobs[i] EXCEPT !.from = Latest, !.pc = "since"]
            BY <1>a, <3>1, <4>2 DEF CompactLatest, Step
          <5>2. Latest \in Nat
            BY Inv1Durable, LatestLemma DEF LatestGood
          <5>3. jobs'[i].pc = "since" /\ jobs'[i].from < jobs'[i].target
            BY <1>a, <3>a, <4>2, <5>1, <5>2 DEF JobType
          <5> QED  BY <5>3 DEF JobOrdered
        <4> QED  BY <4>1, <4>2
      <3>2. CASE CompactSince(i)
        <4>1. jobs'[i].pc = "base" /\ jobs'[i].from < jobs'[i].target
          BY <1>a, <3>2, <3>a DEF CompactSince, Step, JobOrdered, JobType
        <4> QED  BY <4>1 DEF JobOrdered
      <3>3. CASE CompactBase(i)
        <4>1. ASSUME jobs'[i] = [jobs[i] EXCEPT
                        !.content = BytesOf(jobs[i].from) \cup jobs[i].content, !.pc = "put"]
              PROVE  JobOrdered(i)'
          <5>1. jobs'[i].pc = "put" /\ jobs'[i].from < jobs'[i].target
            BY <1>a, <3>3, <3>a, <4>1 DEF CompactBase, JobOrdered, JobType
          <5> QED  BY <5>1 DEF JobOrdered
        <4> QED  BY <1>a, <3>3, <3>b, <4>1 DEF CompactBase, Complete, Rebuilt, Step
      <3>4. CASE CompactPut(i)
        <4>1. jobs'[i].pc = "check" /\ jobs'[i].from < jobs'[i].target
          BY <1>a, <3>4, <3>a DEF CompactPut, Step, JobOrdered, JobType
        <4> QED  BY <4>1 DEF JobOrdered
      <3>5. CASE CompactCheck(i)
        <4>1. ASSUME jobs'[i] = [jobs[i] EXCEPT !.pc = "record"] PROVE JobOrdered(i)'
          <5>1. jobs'[i].pc = "record" /\ jobs'[i].from < jobs'[i].target
            BY <1>a, <3>5, <3>a, <4>1 DEF CompactCheck, JobOrdered, JobType
          <5> QED  BY <5>1 DEF JobOrdered
        <4> QED  BY <1>a, <3>5, <3>b, <4>1 DEF CompactCheck, Step
      <3>6. CASE CompactRecord(i)
        <4>1. jobs'[i].pc = "prune" /\ jobs'[i].target \in catalog'
          BY <1>a, <3>6, <3>a DEF CompactRecord, Step, JobType
        <4>2. jobs'[i].target <= jobs'[i].target
          BY <1>a, <3>6, <3>a DEF CompactRecord, Step, JobType
        <4> QED  BY <4>1, <4>2 DEF JobOrdered
      <3>7. CASE CompactPrune(i)
        <4>1. jobs'[i].pc = "older" /\ jobs'[i].target = jobs[i].target /\ jobs[i].pc = "prune"
          BY <1>a, <3>7, <3>a DEF CompactPrune, Step, JobType
        <4> QED  BY <1>a, <4>1 DEF JobOrdered
      <3>8. CASE CompactOlder(i)
        <4> DEFINE stale == {s \in catalog : s < jobs[i].target}
        <4>1. CASE stale = {}
          BY <3>8, <3>b, <4>1 DEF CompactOlder, Older
        <4>2. CASE stale # {}
          <5>1. jobs'[i] = [jobs[i] EXCEPT !.stale = stale, !.pc = "delete"]
                /\ jobs[i].pc = "older"
            BY <1>a, <3>8, <4>2 DEF CompactOlder, Older, Step
          <5>2. jobs'[i].pc = "delete" /\ jobs'[i].target = jobs[i].target
                /\ jobs'[i].stale = stale
            BY <3>a, <5>1 DEF JobType
          <5> QED  BY <1>a, <4>2, <5>1, <5>2 DEF JobOrdered
        <4> QED  BY <4>1, <4>2
      <3>9. CASE CompactDelete(i)
        <4>1. jobs'[i].pc = "forget" /\ jobs'[i].target = jobs[i].target
              /\ jobs[i].pc = "delete" /\ jobs'[i].stale = jobs[i].stale
          BY <1>a, <3>9, <3>a DEF CompactDelete, Step, JobType
        <4> QED  BY <1>a, <4>1 DEF JobOrdered
      <3>10. CASE CompactForget(i)
        <4> DEFINE rest == jobs[i].stale \ {Min(jobs[i].stale)}
        <4>1. CASE rest = {}
          BY <3>10, <3>b, <4>1 DEF CompactForget
        <4>2. CASE rest # {}
          <5>1. jobs'[i] = [jobs[i] EXCEPT !.stale = rest, !.pc = "delete"]
                /\ jobs[i].pc = "forget"
            BY <1>a, <3>10, <4>2 DEF CompactForget, Step
          <5>2. jobs'[i].pc = "delete" /\ jobs'[i].target = jobs[i].target
                /\ jobs'[i].stale = rest
            BY <3>a, <5>1 DEF JobType
          <5> QED  BY <1>a, <4>2, <5>1, <5>2 DEF JobOrdered
        <4> QED  BY <4>1, <4>2
      <3>11. CASE CompactFails(i)
        BY <3>11, <3>b DEF CompactFails
      <3> QED  BY <1>3, <2>2, <3>1, <3>2, <3>3, <3>4, <3>5, <3>6, <3>7, <3>8, <3>9, <3>10,
                  <3>11 DEF Compact
    <2> QED  BY <2>1, <2>2
  <1>4. CASE Release
    BY <1>4, <1>a, <1>b DEF Release, JobType
  <1>5. CASE Crash
    BY <1>5, <1>c DEF Crash, IdleJob
  <1>6. CASE CloseFold
    BY <1>6, <1>d DEF CloseFold
  <1>7. CASE \/ BeginLoad \/ Load \/ LoadFails \/ Session \/ BeginClose \/ UNCHANGED vars
             \/ \E w \in BOOLEAN : AppendFails(w)
    BY <1>1, <1>7 DEF BeginLoad, Load, LoadLatest, LoadGet, LoadSince, OpenRoom,
                      LoadFails, Session, Join, Leave, Receive, BeginClose, AppendFails,
                      vars
  <1> QED
    BY <1>2, <1>3, <1>4, <1>5, <1>6, <1>7
       DEF Next, AppendReturns, Closing, Evict, CloseRelease

-----------------------------------------------------------------------------
(* Part 2: the objects that the catalog names, also when compactions overlap *)

\* What a step does to the log, the catalog and the objects.
LEMMA DurableKinds ==
    ASSUME TypeOK, [Next]_vars
    PROVE  \/ UNCHANGED durable
           \/ /\ Insert(Head(queue).update) /\ Head(queue).update \in Updates
              /\ UNCHANGED <<catalog, objects>>
           \/ \E j \in Jobs : \/ CompactPut(j) \/ CompactRecord(j) \/ CompactPrune(j)
                              \/ CompactDelete(j) \/ CompactForget(j)
  <1>1. CASE AppendReturns
    BY <1>1, DequeueTyped DEF AppendReturns, AppendOk, AppendFails, durable
  <1>2. ASSUME NEW j \in Jobs, Compact(j) \/ CompactFails(j)
        PROVE  \/ UNCHANGED durable
               \/ CompactPut(j) \/ CompactRecord(j) \/ CompactPrune(j)
               \/ CompactDelete(j) \/ CompactForget(j)
    BY <1>2 DEF Compact, CompactLatest, CompactSince, CompactBase, CompactCheck,
                CompactOlder, CompactFails
  <1>3. CASE BeginLoad \/ Load \/ LoadFails
    BY <1>3
       DEF BeginLoad, Load, LoadLatest, LoadGet, LoadSince, OpenRoom, LoadFails, durable
  <1>4. CASE Session \/ Evict \/ Closing \/ Crash \/ UNCHANGED vars
    BY <1>4 DEF Session, Join, Leave, Receive, Evict, Closing, BeginClose, CloseFold,
                CloseRelease, Release, Crash, durable, vars
  <1> QED  BY <1>1, <1>2, <1>3, <1>4 DEF Next

\* Where only the numbers of the newest snapshot matter.
LEMMA DurableStep ==
    Inv1 /\ [Next]_vars =>
        /\ TypeOK /\ TypeOK' /\ LatestGood /\ HighWaterGood /\ StoredGood
        /\ LatestGood' /\ HighWaterGood' /\ StoredGood'
  <1> SUFFICES ASSUME Inv1, [Next]_vars
               PROVE  /\ TypeOK /\ TypeOK' /\ LatestGood /\ HighWaterGood /\ StoredGood
                      /\ LatestGood' /\ HighWaterGood' /\ StoredGood'
    OBVIOUS
  <1>1. DurableType
    BY Inv1Durable
  <1>2. DurableType'
    BY TypeStep, NumbersLemma DEF TypeOK, DurableOK, DurableType, NumbersStep
  <1>3. LatestGood /\ HighWaterGood /\ StoredGood
    BY <1>1, LatestLemma, HighWaterLemma, StoredLemma
  <1>4. (DurableType => LatestGood /\ HighWaterGood /\ StoredGood)'
    BY LatestLemma, HighWaterLemma, StoredLemma, PTL
  <1> QED  BY <1>2, <1>3, <1>4, TypeStep DEF Inv1

\* What a compaction collects is older than some recorded snapshot.
LEMMA CollectsOlder ==
    ASSUME Inv1, NEW j \in Jobs, jobs[j].pc \in {"delete", "forget"}
    PROVE  Min(jobs[j].stale) \in Nat /\ \E s \in catalog : Min(jobs[j].stale) < s
  <1>1. /\ jobs[j].stale \in SUBSET Nat /\ jobs[j].stale # {} /\ jobs[j].target \in Nat
        /\ \A s \in jobs[j].stale : s < jobs[j].target
    BY DEF Inv1, TypeOK, JobsOK, JobType, Ordered, JobOrdered
  <1>2. Min(jobs[j].stale) \in jobs[j].stale
    BY <1>1, MinIsLeast
  <1>3. PICK s \in catalog : jobs[j].target <= s
    BY DEF Inv1, Ordered, JobOrdered
  <1>4. s \in Nat
    BY <1>3 DEF Inv1, TypeOK, DurableOK
  <1> QED  BY <1>1, <1>2, <1>3, <1>4

\* The bytes under a key stay, unless a newer snapshot is recorded.
HeldOrPassed(n) == n \in DOMAIN objects \/ \E s \in catalog : n < s

LEMMA KeyStays ==
    ASSUME Inv1, [Next]_vars, NEW n \in Nat, HeldOrPassed(n)
    PROVE  HeldOrPassed(n)'
  <1>1. (\E s \in catalog : n < s) => (\E s \in catalog' : n < s)
    <2>1. TypeOK /\ TypeOK'
      BY TypeStep DEF Inv1
    <2>2. catalog \subseteq Nat /\ catalog' \subseteq Nat
      BY <2>1 DEF TypeOK, DurableOK
    <2>3. (\E s \in catalog : n + 1 <= s) => (\E s \in catalog' : n + 1 <= s)
      BY NumbersLemma DEF NumbersStep
    <2> QED  BY <2>2, <2>3
  <1>2. ASSUME n \in DOMAIN objects PROVE n \in DOMAIN objects' \/ \E s \in catalog : n < s
    <2>1. CASE UNCHANGED objects
      BY <1>2, <2>1
    <2>2. ASSUME NEW j \in Jobs, CompactPut(j) PROVE n \in DOMAIN objects'
      BY <1>2, <2>2 DEF CompactPut
    <2>3. ASSUME NEW j \in Jobs, CompactDelete(j)
          PROVE  n \in DOMAIN objects' \/ \E s \in catalog : n < s
      <3>1. DOMAIN objects' = DOMAIN objects \ {Min(jobs[j].stale)}
        BY <2>3 DEF CompactDelete, Restrict
      <3>2. \E s \in catalog : Min(jobs[j].stale) < s
        BY <2>3, CollectsOlder DEF CompactDelete
      <3> QED  BY <1>2, <3>1, <3>2
    <2>4. \/ UNCHANGED objects
          \/ \E j \in Jobs : CompactPut(j) \/ CompactDelete(j)
      BY DurableKinds DEF Inv1, durable, CompactRecord, CompactPrune, CompactForget
    <2> QED  BY <2>1, <2>2, <2>3, <2>4
  <1> QED  BY <1>1, <1>2 DEF HeldOrPassed

LEMMA ReadableStep == Inv1 /\ [Next]_vars => LatestIsReadable'
  <1> SUFFICES ASSUME Inv1, [Next]_vars, Latest' # 0 PROVE Latest' \in DOMAIN objects'
    BY DEF LatestIsReadable
  <1>1. /\ LatestGood /\ LatestGood' /\ Latest' \in catalog' /\ Latest' \in Nat
        /\ \A s \in catalog' : ~(Latest' < s)
    <2>1. LatestGood /\ LatestGood' /\ catalog' \subseteq Nat
      BY DurableStep DEF TypeOK, DurableOK
    <2> QED  BY <2>1 DEF LatestGood
  <1>2. ASSUME HeldOrPassed(Latest') PROVE Latest' \in DOMAIN objects'
    <2>1. PICK n \in Nat : n = Latest'
      BY <1>1
    <2>2. HeldOrPassed(n)'
      BY <1>2, <2>1, KeyStays
    <2> QED  BY <1>1, <2>1, <2>2 DEF HeldOrPassed
  <1>3. CASE Latest' \in catalog
    <2>1. Latest' <= Latest /\ Latest \in Nat /\ (Latest = 0 \/ Latest \in catalog)
      BY <1>1, <1>3 DEF LatestGood
    <2>2. Latest \in DOMAIN objects
      BY <1>1, <2>1 DEF Inv1, Backed, LatestIsReadable
    <2>3. Latest' = Latest \/ Latest' < Latest
      BY <1>1, <2>1
    <2>4. HeldOrPassed(Latest')
      BY <1>1, <2>1, <2>2, <2>3 DEF HeldOrPassed
    <2> QED  BY <1>2, <2>4
  <1>4. CASE Latest' \notin catalog
    <2>1. PICK j \in Jobs : CompactRecord(j)
      BY <1>1, <1>4, DurableKinds
         DEF Inv1, durable, CompactPut, CompactPrune, CompactDelete, CompactForget
    <2>2. Latest' = jobs[j].target
      BY <1>1, <1>4, <2>1 DEF CompactRecord
    <2>3. HeldOrPassed(jobs[j].target)
      BY <2>1 DEF CompactRecord, Inv1, Backed, JobBacked, HeldOrPassed
    <2> QED  BY <1>2, <2>2, <2>3
  <1> QED  BY <1>3, <1>4

LEMMA ObjectsStep == Inv1 /\ [Next]_vars => (\A k \in DOMAIN objects : ~Gap(objects[k]))'
  <1> SUFFICES ASSUME Inv1, [Next]_vars, NEW k \in DOMAIN objects' PROVE ~Gap(objects'[k])
    BY DEF Gap
  <1>1. ~Gap({}) /\ \A i \in DOMAIN objects : ~Gap(objects[i])
    BY DEF Gap, Inv1, Backed
  <1>2. CASE UNCHANGED objects
    BY <1>1, <1>2
  <1>3. ASSUME NEW j \in Jobs, CompactPut(j) PROVE ~Gap(objects'[k])
    <2>1. ~Gap(jobs[j].content)
      BY <1>3 DEF CompactPut, Inv1, Backed, JobBacked
    <2>2. PICK bytes \in {jobs[j].content, {}} :
             objects' = [i \in DOMAIN objects \cup {jobs[j].target} |->
                             IF i = jobs[j].target THEN bytes ELSE objects[i]]
      BY <1>3 DEF CompactPut, Kept
    <2> QED  BY <1>1, <2>1, <2>2
  <1>4. ASSUME NEW j \in Jobs, CompactDelete(j) PROVE ~Gap(objects'[k])
    BY <1>1, <1>4 DEF CompactDelete, Restrict
  <1>5. UNCHANGED objects \/ \E j \in Jobs : CompactPut(j) \/ CompactDelete(j)
    BY DurableKinds DEF Inv1, durable, CompactRecord, CompactPrune, CompactForget
  <1> QED  BY <1>2, <1>3, <1>4, <1>5

\* What a step does to the work of a compaction: a compaction that has rebuilt
\* the document was there before, or has found no gap just now.
LEMMA WorkKinds ==
    ASSUME Inv1, [Next]_vars, NEW i \in Jobs, jobs'[i].pc \in {"put", "check", "record"}
    PROVE  \/ /\ jobs'[i].pc = jobs[i].pc /\ jobs'[i].target = jobs[i].target
              /\ jobs'[i].content = jobs[i].content
           \/ ~Gap(jobs'[i].content) /\ jobs'[i].pc = "put"
           \/ /\ CompactPut(i) \/ (CompactCheck(i) /\ jobs[i].pc = "check")
              /\ jobs'[i].target = jobs[i].target /\ jobs'[i].content = jobs[i].content
  <1>a. jobs \in [Jobs -> JobType] /\ jobs[i] \in JobType
    BY DEF Inv1, TypeOK, JobsOK
  <1>b. ASSUME NEW j \in Jobs, \E s, oc : StartJob(j, s, oc)
        PROVE  jobs'[i] = jobs[i]
    BY <1>a, <1>b DEF StartJob, IdleJob
  <1>c. ASSUME NEW ok, Settle(i, ok) PROVE FALSE
    <2>1. jobs'[i] = IdleJob
      BY <1>a, <1>c DEF Settle
    <2> QED  BY <2>1 DEF IdleJob
  <1>1. CASE UNCHANGED jobs
    BY <1>1
  <1>2. CASE AppendOk \/ CloseFold
    BY <1>1, <1>2, <1>b DEF AppendOk, CloseFold
  <1>3. ASSUME NEW j \in Jobs, j # i, Compact(j) \/ CompactFails(j)
        PROVE  jobs'[i] = jobs[i]
    BY <1>a, <1>3
       DEF Compact, CompactLatest, CompactSince, CompactBase, CompactPut, CompactCheck,
           CompactRecord, CompactPrune, CompactOlder, CompactDelete, CompactForget,
           CompactFails, Step, Settle
  <1>4. CASE CompactBase(i)
    <2>1. jobs' = [jobs EXCEPT ![i] = [jobs[i] EXCEPT !.content = Rebuilt(i), !.pc = "put"]]
          /\ ~Gap(Rebuilt(i))
      BY <1>4, <1>c DEF CompactBase, Complete, Step
    <2>2. jobs'[i].content = Rebuilt(i) /\ jobs'[i].pc = "put"
      BY <1>a, <2>1 DEF JobType
    <2> QED  BY <1>4, <2>1, <2>2
  <1>5. CASE CompactPut(i) \/ CompactCheck(i)
    <2>1. \/ jobs' = [jobs EXCEPT ![i] = [jobs[i] EXCEPT !.pc = "check"]]
          \/ jobs' = [jobs EXCEPT ![i] = [jobs[i] EXCEPT !.pc = "record"]]
      BY <1>5, <1>c DEF CompactPut, CompactCheck, Step
    <2>2. jobs'[i].target = jobs[i].target /\ jobs'[i].content = jobs[i].content
      BY <1>a, <2>1 DEF JobType
    <2>3. CompactCheck(i) => jobs[i].pc = "check"
      BY DEF CompactCheck
    <2> QED  BY <1>5, <2>2, <2>3
  <1>6. ASSUME \/ CompactLatest(i) \/ CompactSince(i) \/ CompactRecord(i) \/ CompactPrune(i)
               \/ CompactOlder(i) \/ CompactDelete(i) \/ CompactForget(i) \/ CompactFails(i)
        PROVE  FALSE
    <2>1. jobs'[i].pc \in {"since", "base", "prune", "older", "delete", "forget"}
      <3>1. PICK next : Step(i, next) /\ next \in {
                 [jobs[i] EXCEPT !.from = Latest, !.pc = "since"],
                 [jobs[i] EXCEPT !.content = Since(jobs[i].from, jobs[i].target), !.pc = "base"],
                 [jobs[i] EXCEPT !.pc = "prune"],
                 [jobs[i] EXCEPT !.pc = "older"],
                 [jobs[i] EXCEPT !.stale = Older(i), !.pc = "delete"],
                 [jobs[i] EXCEPT !.pc = "forget"],
                 [jobs[i] EXCEPT !.stale = jobs[i].stale \ {Min(jobs[i].stale)}, !.pc = "delete"]}
        BY <1>6, <1>c DEF CompactLatest, CompactSince, CompactRecord, CompactPrune,
              CompactOlder, CompactDelete, CompactForget, CompactFails
      <3> QED  BY <1>a, <3>1 DEF Step, JobType
    <2> QED  BY <2>1
  <1>7. CASE Release
    BY <1>a, <1>7 DEF Release, JobType
  <1>8. CASE Crash
    BY <1>8 DEF Crash, IdleJob
  <1>9. CASE \/ BeginLoad \/ Load \/ LoadFails \/ Session \/ BeginClose \/ UNCHANGED vars
             \/ \E w \in BOOLEAN : AppendFails(w)
    BY <1>1, <1>9 DEF BeginLoad, Load, LoadLatest, LoadGet, LoadSince, OpenRoom,
                      LoadFails, Session, Join, Leave, Receive, BeginClose, AppendFails, vars
  <1> QED
    BY <1>2, <1>3, <1>4, <1>5, <1>6, <1>7, <1>8, <1>9
       DEF Next, AppendReturns, Closing, Evict, CloseRelease, Compact

LEMMA BackedStep == Inv1 /\ [Next]_vars => Backed'
  <1> SUFFICES ASSUME Inv1, [Next]_vars, NEW i \in Jobs PROVE JobBacked(i)'
    BY ReadableStep, ObjectsStep DEF Backed
  <1> SUFFICES ASSUME jobs'[i].pc \in {"put", "check", "record"} PROVE JobBacked(i)'
    BY DEF JobBacked
  <1>1. JobBacked(i) /\ jobs[i].target \in Nat
    BY DEF Inv1, Backed, TypeOK, JobsOK, JobType
  <1>2. ASSUME jobs[i].pc \in {"check", "record"}, jobs'[i].target = jobs[i].target
        PROVE  HeldOrPassed(jobs[i].target)'
    <2>1. PICK n \in Nat : n = jobs[i].target
      BY <1>1
    <2>2. HeldOrPassed(n)
      BY <1>1, <1>2, <2>1 DEF JobBacked, HeldOrPassed
    <2>3. HeldOrPassed(n)'
      BY <2>2, KeyStays
    <2> QED  BY <1>2, <2>1, <2>3 DEF HeldOrPassed
  <1>3. CASE /\ jobs'[i].pc = jobs[i].pc /\ jobs'[i].target = jobs[i].target
             /\ jobs'[i].content = jobs[i].content
    BY <1>1, <1>2, <1>3 DEF JobBacked, HeldOrPassed, Gap
  <1>4. CASE ~Gap(jobs'[i].content) /\ jobs'[i].pc = "put"
    BY <1>4 DEF JobBacked, Gap
  <1>5. CASE /\ CompactPut(i) \/ (CompactCheck(i) /\ jobs[i].pc = "check")
             /\ jobs'[i].target = jobs[i].target /\ jobs'[i].content = jobs[i].content
    <2>1. jobs[i].pc \in {"put", "check"} /\ ~Gap(jobs'[i].content)
      BY <1>1, <1>5 DEF CompactPut, JobBacked
    <2>2. jobs'[i].target \in DOMAIN objects' \/ \E s \in catalog' : jobs'[i].target < s
      <3>1. CASE CompactPut(i)
        BY <1>5, <3>1 DEF CompactPut
      <3>2. CASE jobs[i].pc = "check"
        BY <1>2, <1>5, <3>2 DEF HeldOrPassed
      <3> QED  BY <1>5, <3>1, <3>2
    <2> QED  BY <2>1, <2>2 DEF JobBacked, Gap
  <1> QED  BY <1>3, <1>4, <1>5, WorkKinds

LEMMA Inv1Step == Inv1 /\ [Next]_vars => Inv1'
  BY TypeStep, NumbersLemma, SeqStep, QueueStep, JobsStep, BackedStep DEF Inv1, Ordered, NumbersStep

LEMMA Inv1Holds == Spec => []Inv1
  BY InitInv1, Inv1Step, PTL DEF Spec

\* Every variable keeps its type, whatever loads, compactions and crashes meet.
THEOREM TypeCorrect == Spec => []TypeOK
  BY Inv1Holds, PTL DEF Inv1

\* The number a room announces as saved, and the number a compaction folds up
\* to, were handed out to a row of the board before (room.seq in room.ts).
THEOREM SeqIsHandedOut == Spec => []SeqWasHandedOut
  BY Inv1Holds, PTL DEF Inv1, Ordered

\* latestSeq never falls: the catalog remembers what a prune took from the log,
\* even when two compactions of the board overlap.
THEOREM NeverReused == Spec => SeqNeverReused
  <1>1. Inv1 /\ [Next]_vars => [HighWater' >= HighWater]_vars
    BY NumbersLemma, Inv1Durable, HighWaterLemma DEF NumbersStep, HighWaterGood
  <1> QED  BY Inv1Holds, <1>1, PTL DEF Spec, SeqNeverReused

\* The board can always be opened: neither the put of a compaction nor what it
\* collects (older, delete, forget) takes away the bytes of the snapshot a load
\* would choose, for any number of compactions of the board at once.
THEOREM BoardOpens == Spec => []LatestIsReadable
  BY Inv1Holds, PTL DEF Inv1, Backed

\* No snapshot that was recorded has a causal gap (hasPendingStructs in compact),
\* even if the rows below it were pruned by another compaction meanwhile.
THEOREM NoGapIsRecorded == Spec => []SnapshotsAreWhole
  <1>1. Inv1 => SnapshotsAreWhole
    BY DEF Inv1, Backed, SnapshotsAreWhole
  <1> QED  BY Inv1Holds, <1>1, PTL
=============================================================================
