------------------------- MODULE BoardPersistence -------------------------
(***************************************************************************)
(* The durable side of one board: the update log (board_updates), the      *)
(* snapshot catalog (board_snapshots) and the snapshot objects, used by    *)
(* one realtime process that opens the board's room, appends the updates   *)
(* its clients send, compacts the log in the background, evicts the idle   *)
(* room, shuts down, crashes and restarts.                                 *)
(*                                                                         *)
(* Every await of the code is a point where another action may run: a      *)
(* compaction is a sequence of calls to the database and to the object     *)
(* store, a load is another one, and appends wait in a queue.              *)
(*                                                                         *)
(* An update is opaque.  Applying a set of updates to a Yjs document gives *)
(* a document that knows that set; an update whose causal predecessors     *)
(* (Deps) are not all known stays pending.                                 *)
(***************************************************************************)
EXTENDS Naturals, Sequences, FiniteSetsExt

CONSTANTS
    Updates,        \* the updates clients may make
    Deps,           \* the updates an update refers to
    Jobs,           \* slots for compactions in flight (a bound of the model)
    EveryUpdates,   \* RT_SNAPSHOT_EVERY_UPDATES
    MaxRows,        \* bound of the model: sequence numbers handed out
    Truncates       \* the object store may keep less than it was given

ASSUME DepsAssumption == Deps \in [Updates -> SUBSET Updates]
ASSUME EveryUpdatesAssumption == EveryUpdates \in Nat \ {0}
ASSUME TruncatesAssumption == Truncates \in BOOLEAN

VARIABLES
    \* durable state
    log,            \* rows of board_updates: [seq, update]
    catalog,        \* rows of board_snapshots: the seq_upto of each
    objects,        \* the object store: seq_upto in the key -> updates in the bytes
    \* memory of the process
    phase,          \* life of the room in this process
    connected,      \* some session is in the room
    doc,            \* the updates the room's document was given
    seq,            \* LiveRoom.seq
    compactedSeq,   \* LiveRoom.compactedSeq
    compacting,     \* LiveRoom.compacting
    queue,          \* appends in flight, in the log's queue of this board
    awaiting,       \* how many of them close() still waits for
    load,           \* the load in progress
    jobs,           \* the compactions in progress
    \* history
    acked,          \* updates whose append returned, hence broadcast as saved
    dropped,        \* some append failed and left no row
    overlapped,     \* two compactions of the board were in flight at once
    raced           \* a room released before changed the log behind a load

durable == <<log, catalog, objects>>
room    == <<phase, connected, doc, seq, compactedSeq, compacting, queue, awaiting>>
history == <<acked, dropped, overlapped, raced>>
vars    == <<log, catalog, objects, phase, connected, doc, seq, compactedSeq,
             compacting, queue, awaiting, load, jobs, acked, dropped, overlapped, raced>>

-----------------------------------------------------------------------------
\* Documents and rows

\* hasPendingStructs of the document that was given the updates S.
Gap(S) == \E u \in S : ~(Deps[u] \subseteq S)

\* SELECT payload ... WHERE seq > after AND seq <= upto
Since(after, upto) == {r.update : r \in {q \in log : after < q.seq /\ q.seq <= upto}}

SeqsOf(rows) == {r.seq : r \in rows}

\* seq_upto of catalog.latest, 0 when there is no snapshot.
Latest == Max(catalog \cup {0})

\* GREATEST(MAX(seq), MAX(seq_upto)): the last sequence number handed out.
HighWater == Max(SeqsOf(log) \cup catalog \cup {0})

\* The bytes under the key of a snapshot; no snapshot is an empty document.
BytesOf(s) == IF s = 0 THEN {} ELSE objects[s]

\* What a load that meets no other activity delivers.
Stored == BytesOf(Latest) \cup Since(Latest, HighWater)

-----------------------------------------------------------------------------
\* Types and initial state

JobSteps == {"idle", "latest", "since", "base", "put", "check",
             "record", "prune", "older", "delete", "forget"}
Phases   == {"closed", "loading", "open", "draining", "folding", "folded"}

IdleJob == [pc |-> "idle", onClose |-> FALSE, live |-> FALSE, target |-> 0,
            from |-> 0, content |-> {}, stale |-> {}]
NoLoad  == [pc |-> "none", from |-> 0, content |-> {}]

JobType == [pc : JobSteps, onClose : BOOLEAN, live : BOOLEAN, target : Nat,
            from : Nat, content : SUBSET Updates, stale : SUBSET Nat]

\* An append in flight; live while the room that made it is in memory.
Entry == [update : Updates, live : BOOLEAN]

DurableOK ==
    /\ log \in SUBSET [seq : Nat \ {0}, update : Updates]
    /\ catalog \in SUBSET (Nat \ {0})
    /\ DOMAIN objects \in SUBSET (Nat \ {0})
    /\ \A k \in DOMAIN objects : objects[k] \in SUBSET Updates

RoomOK ==
    /\ phase \in Phases
    /\ connected \in BOOLEAN
    /\ doc \in SUBSET Updates
    /\ seq \in Nat
    /\ compactedSeq \in Nat
    /\ compacting \in BOOLEAN
    /\ queue \in Seq(Entry)
    /\ awaiting \in Nat

LoadOK == load \in [pc : {"none", "latest", "get", "since", "seq"},
                    from : Nat, content : SUBSET Updates]

JobsOK == jobs \in [Jobs -> JobType]

HistoryOK ==
    /\ acked \in SUBSET Updates
    /\ dropped \in BOOLEAN
    /\ overlapped \in BOOLEAN
    /\ raced \in BOOLEAN

TypeOK == DurableOK /\ RoomOK /\ LoadOK /\ JobsOK /\ HistoryOK

Init ==
    /\ log = {} /\ catalog = {} /\ objects = <<>>
    /\ phase = "closed" /\ connected = FALSE /\ doc = {}
    /\ seq = 0 /\ compactedSeq = 0 /\ compacting = FALSE
    /\ queue = <<>> /\ awaiting = 0
    /\ load = NoLoad
    /\ jobs = [j \in Jobs |-> IdleJob]
    /\ acked = {} /\ dropped = FALSE /\ overlapped = FALSE /\ raced = FALSE

Running(j) == jobs[j].pc # "idle"

-----------------------------------------------------------------------------
\* Opening the room: join() and open() in room.ts, load() in the board store

\* The first join of a board that is not in memory starts a load.
BeginLoad ==
    /\ phase = "closed"
    /\ phase' = "loading"
    /\ load' = [NoLoad EXCEPT !.pc = "latest"]
    /\ raced' = FALSE
    /\ UNCHANGED <<durable, connected, doc, seq, compactedSeq, compacting, queue,
                   awaiting, jobs, acked, dropped, overlapped>>

LoadLatest ==
    /\ load.pc = "latest"
    /\ load' = [load EXCEPT !.from = Latest,
                            !.pc = IF catalog = {} THEN "since" ELSE "get"]
    /\ UNCHANGED <<durable, room, jobs, history>>

\* A record without its bytes stops the load: an error, not an empty board.
LoadGet ==
    /\ load.pc = "get"
    /\ IF load.from \in DOMAIN objects
       THEN /\ load' = [load EXCEPT !.content = objects[load.from], !.pc = "since"]
            /\ phase' = phase
       ELSE /\ load' = NoLoad
            /\ phase' = "closed"
    /\ UNCHANGED <<durable, connected, doc, seq, compactedSeq, compacting, queue,
                   awaiting, jobs, history>>

\* Fault: the rows are read from one past the snapshot.
RowsTwoAfter(s) == Since(s + 1, HighWater)

RowsAfter(s) == Since(s, HighWater)

LoadSince ==
    /\ load.pc = "since"
    /\ load' = [load EXCEPT !.content = @ \cup RowsAfter(load.from), !.pc = "seq"]
    /\ UNCHANGED <<durable, room, jobs, history>>

\* log.latestSeq, then the room exists and the session that waited joins it.
OpenRoom ==
    /\ load.pc = "seq"
    /\ phase' = "open"
    /\ connected' = TRUE
    /\ doc' = load.content
    /\ seq' = HighWater
    /\ compactedSeq' = load.from
    /\ compacting' = FALSE
    /\ load' = NoLoad
    /\ UNCHANGED <<durable, queue, awaiting, jobs, history>>

LoadFails ==
    /\ load.pc # "none"
    /\ load' = NoLoad
    /\ phase' = "closed"
    /\ UNCHANGED <<durable, connected, doc, seq, compactedSeq, compacting, queue,
                   awaiting, jobs, history>>

-----------------------------------------------------------------------------
\* Sessions and their updates

InMemory == phase \in {"open", "draining", "folding", "folded"}

\* A session joins the room in memory; the server accepts connections until
\* the rooms are closed, also while it is shutting down.
Join ==
    /\ InMemory
    /\ ~connected
    /\ connected' = TRUE
    /\ UNCHANGED <<durable, phase, doc, seq, compactedSeq, compacting, queue,
                   awaiting, load, jobs, history>>

Leave ==
    /\ connected
    /\ connected' = FALSE
    /\ UNCHANGED <<durable, phase, doc, seq, compactedSeq, compacting, queue,
                   awaiting, load, jobs, history>>

\* Fault: appends of a board are not serial, a later one may reach the log first.
EnqueueFirst(u) == queue' = <<[update |-> u, live |-> TRUE]>> \o queue

Enqueue(u) == queue' = Append(queue, [update |-> u, live |-> TRUE])

\* A client's update enters the document and its append the log's queue.  The
\* client knows what its update refers to, and the handshake has made it offer
\* the server whatever the server lacked of it.
Receive(u) ==
    /\ InMemory
    /\ connected
    /\ u \notin doc
    /\ Deps[u] \subseteq doc
    /\ HighWater + Len(queue) < MaxRows
    /\ doc' = doc \cup {u}
    /\ Enqueue(u)
    /\ UNCHANGED <<durable, phase, connected, seq, compactedSeq, compacting,
                   awaiting, load, jobs, history>>

\* compactor.compact(boardId, target) is called.
StartJob(j, target, onClose) ==
    /\ ~Running(j)
    /\ jobs' = [jobs EXCEPT ![j] = [IdleJob EXCEPT !.pc = "latest", !.target = target,
                                                   !.live = TRUE, !.onClose = onClose]]
    /\ overlapped' = (overlapped \/ \E i \in Jobs : Running(i))

\* shouldCompact: by count it must, by elapsed time it may.
MayCompact(s)  == ~compacting /\ s > compactedSeq
MustCompact(s) == MayCompact(s) /\ s - compactedSeq >= EveryUpdates

\* Fault: an append that close() does not wait for is counted too.
DequeueAlwaysCounts ==
    /\ queue' = Tail(queue)
    /\ awaiting' = awaiting - 1

\* The append at the head of the queue leaves it; close() waits for a prefix.
Dequeue ==
    /\ queue' = Tail(queue)
    /\ awaiting' = IF awaiting = 0 THEN 0 ELSE awaiting - 1

\* An append of a room released before, too late for the load of its successor.
Late == ~Head(queue).live /\ (load.pc = "seq" \/ InMemory)

Insert(u) == log' = log \cup {[seq |-> HighWater + 1, update |-> u]}

\* Fault: the room announces the next number instead of the row's.
SeqOfNextRow == Max({seq, HighWater + 2})

\* The row's number, unless the room has announced a later one already.
SeqAfterRow == Max({seq, HighWater + 1})

\* The append returns: the room's seq moves, everyone hears "saved" and the
\* room may start a compaction up to the seq it has now.  A room that was
\* released meanwhile is no owner any more and compacts nothing.
AppendOk ==
    /\ queue # <<>>
    /\ Dequeue
    /\ Insert(Head(queue).update)
    /\ acked' = acked \cup {Head(queue).update}
    /\ IF Head(queue).live
       THEN /\ seq' = SeqAfterRow
            /\ \/ /\ ~MustCompact(SeqAfterRow)
                  /\ UNCHANGED <<compacting, jobs, overlapped>>
               \/ /\ MayCompact(SeqAfterRow)
                  /\ compacting' = TRUE
                  /\ \E j \in Jobs : StartJob(j, SeqAfterRow, FALSE)
       ELSE UNCHANGED <<seq, compacting, jobs, overlapped>>
    /\ raced' = (raced \/ Late)
    /\ UNCHANGED <<catalog, objects, phase, connected, doc, compactedSeq, load,
                   dropped>>

\* The append throws: everyone hears "unsaved", the update stays in the
\* document only.  The row may be there all the same (a lost answer).
AppendFails(written) ==
    /\ queue # <<>>
    /\ Dequeue
    /\ IF written
       THEN Insert(Head(queue).update) /\ UNCHANGED dropped
       ELSE dropped' = TRUE /\ UNCHANGED log
    /\ UNCHANGED <<catalog, objects, phase, connected, doc, seq, compactedSeq,
                   compacting, load, jobs, acked, overlapped, raced>>

-----------------------------------------------------------------------------
\* One compaction: createCompactor.compact, an action per awaited call

\* maybeCompact's handlers belong to the room that started the compaction.
Mine(j) == jobs[j].live /\ ~jobs[j].onClose

\* Fault: only a compaction that succeeded resets compacting.
CompactingUnlessOk(j, ok) == compacting /\ ~(Mine(j) /\ ok)

CompactingAfter(j, ok) == compacting /\ ~Mine(j)

\* Fault: an exception of the last compaction leaves close() as well.
FoldedIfOk(j, ok) == IF jobs[j].onClose /\ jobs[j].live /\ ok THEN "folded" ELSE phase

\* close() goes on to its next step, whatever became of the compaction.
FoldedAfter(j, ok) == IF jobs[j].onClose /\ jobs[j].live THEN "folded" ELSE phase

\* The compaction ends.
Settle(j, ok) ==
    /\ jobs' = [jobs EXCEPT ![j] = IdleJob]
    /\ compacting' = CompactingAfter(j, ok)
    /\ compactedSeq' = IF Mine(j) /\ ok THEN jobs[j].target ELSE compactedSeq
    /\ phase' = FoldedAfter(j, ok)
    /\ UNCHANGED <<connected, doc, seq, queue, awaiting>>

Step(j, next) == jobs' = [jobs EXCEPT ![j] = next] /\ UNCHANGED room

CompactLatest(j) ==
    /\ jobs[j].pc = "latest"
    /\ IF jobs[j].target <= Latest
       THEN Settle(j, FALSE)
       ELSE Step(j, [jobs[j] EXCEPT !.from = Latest, !.pc = "since"])
    /\ UNCHANGED <<durable, load, history>>

CompactSince(j) ==
    /\ jobs[j].pc = "since"
    /\ Step(j, [jobs[j] EXCEPT !.content = Since(jobs[j].from, jobs[j].target),
                               !.pc = "base"])
    /\ UNCHANGED <<durable, load, history>>

\* The previous snapshot is the base, the rows go on top of it.
Rebuilt(j) == BytesOf(jobs[j].from) \cup jobs[j].content

\* Fault: a causal gap in the rebuilt document is not noticed.
MayBeIncomplete(j) == jobs[j].from \in DOMAIN objects \cup {0}

\* The bytes of the base were found, and the rebuilt document has no gap.
Complete(j) == jobs[j].from \in DOMAIN objects \cup {0} /\ ~Gap(Rebuilt(j))

CompactBase(j) ==
    /\ jobs[j].pc = "base"
    /\ IF Complete(j)
       THEN Step(j, [jobs[j] EXCEPT !.content = Rebuilt(j), !.pc = "put"])
       ELSE Settle(j, FALSE)
    /\ UNCHANGED <<durable, load, history>>

\* Kept is what the object store makes of the bytes it is given.
Kept(bytes) == IF Truncates THEN {bytes, {}} ELSE {bytes}

CompactPut(j) ==
    /\ jobs[j].pc = "put"
    /\ \E bytes \in Kept(jobs[j].content) :
           objects' = [k \in DOMAIN objects \cup {jobs[j].target} |->
                           IF k = jobs[j].target THEN bytes ELSE objects[k]]
    /\ Step(j, [jobs[j] EXCEPT !.pc = "check"])
    /\ UNCHANGED <<log, catalog, load, history>>

\* Fault: the bytes are not read back.
Uploaded(j) == TRUE

\* The bytes are read back and their state vector compared.
Verified(j) ==
    jobs[j].target \in DOMAIN objects /\ objects[jobs[j].target] = jobs[j].content

CompactCheck(j) ==
    /\ jobs[j].pc = "check"
    /\ IF Verified(j)
       THEN Step(j, [jobs[j] EXCEPT !.pc = "record"])
       ELSE Settle(j, FALSE)
    /\ UNCHANGED <<durable, load, history>>

\* The commit point.
CompactRecord(j) ==
    /\ jobs[j].pc = "record"
    /\ catalog' = catalog \cup {jobs[j].target}
    /\ Step(j, [jobs[j] EXCEPT !.pc = "prune"])
    /\ UNCHANGED <<log, objects, load, history>>

\* A load that has chosen its snapshot and has not read the rows after it.
Loading == load.pc \in {"get", "since"}

\* Fault: the log is pruned up to the room's seq, not to the snapshot's.
KeptAfterSeq(j) == {r \in log : r.seq > seq}

KeptAfterPrune(j) == {r \in log : r.seq > jobs[j].target}

CompactPrune(j) ==
    /\ jobs[j].pc = "prune"
    /\ log' = KeptAfterPrune(j)
    /\ Step(j, [jobs[j] EXCEPT !.pc = "older"])
    /\ raced' = (raced \/ Loading)
    /\ UNCHANGED <<catalog, objects, load, acked, dropped, overlapped>>

\* Fault: the snapshot just recorded counts as older.
OlderOrEqual(j) == {s \in catalog : s <= jobs[j].target}

Older(j) == {s \in catalog : s < jobs[j].target}

\* catalog.older, and the loop over what it returned.
CompactOlder(j) ==
    /\ jobs[j].pc = "older"
    /\ IF Older(j) = {}
       THEN Settle(j, TRUE)
       ELSE Step(j, [jobs[j] EXCEPT !.stale = Older(j), !.pc = "delete"])
    /\ UNCHANGED <<durable, load, history>>

CompactDelete(j) ==
    /\ jobs[j].pc = "delete"
    /\ objects' = Restrict(objects, DOMAIN objects \ {Min(jobs[j].stale)})
    /\ Step(j, [jobs[j] EXCEPT !.pc = "forget"])
    /\ raced' = (raced \/ Loading)
    /\ UNCHANGED <<log, catalog, load, acked, dropped, overlapped>>

CompactForget(j) ==
    LET rest == jobs[j].stale \ {Min(jobs[j].stale)} IN
    /\ jobs[j].pc = "forget"
    /\ catalog' = catalog \ {Min(jobs[j].stale)}
    /\ IF rest = {}
       THEN Settle(j, TRUE)
       ELSE Step(j, [jobs[j] EXCEPT !.stale = rest, !.pc = "delete"])
    /\ UNCHANGED <<log, objects, load, history>>

\* Any awaited call of a compaction may throw.
CompactFails(j) ==
    /\ Running(j)
    /\ Settle(j, FALSE)
    /\ UNCHANGED <<durable, load, history>>

Compact(j) ==
    \/ CompactLatest(j) \/ CompactSince(j) \/ CompactBase(j) \/ CompactPut(j)
    \/ CompactCheck(j) \/ CompactRecord(j) \/ CompactPrune(j) \/ CompactOlder(j)
    \/ CompactDelete(j) \/ CompactForget(j)

-----------------------------------------------------------------------------
\* The end of a room and of the process

\* releaseRoom and doc.destroy.  Appends and compactions of the room go on.
Release ==
    /\ phase' = "closed"
    /\ connected' = FALSE
    /\ doc' = {}
    /\ seq' = 0
    /\ compactedSeq' = 0
    /\ compacting' = FALSE
    /\ awaiting' = 0
    /\ queue' = [i \in DOMAIN queue |-> [queue[i] EXCEPT !.live = FALSE]]
    /\ jobs' = [j \in Jobs |-> [jobs[j] EXCEPT !.live = FALSE]]
    /\ UNCHANGED <<durable, load, history>>

\* The idle timer fires in a room without sessions.
Evict ==
    /\ phase = "open"
    /\ ~connected
    /\ Release

\* rooms.close(): wait for the appends in flight now, then compact, then release.
BeginClose ==
    /\ phase = "open"
    /\ phase' = "draining"
    /\ awaiting' = Len(queue)
    /\ UNCHANGED <<durable, connected, doc, seq, compactedSeq, compacting, queue,
                   load, jobs, history>>

CloseFold ==
    /\ phase = "draining"
    /\ awaiting = 0
    /\ phase' = "folding"
    /\ \E j \in Jobs : StartJob(j, seq, TRUE)
    /\ UNCHANGED <<durable, connected, doc, seq, compactedSeq, compacting, queue,
                   awaiting, load, acked, dropped, raced>>

CloseRelease ==
    /\ phase = "folded"
    /\ Release

\* The process dies (a crash, or the exit that follows a shutdown) and a new one starts.
Crash ==
    /\ phase' = "closed"
    /\ connected' = FALSE
    /\ doc' = {}
    /\ seq' = 0
    /\ compactedSeq' = 0
    /\ compacting' = FALSE
    /\ queue' = <<>>
    /\ awaiting' = 0
    /\ load' = NoLoad
    /\ jobs' = [j \in Jobs |-> IdleJob]
    /\ UNCHANGED <<durable, history>>

-----------------------------------------------------------------------------
Load == LoadLatest \/ LoadGet \/ LoadSince \/ OpenRoom
Session == Join \/ Leave \/ \E u \in Updates : Receive(u)
AppendReturns == AppendOk \/ \E written \in BOOLEAN : AppendFails(written)
Closing == BeginClose \/ CloseFold \/ CloseRelease

Next ==
    \/ BeginLoad \/ Load \/ LoadFails
    \/ Session
    \/ AppendReturns
    \/ \E j \in Jobs : Compact(j) \/ CompactFails(j)
    \/ Evict \/ Closing \/ Crash

Spec == Init /\ [][Next]_vars

\* The database and the object store answer (with a result or an error), and
\* a shutdown that was begun is carried on.
Fairness ==
    /\ WF_vars(Load)
    /\ WF_vars(AppendReturns)
    /\ \A j \in Jobs : WF_vars(Compact(j) \/ CompactFails(j))
    /\ WF_vars(CloseFold \/ CloseRelease)

FairSpec == Spec /\ Fairness

\* The order of a compaction's steps was designed for one compaction of a
\* board at a time; these are the behaviours in which that is so.
SerialSpec == Init /\ [][Next /\ ~overlapped']_vars
-----------------------------------------------------------------------------
(* Properties *)

\* ADR-009, "durable before ack": an update announced as saved is found by
\* every later load, whatever compactions, failures and crashes came between,
\* as long as no two compactions of the board were in flight at once.
AckedIsStored == ~overlapped => acked \subseteq Stored

\* The snapshot a load would choose can be read, so the board can be opened: no
\* put, garbage collection or failed compaction takes its bytes away, not even
\* when two compactions of the board overlap.
LatestIsReadable == Latest \in DOMAIN objects \cup {0}

\* A recorded snapshot has no causal gap: compacting never makes an incomplete
\* document permanent (step 2 of the compactor's header), overlap or not.
SnapshotsAreWhole == \A s \in catalog \cap DOMAIN objects : ~Gap(objects[s])

\* A room serves every update that was announced as saved, unless the room
\* before it, released with work in flight, removed rows or objects between two
\* queries of the load or appended a row after them.
RoomIsComplete ==
    (InMemory /\ ~raced /\ ~overlapped) => acked \subseteq doc

\* Appends of one board are serial, so the stored updates are causally closed
\* unless some append failed and left no row.
GapOnlyAfterDrop == (~dropped /\ ~overlapped) => ~Gap(Stored)

\* What a room says is saved up to, its seq, was really handed out, and the
\* rows a compaction is asked to fold exist or were folded before.
SeqWasHandedOut ==
    /\ seq <= HighWater
    /\ \A j \in Jobs : jobs[j].target <= HighWater

\* Sequence numbers are never handed out twice, not even after a prune emptied
\* the log, nor when compactions overlap.
SeqNeverReused == [][HighWater' >= HighWater]_vars

\* A compaction does not stay in flight, so the room can compact again.
CompactionEnds == compacting ~> ~compacting

\* A shutdown gets through its writes and its compaction to the release.
ShutdownEnds == (phase \in {"draining", "folding", "folded"}) ~> (phase = "closed")

\* With one compaction at a time, this is a board whose stored updates only grow.
Durable == INSTANCE DurableBoard WITH stored <- Stored
ImplementsDurable == Durable!Spec

\* room.ts says of the order of the compactor's steps that two compactions at
\* once are what it assumes never happens, and the compactor's header that only
\* pruning before recording loses data: nothing saved is ever lost.
NothingSavedIsLost == acked \subseteq Stored
=============================================================================
