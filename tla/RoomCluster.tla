---------------------------- MODULE RoomCluster ----------------------------
(***************************************************************************)
(* One board served by several realtime nodes.  Every node may hold a room *)
(* of the board; the rooms exchange their clients' updates over Redis      *)
(* pub/sub, and the node that holds the board's lease in Redis, its owner, *)
(* is the one that writes updates to the log.                              *)
(*                                                                         *)
(* The log and its snapshots are one durable set of updates here (what     *)
(* BoardPersistence implements), and a load reads all of it at once.  A    *)
(* node's calls to Redis are answered later: a lock call takes effect when *)
(* it is made and its reply is handled in a step of its own.               *)
(***************************************************************************)
EXTENDS Naturals, Sequences

CONSTANTS
    Nodes,
    Updates,        \* the updates clients may make
    Nobody,         \* the owner key is not set
    Faults,         \* what may go wrong, of FaultKinds
    MaxFaults       \* bound of the model: how often something goes wrong

FaultKinds == {"load", "reply", "lapse", "append", "message", "evict", "crash"}


ASSUME NobodyAssumption == Nobody \notin Nodes
ASSUME FaultsAssumption == Faults \subseteq FaultKinds
ASSUME MaxFaultsAssumption == MaxFaults \in Nat

VARIABLES
    stored,     \* the updates a load of the board finds
    lastSeq,    \* the last sequence number of the log
    holder,     \* the value of hb:owner:<board>
    net,        \* messages on their way to a node, and those it buffers
    phase,      \* life of the node's room
    doc,        \* the updates the room's document was given
    owner,      \* LiveRoom.owner
    seq,        \* LiveRoom.seq
    queue,      \* appends of the node, in the log's queue of the board
    call,       \* the node's lock call that was not answered yet
    faults,     \* how many faults there were
    \* history
    lapsed,     \* the node's lease ran out after its last successful lock call
    failed,     \* updates whose append failed
    early,      \* updates that came to the room before its first lock answer
    missed      \* a loaded room could not learn what a room that ended had written

durable == <<stored, lastSeq>>
room    == <<phase, doc, owner, seq>>
history == <<lapsed, failed, early, missed>>
vars    == <<stored, lastSeq, holder, net, phase, doc, owner, seq, queue,
             call, faults, lapsed, failed, early, missed>>

-----------------------------------------------------------------------------
\* Types and initial state

Phases == {"closed", "subscribed", "loaded", "claiming", "open"}

UpdateMessage == [kind : {"update"}, updates : SUBSET Updates]
SavedMessage  == [kind : {"saved"}, seq : Nat]
StateRequest  == [kind |-> "request"]
Message == UpdateMessage \cup SavedMessage \cup {StateRequest}

\* An append: the number of its row, 0 before the row is there.
Entry == [updates : SUBSET Updates, live : BOOLEAN, seq : Nat]

NoCall == [kind |-> "none", answer |-> "no", live |-> FALSE, doc |-> {}]

\* A lock call: its kind follows from what the room believed when it was made.
Call == [kind : {"none", "claim", "acquire", "renew"}, answer : {"yes", "no", "error"},
         live : BOOLEAN, doc : SUBSET Updates]

TypeOK ==
    /\ stored \in SUBSET Updates
    /\ lastSeq \in Nat
    /\ holder \in Nodes \cup {Nobody}
    /\ net \in [Nodes -> Seq(Message)]
    /\ phase \in [Nodes -> Phases]
    /\ doc \in [Nodes -> SUBSET Updates]
    /\ owner \in [Nodes -> BOOLEAN]
    /\ seq \in [Nodes -> Nat]
    /\ queue \in [Nodes -> Seq(Entry)]
    /\ call \in [Nodes -> Call]
    /\ faults \in Nat
    /\ lapsed \in SUBSET Nodes
    /\ failed \in [Nodes -> SUBSET Updates]
    /\ early \in [Nodes -> SUBSET Updates]
    /\ missed \in BOOLEAN

Init ==
    /\ stored = {} /\ lastSeq = 0 /\ holder = Nobody
    /\ net = [n \in Nodes |-> <<>>]
    /\ phase = [n \in Nodes |-> "closed"]
    /\ doc = [n \in Nodes |-> {}]
    /\ owner = [n \in Nodes |-> FALSE]
    /\ seq = [n \in Nodes |-> 0]
    /\ queue = [n \in Nodes |-> <<>>]
    /\ call = [n \in Nodes |-> NoCall]
    /\ faults = 0
    /\ lapsed = {}
    /\ failed = [n \in Nodes |-> {}]
    /\ early = [n \in Nodes |-> {}]
    /\ missed = FALSE

-----------------------------------------------------------------------------
\* The bus and the log

Subscribed(n) == phase[n] # "closed"
Wired(n)      == phase[n] \in {"claiming", "open"}

Fault(kind) == kind \in Faults /\ faults < MaxFaults /\ faults' = faults + 1

\* publishToBus: a message goes to the other nodes that are subscribed.
Receivers(n) == {m \in Nodes \ {n} : Subscribed(m)}

\* Redis gives the messages of all its channels to each subscriber in one order.
Publish(n, messages) ==
    net' = [m \in Nodes |-> IF m \in Receivers(n) THEN net[m] \o messages ELSE net[m]]

\* Node n takes the first message that came, and publishes others.
Exchange(n, messages) ==
    net' = [m \in Nodes |-> IF m = n THEN Tail(net[n])
                            ELSE IF m \in Receivers(n) THEN net[m] \o messages
                            ELSE net[m]]

\* UPDATE, with one client update or with the state of a whole document.
Carrying(updates) == [kind |-> "update", updates |-> updates]

Entered(updates) == [updates |-> updates, live |-> TRUE, seq |-> 0]

Newer(s, t) == IF s >= t THEN s ELSE t

-----------------------------------------------------------------------------
\* Opening a room: open() in room.ts

\* open() subscribes before it reads the database.
BeginOpen(n) ==
    /\ phase[n] = "closed"
    /\ phase' = [phase EXCEPT ![n] = "subscribed"]
    /\ UNCHANGED <<durable, holder, net, doc, owner, seq, queue, call, faults, history>>

LoadBoard(n) ==
    /\ phase[n] = "subscribed"
    /\ phase' = [phase EXCEPT ![n] = "loaded"]
    /\ doc' = [doc EXCEPT ![n] = stored]
    /\ UNCHANGED <<durable, holder, net, owner, seq, queue, call, faults, history>>

\* Fault: the other rooms are not asked for what they have.
AsksNobody(n) == UNCHANGED net

Asks(n) == Publish(n, <<StateRequest>>)

\* Faults: the first room of a board finds no number; one that is not given out.
LastRowOrNone == IF lastSeq = 0 THEN Nobody ELSE lastSeq
NextRow == lastSeq + 1

\* latestSeq of the log.
LastRow == lastSeq

\* The room is made, and the other rooms are asked for their state.  What came
\* since the room subscribed was buffered and is the first that it handles.
OpenRoom(n) ==
    /\ phase[n] = "loaded"
    /\ phase' = [phase EXCEPT ![n] = "claiming"]
    /\ seq' = [seq EXCEPT ![n] = LastRow]
    /\ Asks(n)
    /\ UNCHANGED <<durable, holder, doc, owner, queue, call, faults, history>>

\* The load throws, or the document is too large.
OpenFails(n) ==
    /\ phase[n] \in {"subscribed", "loaded"}
    /\ Fault("load")
    /\ phase' = [phase EXCEPT ![n] = "closed"]
    /\ doc' = [doc EXCEPT ![n] = {}]
    /\ net' = [net EXCEPT ![n] = <<>>]
    /\ UNCHANGED <<durable, holder, owner, seq, queue, call, history>>

-----------------------------------------------------------------------------
\* The owner lock and refreshOwnership

\* Fault: the lock is set without asking whether it is.
AcquirableAlways(n) == TRUE

\* SET NX, then "or it was mine already".
Acquirable(n) == holder \in {Nobody, n}

\* Fault: the lease is extended whoever holds it.
RenewableBlindly(n) == TRUE

\* The renewal script compares the value before it extends the lease.
Renewable(n) == holder = n

CallOf(n) == IF phase[n] = "claiming" THEN "claim" ELSE IF owner[n] THEN "renew" ELSE "acquire"

Grants(n) == IF owner[n] THEN Renewable(n) ELSE Acquirable(n)

\* Fault: only an owner keeps its timer.
RefreshesAsOwner(n) == phase[n] = "claiming" \/ (phase[n] = "open" /\ owner[n])

\* The first call is made by open(), the later ones by the room's timer.
Refreshes(n) == Wired(n)

\* A call that tells the room what it knows changes nothing, and is left out.
Settled(n) == phase[n] = "open" /\ holder # Nobody /\ owner[n] = (holder = n)

\* The command reaches Redis; the reply may get lost, and so may the command.
LockCall(n) ==
    /\ Refreshes(n)
    /\ call[n].kind = "none"
    /\ \E answer \in {"yes", "no", "error"} :
           /\ Settled(n) => answer = "error"
           /\ call' = [call EXCEPT ![n] = [kind |-> CallOf(n), answer |-> answer,
                                           live |-> TRUE, doc |-> {}]]
           /\ \/ /\ answer = IF Grants(n) THEN "yes" ELSE "no"
                 /\ UNCHANGED faults
              \/ answer = "error" /\ Fault("reply")
           /\ \/ /\ Grants(n)
                 /\ holder' = IF owner[n] THEN holder ELSE n
                 /\ lapsed' = lapsed \ {n}
              \/ /\ answer # "yes"
                 /\ UNCHANGED <<holder, lapsed>>
    /\ UNCHANGED <<durable, net, room, queue, failed, early, missed>>

\* Fault: an owner that lost its lease writes on from where it is.
CatchUpNever(n) == FALSE

\* Ownership was taken, and not by the call that open() makes.
CatchUp(n) == call[n].kind = "acquire" /\ call[n].answer = "yes"

\* refreshOwnership goes on.  A new owner writes the whole document.
LockReply(n) ==
    /\ call[n].kind # "none"
    /\ call' = [call EXCEPT ![n] = NoCall]
    /\ IF call[n].live
       THEN /\ owner' = [owner EXCEPT ![n] = call[n].answer = "yes"]
            /\ phase' = [phase EXCEPT ![n] = "open"]
            /\ early' = [early EXCEPT ![n] = IF CatchUp(n) \/ call[n].answer # "yes"
                                             THEN {} ELSE @]
       ELSE UNCHANGED <<owner, phase, early>>
    /\ failed' = IF CatchUp(n) /\ call[n].live THEN [failed EXCEPT ![n] = {}] ELSE failed
    /\ queue' = [queue EXCEPT ![n] =
                     IF CatchUp(n)
                     THEN Append(@, [Entered(IF call[n].live THEN doc[n] ELSE call[n].doc)
                                         EXCEPT !.live = call[n].live])
                     ELSE @]
    /\ UNCHANGED <<durable, holder, net, doc, seq, faults, lapsed, missed>>

\* The lease runs out: of a node that is gone, or of a slow one.
Expire ==
    /\ holder # Nobody
    /\ holder' = Nobody
    /\ lapsed' = lapsed \cup {holder}
    /\ IF owner[holder] \/ call[holder].answer = "yes" THEN Fault("lapse") ELSE UNCHANGED faults
    /\ UNCHANGED <<durable, net, room, queue, call, failed, early, missed>>

-----------------------------------------------------------------------------
\* Updates: wireDocument, handleBus, persistAndFanout

Written(n, new) ==
    queue' = IF owner[n] /\ new # {} THEN [queue EXCEPT ![n] = Append(@, Entered(new))]
             ELSE queue

\* Fault: only what the node's own clients made is written.
WrittenFromBusNever(n, new) == UNCHANGED queue

\* An update from the bus is written as well, when this node is the owner.
WrittenFromBus(n, new) == Written(n, new)

\* A client of the node makes an update, or offers one the room lacks.
ClientUpdate(n, u) ==
    /\ phase[n] = "open"
    /\ u \notin doc[n]
    /\ doc' = [doc EXCEPT ![n] = @ \cup {u}]
    /\ Publish(n, <<Carrying({u})>>)
    /\ Written(n, {u})
    /\ UNCHANGED <<durable, holder, phase, owner, seq, call, faults, history>>

\* Fault: what came last is taken for what is newest.
SeqFromLastMessage(n, m) == m.seq

\* "Saved" must not go back: messages of the bus come in any order.
SeqAfterSaved(n, m) == Newer(seq[n], m.seq)

HandleUpdate(n, m) ==
    LET new == m.updates \ doc[n] IN
    /\ m.kind = "update"
    /\ doc' = [doc EXCEPT ![n] = @ \cup new]
    /\ early' = [early EXCEPT ![n] = IF phase[n] # "open" THEN @ \cup new ELSE @]
    /\ WrittenFromBus(n, new)
    /\ Exchange(n, <<>>)
    /\ UNCHANGED <<durable, holder, phase, owner, seq, call, faults, lapsed,
                   failed, missed>>

HandleSaved(n, m) ==
    /\ m.kind = "saved"
    /\ seq' = [seq EXCEPT ![n] = SeqAfterSaved(n, m)]
    /\ Exchange(n, <<>>)
    /\ UNCHANGED <<durable, holder, phase, doc, owner, queue, call, faults, history>>

\* A room that is asked answers with the whole state of its document.
HandleRequest(n, m) ==
    /\ m.kind = "request"
    /\ Exchange(n, <<Carrying(doc[n])>>)
    /\ UNCHANGED <<durable, holder, room, queue, call, faults, history>>

HandleBus(n) ==
    /\ Wired(n)
    /\ net[n] # <<>>
    /\ LET m == Head(net[n]) IN HandleUpdate(n, m) \/ HandleSaved(n, m) \/ HandleRequest(n, m)

\* A message does not come: pub/sub keeps nothing for who is not connected.
LoseMessage(n) ==
    /\ net[n] # <<>>
    /\ Fault("message")
    /\ net' = [net EXCEPT ![n] = Tail(@)]
    /\ missed' = TRUE
    /\ UNCHANGED <<durable, holder, room, queue, call, lapsed, failed, early>>

\* The row of the append at the head of the queue is inserted.
AppendInsert(n) ==
    /\ queue[n] # <<>> /\ Head(queue[n]).seq = 0
    /\ lastSeq' = lastSeq + 1
    /\ stored' = stored \cup Head(queue[n]).updates
    /\ queue' = [queue EXCEPT ![n][1].seq = lastSeq + 1]
    /\ missed' = (missed \/ ~Head(queue[n]).live)
    /\ UNCHANGED <<holder, net, room, call, faults, lapsed, failed, early>>

\* Fault: the number of the row becomes the room's, whatever it heard meanwhile.
SeqOfRow(n) == Head(queue[n]).seq

SeqAfterAppend(n) == Newer(seq[n], Head(queue[n]).seq)

\* The append returns: the room and, over the bus, the other rooms say "saved".
AppendReturn(n) ==
    LET saved == IF Head(queue[n]).live THEN SeqAfterAppend(n) ELSE Head(queue[n]).seq IN
    /\ queue[n] # <<>> /\ Head(queue[n]).seq # 0
    /\ queue' = [queue EXCEPT ![n] = Tail(@)]
    /\ seq' = IF Head(queue[n]).live THEN [seq EXCEPT ![n] = saved] ELSE seq
    /\ Publish(n, <<[kind |-> "saved", seq |-> saved]>>)
    /\ UNCHANGED <<durable, holder, phase, doc, owner, call, faults, history>>

\* The append throws, before or after its row was inserted.
AppendFails(n) ==
    /\ queue[n] # <<>>
    /\ Fault("append")
    /\ queue' = [queue EXCEPT ![n] = Tail(@)]
    /\ failed' = IF Head(queue[n]).live
                 THEN [failed EXCEPT ![n] = @ \cup Head(queue[n]).updates]
                 ELSE failed
    /\ UNCHANGED <<durable, holder, net, room, call, lapsed, early, missed>>

-----------------------------------------------------------------------------
\* The end of a room and of a node

Asked(n) == \E i \in DOMAIN net[n] : net[n][i] = StateRequest

Forget(n) ==
    /\ phase' = [phase EXCEPT ![n] = "closed"]
    /\ doc' = [doc EXCEPT ![n] = {}]
    /\ owner' = [owner EXCEPT ![n] = FALSE]
    /\ seq' = [seq EXCEPT ![n] = 0]
    /\ net' = [net EXCEPT ![n] = <<>>]
    /\ failed' = [failed EXCEPT ![n] = {}]
    /\ early' = [early EXCEPT ![n] = {}]
    /\ missed' = (missed \/ Asked(n) \/ \E m \in Nodes : phase[m] = "loaded")

\* The release script compares the value before it deletes the key.
Released(n) == IF holder = n THEN Nobody ELSE holder

\* The released room, which nobody finds any more, keeps its number.
Orphaned(n, entry) ==
    [entry EXCEPT !.live = FALSE, !.seq = IF @ = 0 THEN 0 ELSE Newer(@, seq[n])]

\* The last session left long ago, or the node shuts down: releaseRoom.  An
\* owner gives its lease back; appends and a lock call under way go on.
Evict(n) ==
    /\ phase[n] = "open"
    /\ Fault("evict")
    /\ Forget(n)
    /\ holder' \in IF owner[n] THEN {Released(n), holder} ELSE {holder}
    /\ queue' = [queue EXCEPT ![n] = [i \in DOMAIN @ |-> Orphaned(n, @[i])]]
    /\ call' = [call EXCEPT ![n] = IF @.kind = "none" THEN @
                                   ELSE [@ EXCEPT !.live = FALSE, !.doc = doc[n]]]
    /\ UNCHANGED <<durable, lapsed>>

\* The process dies with everything in its memory; its lease stays.
Crash(n) ==
    /\ Fault("crash")
    /\ Forget(n)
    /\ queue' = [queue EXCEPT ![n] = <<>>]
    /\ call' = [call EXCEPT ![n] = NoCall]
    /\ UNCHANGED <<durable, holder, lapsed>>

-----------------------------------------------------------------------------
Opening(n)   == BeginOpen(n) \/ LoadBoard(n) \/ OpenRoom(n) \/ OpenFails(n)
Ownership(n) == LockCall(n) \/ LockReply(n)
Writing(n)   == AppendInsert(n) \/ AppendReturn(n) \/ AppendFails(n)
Ending(n)    == Evict(n) \/ Crash(n)

Next ==
    \/ \E n \in Nodes : \/ Opening(n) \/ Ownership(n) \/ Writing(n) \/ Ending(n)
                        \/ HandleBus(n) \/ LoseMessage(n)
                        \/ \E u \in Updates : ClientUpdate(n, u)
    \/ Expire

Spec == Init /\ [][Next]_vars

\* Timers fire, Redis answers and a lease that is not renewed runs out.
Fairness ==
    /\ \A n \in Nodes : WF_vars(LockCall(n)) /\ WF_vars(LockReply(n))
    /\ WF_vars(Expire)

FairSpec == Spec /\ Fairness
-----------------------------------------------------------------------------
(* Properties *)

\* A room that believes to be the owner holds the lease in Redis, unless the
\* lease ran out since its last successful call: neither a release, nor a
\* renewal, nor a reply to a room that is gone gives a lease to two nodes.
OwnerHoldsLease == \A n \in Nodes : owner[n] => holder = n \/ n \in lapsed

\* The room of node n is about to write the update.
Queued(n, u) == \E i \in DOMAIN queue[n] : queue[n][i].live /\ u \in queue[n][i].updates

\* The owner has written, or is about to write, all its document holds, also
\* what was made while nobody was the owner; except for appends that failed and
\* for what came between the load of the room and its first lock answer.
OwnerWrites ==
    \A n \in Nodes :
        owner[n] => \A u \in doc[n] : u \in stored \cup failed[n] \cup early[n] \/ Queued(n, u)

\* What a room says is saved up to was given to a row.
SeqWasHandedOut == \A n \in Nodes : seq[n] <= lastSeq

\* "Saved" never goes back in a room.
SeqNeverFalls ==
    [][\A n \in Nodes : (phase[n] = "open" /\ phase'[n] = "open") => seq'[n] >= seq[n]]_vars

\* When all messages have arrived, all open rooms hold the same updates, and all
\* that are stored: none missed what another made, or wrote, between its own
\* subscription and its own load.  A room that ended could not answer those that
\* were just opening, nor tell them of its last row.
Quiet == \A n \in Nodes : \A i \in DOMAIN net[n] : net[n][i].kind = "saved"
QuietRoomsAgree ==
    (Quiet /\ ~missed) =>
        \A m, n \in Nodes :
            phase[m] = "open" /\ phase[n] = "open" => doc[m] = doc[n] /\ stored \subseteq doc[n]

\* A board with an open room does not stay without an owner.
OwnerReturns ==
    (\E n \in Nodes : phase[n] = "open") ~>
        (\E n \in Nodes : owner[n]) \/ (\A n \in Nodes : phase[n] # "open")

\* owner-lock.ts and room.ts say that the next owner writes what was made while
\* nobody was, and that the first acquisition of a room has nothing to catch up.
NextOwnerWrites ==
    \A n \in Nodes :
        owner[n] => \A u \in doc[n] : u \in stored \cup failed[n] \/ Queued(n, u)
=============================================================================
