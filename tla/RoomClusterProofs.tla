------------------------- MODULE RoomClusterProofs -------------------------
(* What holds of the cluster for any nodes, updates and number of failures. *)
EXTENDS RoomCluster, SequenceTheorems, TLAPS

\* What a node publishes keeps the type of the network.
LEMMA PublishType ==
    ASSUME TypeOK, NEW n \in Nodes, NEW messages \in Seq(Message), Publish(n, messages)
    PROVE  net' \in [Nodes -> Seq(Message)]
  BY DEF TypeOK, Publish

LEMMA ExchangeType ==
    ASSUME TypeOK, NEW n \in Nodes, NEW messages \in Seq(Message), net[n] # <<>>,
           Exchange(n, messages)
    PROVE  net' \in [Nodes -> Seq(Message)]
  <1>1. Tail(net[n]) \in Seq(Message)
    BY HeadTailProperties DEF TypeOK
  <1> QED  BY <1>1 DEF TypeOK, Exchange

LEMMA MessageTypes ==
    /\ StateRequest \in Message
    /\ \A updates \in SUBSET Updates : Carrying(updates) \in Message
    /\ \A s \in Nat : [kind |-> "saved", seq |-> s] \in Message
  BY DEF Message, StateRequest, Carrying, UpdateMessage, SavedMessage

LEMMA EntryTypes ==
    /\ \A updates \in SUBSET Updates : Entered(updates) \in Entry
    /\ \A e \in Entry, s \in Nat : [e EXCEPT !.seq = s] \in Entry
    /\ \A e \in Entry, b \in BOOLEAN : [e EXCEPT !.live = b] \in Entry
  BY DEF Entered, Entry

LEMMA HeadTypes ==
    ASSUME TypeOK, NEW n \in Nodes, queue[n] # <<>>
    PROVE  /\ Head(queue[n]) \in Entry
           /\ Head(queue[n]) = queue[n][1]
           /\ Tail(queue[n]) \in Seq(Entry)
           /\ 1 \in DOMAIN queue[n]
  BY HeadTailProperties, EmptySeq, LenProperties DEF TypeOK

-----------------------------------------------------------------------------
\* Types

LEMMA TypeInit == Init => TypeOK
  <1> SUFFICES ASSUME Init PROVE TypeOK
    OBVIOUS
  <1>1. NoCall \in Call
    BY DEF NoCall, Call
  <1>2. <<>> \in Seq(Message) /\ <<>> \in Seq(Entry)
    BY EmptySeq
  <1>3. call \in [Nodes -> Call] /\ net \in [Nodes -> Seq(Message)]
        /\ queue \in [Nodes -> Seq(Entry)]
    BY <1>1, <1>2 DEF Init
  <1> QED  BY <1>3 DEF Init, TypeOK, Phases

LEMMA TypeOpening ==
    ASSUME TypeOK, NEW n \in Nodes, Opening(n)
    PROVE  TypeOK'
  <1>1. CASE BeginOpen(n)
    BY <1>1 DEF BeginOpen, TypeOK, Phases, durable, history
  <1>2. CASE LoadBoard(n)
    BY <1>2 DEF LoadBoard, TypeOK, Phases, durable, history
  <1>3. CASE OpenRoom(n)
    <2>1. <<StateRequest>> \in Seq(Message)
      BY MessageTypes
    <2>2. net' \in [Nodes -> Seq(Message)]
      BY <1>3, <2>1, PublishType DEF OpenRoom, Asks
    <2> QED  BY <1>3, <2>2 DEF OpenRoom, TypeOK, Phases, LastRow, durable, history
  <1>4. CASE OpenFails(n)
    BY <1>4, EmptySeq DEF OpenFails, TypeOK, Phases, Fault, durable, history
  <1> QED  BY <1>1, <1>2, <1>3, <1>4 DEF Opening

LEMMA TypeOwnership ==
    ASSUME TypeOK, NEW n \in Nodes, Ownership(n)
    PROVE  TypeOK'
  <1>1. CASE LockCall(n)
    <2>1. call' \in [Nodes -> Call]
      BY <1>1 DEF LockCall, TypeOK, Call, CallOf
    <2>2. holder' \in Nodes \cup {Nobody} /\ lapsed' \in SUBSET Nodes /\ faults' \in Nat
      BY <1>1 DEF LockCall, TypeOK, Fault
    <2> QED  BY <1>1, <2>1, <2>2 DEF LockCall, TypeOK, durable, room
  <1>2. CASE LockReply(n)
    <2>1. call' \in [Nodes -> Call]
      BY <1>2 DEF LockReply, TypeOK, Call, NoCall
    <2>2. failed' \in [Nodes -> SUBSET Updates]
      BY <1>2 DEF LockReply, TypeOK
    <2>4. /\ owner' \in [Nodes -> BOOLEAN] /\ phase' \in [Nodes -> Phases]
          /\ early' \in [Nodes -> SUBSET Updates]
      <3>1. CASE call[n].live
        <4>1. owner' = [owner EXCEPT ![n] = call[n].answer = "yes"]
          BY <1>2, <3>1 DEF LockReply
        <4>2. phase' = [phase EXCEPT ![n] = "open"]
          BY <1>2, <3>1 DEF LockReply
        <4>3. early' = [early EXCEPT ![n] = {}] \/ early' = [early EXCEPT ![n] = early[n]]
          BY <1>2, <3>1 DEF LockReply
        <4>4. owner' \in [Nodes -> BOOLEAN]
          BY <4>1, Zenon DEF TypeOK
        <4> QED  BY <4>2, <4>3, <4>4 DEF TypeOK, Phases
      <3>2. CASE ~call[n].live
        BY <1>2, <3>2 DEF LockReply, TypeOK
      <3> QED  BY <3>1, <3>2
    <2>3. queue' \in [Nodes -> Seq(Entry)]
      <3>1. call[n].doc \in SUBSET Updates /\ call[n].live \in BOOLEAN /\ doc[n] \in SUBSET Updates
        BY DEF TypeOK, Call
      <3>2. [Entered(IF call[n].live THEN doc[n] ELSE call[n].doc)
                EXCEPT !.live = call[n].live] \in Entry
        BY <3>1, EntryTypes
      <3> QED  BY <1>2, <3>2, AppendProperties DEF LockReply, TypeOK
    <2> QED  BY <1>2, <2>1, <2>2, <2>3, <2>4 DEF LockReply, TypeOK, durable
  <1> QED  BY <1>1, <1>2 DEF Ownership

LEMMA TypeExpire ==
    ASSUME TypeOK, Expire
    PROVE  TypeOK'
  BY DEF Expire, TypeOK, Fault, durable, room

LEMMA WrittenType ==
    ASSUME TypeOK, NEW n \in Nodes, NEW new \in SUBSET Updates, Written(n, new)
    PROVE  queue' \in [Nodes -> Seq(Entry)]
  BY EntryTypes, AppendProperties DEF Written, TypeOK

LEMMA TypeClientUpdate ==
    ASSUME TypeOK, NEW n \in Nodes, NEW u \in Updates, ClientUpdate(n, u)
    PROVE  TypeOK'
  <1>1. <<Carrying({u})>> \in Seq(Message)
    BY MessageTypes
  <1>2. net' \in [Nodes -> Seq(Message)]
    BY <1>1, PublishType DEF ClientUpdate
  <1>3. queue' \in [Nodes -> Seq(Entry)]
    BY WrittenType DEF ClientUpdate
  <1> QED  BY <1>2, <1>3 DEF ClientUpdate, TypeOK, durable, history

\* The message a room handles.
LEMMA BusHead ==
    ASSUME TypeOK, NEW n \in Nodes, net[n] # <<>>
    PROVE  /\ Head(net[n]) \in Message
           /\ Head(net[n]).kind = "update" => Head(net[n]).updates \in SUBSET Updates
           /\ Head(net[n]).kind = "saved" => Head(net[n]).seq \in Nat
  <1>1. Head(net[n]) \in Message
    BY HeadTailProperties DEF TypeOK
  <1> QED  BY <1>1 DEF Message, UpdateMessage, SavedMessage, StateRequest

LEMMA TypeHandleBus ==
    ASSUME TypeOK, NEW n \in Nodes, HandleBus(n)
    PROVE  TypeOK'
  <1> DEFINE m == Head(net[n])
  <1>0. net[n] # <<>> /\ <<>> \in Seq(Message)
    BY EmptySeq DEF HandleBus
  <1>1. CASE HandleUpdate(n, m)
    <2>1. m.updates \in SUBSET Updates
      BY <1>0, <1>1, BusHead DEF HandleUpdate
    <2>2. net' \in [Nodes -> Seq(Message)]
      BY <1>0, <1>1, ExchangeType DEF HandleUpdate
    <2>3. queue' \in [Nodes -> Seq(Entry)]
      BY <1>1, <2>1, WrittenType DEF HandleUpdate, WrittenFromBus
    <2> HIDE DEF m
    <2> QED  BY <1>1, <2>1, <2>2, <2>3 DEF HandleUpdate, TypeOK, durable
  <1>2. CASE HandleSaved(n, m)
    <2>1. m.seq \in Nat
      BY <1>0, <1>2, BusHead DEF HandleSaved
    <2>2. net' \in [Nodes -> Seq(Message)]
      BY <1>0, <1>2, ExchangeType DEF HandleSaved
    <2> HIDE DEF m
    <2> QED  BY <1>2, <2>1, <2>2 DEF HandleSaved, SeqAfterSaved, Newer, TypeOK, durable, history
  <1>3. CASE HandleRequest(n, m)
    <2>1. <<Carrying(doc[n])>> \in Seq(Message)
      BY MessageTypes DEF TypeOK
    <2>2. net' \in [Nodes -> Seq(Message)]
      BY <1>0, <1>3, <2>1, ExchangeType DEF HandleRequest
    <2> QED  BY <1>3, <2>2 DEF HandleRequest, TypeOK, durable, room, history
  <1> QED  BY <1>1, <1>2, <1>3 DEF HandleBus

LEMMA TypeLoseMessage ==
    ASSUME TypeOK, NEW n \in Nodes, LoseMessage(n)
    PROVE  TypeOK'
  <1>1. Tail(net[n]) \in Seq(Message)
    BY HeadTailProperties DEF TypeOK, LoseMessage
  <1> QED  BY <1>1 DEF LoseMessage, TypeOK, Fault, durable, room

LEMMA TypeWriting ==
    ASSUME TypeOK, NEW n \in Nodes, Writing(n)
    PROVE  TypeOK'
  <1>1. CASE AppendInsert(n)
    <2>1. lastSeq + 1 \in Nat /\ queue[n] # <<>>
      BY <1>1 DEF AppendInsert, TypeOK
    <2>2. queue[n][1] \in Entry /\ 1 \in DOMAIN queue[n] /\ queue[n] \in Seq(Entry)
      BY <2>1, HeadTypes DEF TypeOK
    <2>3. [queue[n][1] EXCEPT !.seq = lastSeq + 1] \in Entry
      BY <2>1, <2>2, EntryTypes
    <2>4. [queue[n] EXCEPT ![1] = [queue[n][1] EXCEPT !.seq = lastSeq + 1]] \in Seq(Entry)
      BY <2>2, <2>3, ExceptSeq
    <2>5. queue' \in [Nodes -> Seq(Entry)]
      BY <1>1, <2>4 DEF AppendInsert, TypeOK
    <2>6. stored' \in SUBSET Updates
      BY <1>1, <2>1, HeadTypes DEF AppendInsert, TypeOK, Entry
    <2> QED  BY <1>1, <2>1, <2>5, <2>6 DEF AppendInsert, TypeOK, room
  <1>2. CASE AppendReturn(n)
    <2>1. queue[n] # <<>>
      BY <1>2 DEF AppendReturn
    <2>2. Head(queue[n]).seq \in Nat /\ seq[n] \in Nat /\ Tail(queue[n]) \in Seq(Entry)
      BY <2>1, HeadTypes DEF TypeOK, Entry
    <2> DEFINE saved == IF Head(queue[n]).live THEN SeqAfterAppend(n) ELSE Head(queue[n]).seq
    <2>3. saved \in Nat
      BY <2>2 DEF SeqAfterAppend, Newer
    <2>4. <<[kind |-> "saved", seq |-> saved]>> \in Seq(Message)
      BY <2>3, MessageTypes
    <2>5. net' \in [Nodes -> Seq(Message)]
      BY <1>2, <2>4, PublishType DEF AppendReturn
    <2>6. seq' \in [Nodes -> Nat]
      BY <1>2, <2>3 DEF AppendReturn, TypeOK
    <2>7. queue' \in [Nodes -> Seq(Entry)]
      BY <1>2, <2>2 DEF AppendReturn, TypeOK
    <2> QED  BY <1>2, <2>5, <2>6, <2>7 DEF AppendReturn, TypeOK, durable, history
  <1>3. CASE AppendFails(n)
    <2>1. Head(queue[n]).updates \in SUBSET Updates /\ Tail(queue[n]) \in Seq(Entry)
      BY <1>3, HeadTypes DEF AppendFails, Entry
    <2> QED  BY <1>3, <2>1 DEF AppendFails, TypeOK, Fault, durable, room
  <1> QED  BY <1>1, <1>2, <1>3 DEF Writing

LEMMA ForgetType ==
    ASSUME TypeOK, NEW n \in Nodes, Forget(n)
    PROVE  /\ phase' \in [Nodes -> Phases] /\ doc' \in [Nodes -> SUBSET Updates]
           /\ owner' \in [Nodes -> BOOLEAN] /\ seq' \in [Nodes -> Nat]
           /\ net' \in [Nodes -> Seq(Message)] /\ failed' \in [Nodes -> SUBSET Updates]
           /\ early' \in [Nodes -> SUBSET Updates] /\ missed' \in BOOLEAN
  BY EmptySeq DEF Forget, Asked, TypeOK, Phases

LEMMA OrphanedType ==
    ASSUME TypeOK, NEW n \in Nodes
    PROVE  [i \in DOMAIN queue[n] |-> Orphaned(n, queue[n][i])] \in Seq(Entry)
  <1>1. \A e \in Entry : Orphaned(n, e) \in Entry
    BY DEF Orphaned, Entry, Newer, TypeOK
  <1>2. queue[n] \in Seq(Entry)
    BY DEF TypeOK
  <1>3. \A i \in DOMAIN queue[n] : queue[n][i] \in Entry
    BY <1>2, ElementOfSeq, LenProperties
  <1>4. DOMAIN queue[n] = 1 .. Len(queue[n]) /\ Len(queue[n]) \in Nat
    BY <1>2, LenProperties
  <1> QED  BY <1>1, <1>3, <1>4, SeqDef

LEMMA TypeEnding ==
    ASSUME TypeOK, NEW n \in Nodes, Ending(n)
    PROVE  TypeOK'
  <1>1. CASE Evict(n)
    <2>1. Forget(n)
      BY <1>1 DEF Evict
    <2>2. holder' \in Nodes \cup {Nobody}
      BY <1>1 DEF Evict, Released, TypeOK
    <2>3. queue' \in [Nodes -> Seq(Entry)]
      BY <1>1, OrphanedType DEF Evict, TypeOK
    <2>4. call' \in [Nodes -> Call]
      <3>1. call \in [Nodes -> Call] /\ doc[n] \in SUBSET Updates
        BY DEF TypeOK
      <3>2. [call[n] EXCEPT !.live = FALSE, !.doc = doc[n]] \in Call
        BY <3>1 DEF Call
      <3> QED  BY <1>1, <3>1, <3>2 DEF Evict
    <2> QED  BY <1>1, <2>1, <2>2, <2>3, <2>4, ForgetType DEF Evict, TypeOK, Fault, durable
  <1>2. CASE Crash(n)
    <2>1. Forget(n)
      BY <1>2 DEF Crash
    <2> QED  BY <1>2, <2>1, ForgetType, EmptySeq DEF Crash, TypeOK, Fault, Call, NoCall, durable
  <1> QED  BY <1>1, <1>2 DEF Ending

LEMMA TypeNext ==
    ASSUME TypeOK, [Next]_vars
    PROVE  TypeOK'
  <1>1. CASE UNCHANGED vars
    BY <1>1 DEF TypeOK, vars
  <1>2. ASSUME NEW n \in Nodes, Opening(n) \/ Ownership(n) \/ Writing(n) \/ Ending(n)
        PROVE  TypeOK'
    BY <1>2, TypeOpening, TypeOwnership, TypeWriting, TypeEnding
  <1>3. ASSUME NEW n \in Nodes, HandleBus(n) \/ LoseMessage(n)
        PROVE  TypeOK'
    BY <1>3, TypeHandleBus, TypeLoseMessage
  <1>4. ASSUME NEW n \in Nodes, NEW u \in Updates, ClientUpdate(n, u)
        PROVE  TypeOK'
    BY <1>4, TypeClientUpdate
  <1> QED  BY <1>1, <1>2, <1>3, <1>4, TypeExpire DEF Next

\* The types of the cluster's state.
THEOREM ClusterTypeCorrect == Spec => []TypeOK
  <1> QED  BY TypeInit, TypeNext, PTL DEF Spec

-----------------------------------------------------------------------------
\* The lease

\* A reply that grants the lease is on its way to the room that asked.
Granted(n) == call[n].kind # "none" /\ call[n].live /\ call[n].answer = "yes"

\* OwnerHoldsLease alone is not inductive: a room becomes the owner by a reply
\* to a call that took effect before.
LeaseInv == \A n \in Nodes : owner[n] \/ Granted(n) => holder = n \/ n \in lapsed

\* A step that leaves the lease and its histories alone, and starts no call.
LEMMA LeaseKept ==
    ASSUME LeaseInv, NEW m \in Nodes,
           owner'[m] => owner[m] \/ Granted(m), call'[m] = call[m] \/ ~Granted(m)',
           holder' = holder, lapsed \subseteq lapsed'
    PROVE  owner'[m] \/ Granted(m)' => holder' = m \/ m \in lapsed'
  BY DEF LeaseInv, Granted

LEMMA LeaseNext ==
    ASSUME TypeOK, LeaseInv, [Next]_vars
    PROVE  LeaseInv'
  <1>1. CASE UNCHANGED vars
    BY <1>1 DEF LeaseInv, Granted, vars
  <1>2. ASSUME NEW n \in Nodes, Opening(n) \/ HandleBus(n) \/ LoseMessage(n) \/ Writing(n)
        PROVE  LeaseInv'
    <2>1. UNCHANGED <<holder, lapsed, owner, call>>
      BY <1>2 DEF Opening, BeginOpen, LoadBoard, OpenRoom, OpenFails, HandleBus, HandleUpdate,
                  HandleSaved, HandleRequest, LoseMessage, Writing, AppendInsert,
                  AppendReturn, AppendFails, durable, room, history
    <2> QED  BY <2>1 DEF LeaseInv, Granted
  <1>3. ASSUME NEW n \in Nodes, NEW u \in Updates, ClientUpdate(n, u)
        PROVE  LeaseInv'
    BY <1>3 DEF ClientUpdate, LeaseInv, Granted, history
  <1>4. ASSUME NEW n \in Nodes, LockCall(n)
        PROVE  LeaseInv'
    <2> SUFFICES ASSUME NEW m \in Nodes, owner'[m] \/ Granted(m)'
                 PROVE  holder' = m \/ m \in lapsed'
      BY DEF LeaseInv
    <2>1. owner' = owner
      BY <1>4 DEF LockCall, room
    <2>2. CASE m = n
      <3>1. CASE Grants(n) /\ holder' = (IF owner[n] THEN holder ELSE n)
        BY <2>2, <3>1 DEF Grants, Renewable
      <3>2. CASE UNCHANGED <<holder, lapsed>> /\ call'[n].answer # "yes"
        BY <2>1, <2>2, <3>2 DEF LeaseInv, Granted
      <3> QED  BY <1>4, <3>1, <3>2 DEF LockCall, TypeOK
    <2>3. CASE m # n
      <3>1. holder = m \/ m \in lapsed
        BY <1>4, <2>1, <2>3 DEF LeaseInv, LockCall, Granted, TypeOK
      <3>2. lapsed' = lapsed \/ lapsed' = lapsed \ {n}
        BY <1>4 DEF LockCall
      <3>3. holder = m => holder' = m
        BY <1>4, <2>3, NobodyAssumption DEF LockCall, Grants, Acquirable
      <3> QED  BY <2>3, <3>1, <3>2, <3>3
    <2> QED  BY <2>2, <2>3
  <1>5. ASSUME NEW n \in Nodes, LockReply(n)
        PROVE  LeaseInv'
    <2> SUFFICES ASSUME NEW m \in Nodes
                 PROVE  owner'[m] \/ Granted(m)' => holder' = m \/ m \in lapsed'
      BY DEF LeaseInv
    <2>1. owner'[m] => owner[m] \/ Granted(m)
      BY <1>5 DEF LockReply, Granted, TypeOK
    <2>2. call'[m] = call[m] \/ ~Granted(m)'
      BY <1>5 DEF LockReply, Granted, NoCall, TypeOK
    <2> QED  BY <1>5, <2>1, <2>2, LeaseKept DEF LockReply
  <1>6. ASSUME NEW n \in Nodes, Ending(n)
        PROVE  LeaseInv'
    <2> SUFFICES ASSUME NEW m \in Nodes, owner'[m] \/ Granted(m)'
                 PROVE  holder' = m \/ m \in lapsed'
      BY DEF LeaseInv
    <2>1. m # n
      <3>1. ~owner'[n]
        BY <1>6 DEF Ending, Evict, Crash, Forget, TypeOK
      <3>2. ~Granted(n)'
        <4>1. CASE Evict(n)
          BY <4>1 DEF Evict, Granted, TypeOK, Call
        <4>2. CASE Crash(n)
          BY <4>2 DEF Crash, Granted, NoCall, TypeOK
        <4> QED  BY <1>6, <4>1, <4>2 DEF Ending
      <3> QED  BY <3>1, <3>2
    <2>2. holder = m \/ m \in lapsed
      BY <1>6, <2>1 DEF LeaseInv, Ending, Evict, Crash, Forget, Granted, TypeOK
    <2> QED  BY <1>6, <2>1, <2>2 DEF Ending, Evict, Crash, Released
  <1>7. ASSUME Expire
        PROVE  LeaseInv'
    BY <1>7 DEF Expire, LeaseInv, Granted, room
  <1> QED  BY <1>1, <1>2, <1>3, <1>4, <1>5, <1>6, <1>7 DEF Next, Ownership

\* A room that believes to be the owner holds the lease, or let it lapse.
THEOREM OwnerHasLease == Spec => []OwnerHoldsLease
  <1>1. Init => LeaseInv
    BY DEF Init, LeaseInv, Granted, NoCall
  <1>2. LeaseInv => OwnerHoldsLease
    BY DEF LeaseInv, OwnerHoldsLease
  <1> QED  BY <1>1, <1>2, ClusterTypeCorrect, LeaseNext, PTL DEF Spec

-----------------------------------------------------------------------------
\* What an owner has written

\* An update the room of node n need not write: its row is there, its append
\* failed, it came before the room's first lock answer, or its append waits.
Accounted(n, u) == u \in stored \cup failed[n] \cup early[n] \/ Queued(n, u)

\* The replies a room can get to its calls.
CallInv(n) ==
    /\ phase[n] # "open" => ~owner[n]
    /\ (call[n].kind # "none" /\ call[n].live) =>
           /\ phase[n] \in {"claiming", "open"}
           /\ call[n].kind = "claim" <=> phase[n] = "claiming"
           /\ call[n].kind = "renew" => owner[n]

\* OwnerWrites with what it rests on: a room that opens has only stored updates
\* and early ones, and a row holds the updates of its entry.
WriteInv(n) ==
    /\ phase[n] \in {"loaded", "claiming"} => doc[n] \subseteq stored \cup early[n]
    /\ \A i \in DOMAIN queue[n] : queue[n][i].seq # 0 => queue[n][i].updates \subseteq stored
    /\ owner[n] => \A u \in doc[n] : Accounted(n, u)

RoomsInv == \A n \in Nodes : CallInv(n) /\ WriteInv(n)

\* The steps of one node and the growth of the log disturb no other room.
LEMMA OtherRoom ==
    ASSUME NEW m \in Nodes, CallInv(m), WriteInv(m), stored \subseteq stored',
           phase'[m] = phase[m], doc'[m] = doc[m], owner'[m] = owner[m],
           queue'[m] = queue[m], call'[m] = call[m], failed'[m] = failed[m],
           early'[m] = early[m]
    PROVE  CallInv(m)' /\ WriteInv(m)'
  BY DEF CallInv, WriteInv, Accounted, Queued

LEMMA OpeningRooms ==
    ASSUME TypeOK, RoomsInv, NEW n \in Nodes, Opening(n)
    PROVE  RoomsInv'
  <1>0. UNCHANGED <<stored, owner, queue, call, failed, early>>
    BY DEF Opening, BeginOpen, LoadBoard, OpenRoom, OpenFails, durable, history
  <1>1. \A m \in Nodes \ {n} : phase'[m] = phase[m] /\ doc'[m] = doc[m]
    BY DEF Opening, BeginOpen, LoadBoard, OpenRoom, OpenFails, TypeOK
  <1>2. CallInv(n)' /\ WriteInv(n)'
    <2>1. CallInv(n) /\ WriteInv(n)
      BY DEF RoomsInv
    <2>2. /\ phase[n] \in {"closed", "subscribed", "loaded"}
          /\ phase'[n] \in {"closed", "subscribed", "loaded", "claiming"}
      BY DEF Opening, BeginOpen, LoadBoard, OpenRoom, OpenFails, TypeOK
    <2>3. ~owner[n] /\ (call[n].kind = "none" \/ ~call[n].live)
      BY <2>1, <2>2 DEF CallInv
    <2>4. phase'[n] \in {"loaded", "claiming"} => doc'[n] \subseteq stored \cup early[n]
      BY <2>1 DEF Opening, BeginOpen, LoadBoard, OpenRoom, OpenFails, WriteInv, TypeOK
    <2> QED  BY <1>0, <2>1, <2>2, <2>3, <2>4 DEF CallInv, WriteInv
  <1> QED  BY <1>0, <1>1, <1>2, OtherRoom DEF RoomsInv

LEMMA LockCallRooms ==
    ASSUME TypeOK, RoomsInv, NEW n \in Nodes, LockCall(n)
    PROVE  RoomsInv'
  <1>0. UNCHANGED <<stored, phase, doc, owner, queue, failed, early>>
    BY DEF LockCall, durable, room
  <1>1. \A m \in Nodes \ {n} : call'[m] = call[m]
    BY DEF LockCall, TypeOK
  <1>2. CallInv(n)' /\ WriteInv(n)'
    <2>1. CallInv(n) /\ WriteInv(n)
      BY DEF RoomsInv
    <2>2. call'[n].kind = CallOf(n) /\ phase[n] \in {"claiming", "open"}
      BY DEF LockCall, Refreshes, Wired, TypeOK
    <2>3. CallInv(n)'
      BY <1>0, <2>1, <2>2 DEF CallOf, CallInv
    <2>4. WriteInv(n)'
      BY <1>0, <2>1 DEF WriteInv, Accounted, Queued
    <2> QED  BY <2>3, <2>4
  <1> QED  BY <1>0, <1>1, <1>2, OtherRoom DEF RoomsInv

\* An entry at the end of the queue keeps what is said of the others.
LEMMA Appended ==
    ASSUME TypeOK, NEW n \in Nodes, NEW e \in Entry,
           queue' = [queue EXCEPT ![n] = Append(@, e)]
    PROVE  /\ \A u \in Updates : Queued(n, u) => Queued(n, u)'
           /\ e.live => \A u \in e.updates : Queued(n, u)'
           /\ \A i \in DOMAIN queue'[n] :
               (i \in DOMAIN queue[n] /\ queue'[n][i] = queue[n][i]) \/ queue'[n][i] = e
  <1>1. queue[n] \in Seq(Entry) /\ queue'[n] = Append(queue[n], e)
    BY DEF TypeOK
  <1>2. /\ DOMAIN queue[n] = 1 .. Len(queue[n])
        /\ DOMAIN queue'[n] = 1 .. Len(queue[n]) + 1
        /\ Len(queue[n]) \in Nat
    BY <1>1, AppendProperties, LenProperties
  <1>3. /\ \A i \in 1 .. Len(queue[n]) : queue'[n][i] = queue[n][i]
        /\ queue'[n][Len(queue[n]) + 1] = e
    BY <1>1, AppendProperties
  <1> QED  BY <1>2, <1>3 DEF Queued

LEMMA EnteredIsNew ==
    \A updates : Entered(updates).seq = 0 /\ Entered(updates).live
                 /\ Entered(updates).updates = updates
  BY DEF Entered

LEMMA LockReplyRooms ==
    ASSUME TypeOK, RoomsInv, NEW n \in Nodes, LockReply(n)
    PROVE  RoomsInv'
  <1>1. stored' = stored /\ doc' = doc
    BY DEF LockReply, durable
  <1>2. \A m \in Nodes \ {n} :
            /\ phase'[m] = phase[m] /\ owner'[m] = owner[m] /\ queue'[m] = queue[m]
            /\ call'[m] = call[m] /\ failed'[m] = failed[m] /\ early'[m] = early[m]
    <2>1. \A m \in Nodes \ {n} : queue'[m] = queue[m] /\ call'[m] = call[m]
                                /\ failed'[m] = failed[m]
      BY DEF LockReply, TypeOK
    <2>2. \A m \in Nodes \ {n} : phase'[m] = phase[m] /\ owner'[m] = owner[m]
                                /\ early'[m] = early[m]
      BY DEF LockReply, TypeOK
    <2> QED  BY <2>1, <2>2
  <1> DEFINE written == [Entered(IF call[n].live THEN doc[n] ELSE call[n].doc)
                             EXCEPT !.live = call[n].live]
  <1>3. CallInv(n) /\ WriteInv(n)
    BY DEF RoomsInv
  <1>4. call'[n].kind = "none"
    BY DEF LockReply, NoCall, TypeOK
  <1>5. /\ written \in Entry /\ written.seq = 0 /\ written.live = call[n].live
        /\ call[n].live => written.updates = doc[n]
    <2>1. call[n].doc \in SUBSET Updates /\ call[n].live \in BOOLEAN /\ doc[n] \in SUBSET Updates
      BY DEF TypeOK, Call
    <2> QED  BY <2>1 DEF Entered, Entry
  <1> HIDE DEF written
  <1>6. /\ CatchUp(n) => queue' = [queue EXCEPT ![n] = Append(@, written)]
        /\ ~CatchUp(n) => queue'[n] = queue[n]
    BY DEF LockReply, TypeOK, written
  <1>7. \A i \in DOMAIN queue'[n] : queue'[n][i].seq # 0 => queue'[n][i].updates \subseteq stored
    <2>1. CASE CatchUp(n)
      BY <1>3, <1>5, <1>6, <2>1, Appended DEF WriteInv
    <2>2. CASE ~CatchUp(n)
      BY <1>3, <1>6, <2>2 DEF WriteInv
    <2> QED  BY <2>1, <2>2
  <1>8. CASE call[n].live
    <2>1. phase'[n] = "open" /\ (owner'[n] <=> call[n].answer = "yes")
      BY <1>8 DEF LockReply, TypeOK
    <2>2. ASSUME owner'[n], NEW u \in doc[n]
          PROVE  Accounted(n, u)'
      <3>1. call[n].answer = "yes"
        BY <2>1, <2>2
      <3>2. CASE CatchUp(n)
        BY <1>5, <1>6, <1>8, <3>2, Appended DEF Accounted
      <3>3. CASE ~CatchUp(n)
        <4>1. early'[n] = early[n] /\ failed'[n] = failed[n] /\ queue'[n] = queue[n]
          BY <1>6, <1>8, <3>1, <3>3 DEF LockReply, TypeOK
        <4>2. call[n].kind \in {"claim", "renew"}
          BY <3>1, <3>3 DEF CatchUp, LockReply, TypeOK, Call
        <4>3. Accounted(n, u)
          BY <1>3, <1>8, <4>2 DEF CallInv, WriteInv, Accounted
        <4> QED  BY <1>1, <4>1, <4>3 DEF Accounted, Queued
      <3> QED  BY <3>2, <3>3
    <2> QED  BY <1>1, <1>2, <1>3, <1>4, <1>7, <2>1, <2>2, OtherRoom
                DEF RoomsInv, CallInv, WriteInv
  <1>9. CASE ~call[n].live
    <2>1. phase'[n] = phase[n] /\ owner'[n] = owner[n] /\ early'[n] = early[n]
          /\ failed'[n] = failed[n]
      BY <1>9 DEF LockReply, TypeOK
    <2>2. \A u \in Updates : Queued(n, u) => Queued(n, u)'
      <3>1. CASE CatchUp(n)
        BY <1>5, <1>6, <3>1, Appended
      <3>2. CASE ~CatchUp(n)
        BY <1>6, <3>2 DEF Queued
      <3> QED  BY <3>1, <3>2
    <2>3. doc[n] \subseteq Updates
      BY DEF TypeOK
    <2>4. CallInv(n)' /\ WriteInv(n)'
      BY <1>1, <1>3, <1>4, <1>7, <2>1, <2>2, <2>3 DEF CallInv, WriteInv, Accounted
    <2> QED  BY <1>1, <1>2, <2>4, OtherRoom DEF RoomsInv
  <1> QED  BY <1>8, <1>9 DEF TypeOK, Call

\* An update enters a room's document: an owner writes it, a room that opens
\* notes it as early.
LEMMA UpdateRooms ==
    ASSUME TypeOK, RoomsInv, NEW n \in Nodes, NEW new \in SUBSET Updates,
           phase[n] \in {"claiming", "open"},
           doc' = [doc EXCEPT ![n] = @ \cup new], Written(n, new),
           early' = early \/ early' = [early EXCEPT ![n] = @ \cup new],
           phase[n] # "open" => early' = [early EXCEPT ![n] = @ \cup new],
           UNCHANGED <<stored, phase, owner, call, failed>>
    PROVE  RoomsInv'
  <1>1. \A m \in Nodes \ {n} : doc'[m] = doc[m] /\ queue'[m] = queue[m] /\ early'[m] = early[m]
    BY DEF Written, TypeOK
  <1>2. CallInv(n) /\ WriteInv(n)
    BY DEF RoomsInv
  <1>3. CallInv(n)'
    BY <1>2 DEF CallInv
  <1>4. doc'[n] = doc[n] \cup new /\ early[n] \subseteq early'[n]
        /\ (phase[n] # "open" => early'[n] = early[n] \cup new)
    BY DEF TypeOK
  <1>5. CASE owner[n] /\ new # {}
    <2>1. queue' = [queue EXCEPT ![n] = Append(@, Entered(new))] /\ Entered(new) \in Entry
      BY <1>5, EntryTypes DEF Written
    <2>2. /\ \A u \in Updates : Queued(n, u) => Queued(n, u)'
          /\ \A u \in new : Queued(n, u)'
          /\ \A i \in DOMAIN queue'[n] :
               (i \in DOMAIN queue[n] /\ queue'[n][i] = queue[n][i]) \/ queue'[n][i].seq = 0
      <3> DEFINE e == Entered(new)
      <3>1. e.seq = 0 /\ e.live /\ e.updates = new
        BY EnteredIsNew
      <3>2. e \in Entry /\ queue' = [queue EXCEPT ![n] = Append(@, e)]
        BY <2>1
      <3> HIDE DEF e
      <3>3. /\ \A u \in Updates : Queued(n, u) => Queued(n, u)'
            /\ e.live => \A u \in e.updates : Queued(n, u)'
            /\ \A i \in DOMAIN queue'[n] :
                 (i \in DOMAIN queue[n] /\ queue'[n][i] = queue[n][i]) \/ queue'[n][i] = e
        BY <3>2, Appended
      <3> QED  BY <3>1, <3>3
    <2>3. doc[n] \subseteq Updates
      BY DEF TypeOK
    <2>4. WriteInv(n)'
      BY <1>2, <1>4, <1>5, <2>2, <2>3 DEF WriteInv, CallInv, Accounted
    <2> QED  BY <1>1, <1>3, <2>4, OtherRoom DEF RoomsInv
  <1>6. CASE ~(owner[n] /\ new # {})
    <2>1. queue' = queue /\ (owner[n] => doc'[n] = doc[n])
      BY <1>4, <1>6 DEF Written
    <2>2. WriteInv(n)'
      BY <1>2, <1>4, <2>1 DEF WriteInv, Accounted, Queued
    <2> QED  BY <1>1, <1>3, <2>1, <2>2, OtherRoom DEF RoomsInv
  <1> QED  BY <1>5, <1>6

LEMMA ClientUpdateRooms ==
    ASSUME TypeOK, RoomsInv, NEW n \in Nodes, NEW u \in Updates, ClientUpdate(n, u)
    PROVE  RoomsInv'
  <1>1. /\ phase[n] = "open" /\ doc' = [doc EXCEPT ![n] = @ \cup {u}] /\ Written(n, {u})
        /\ early' = early /\ UNCHANGED <<stored, phase, owner, call, failed>>
    BY DEF ClientUpdate, durable, history
  <1>2. {u} \in SUBSET Updates
    OBVIOUS
  <1> QED  BY <1>1, <1>2, UpdateRooms

LEMMA HandleBusRooms ==
    ASSUME TypeOK, RoomsInv, NEW n \in Nodes, HandleBus(n)
    PROVE  RoomsInv'
  <1> DEFINE m == Head(net[n])
  <1>0. net[n] # <<>> /\ phase[n] \in {"claiming", "open"}
    BY DEF HandleBus, Wired
  <1>1. CASE HandleUpdate(n, m)
    <2> DEFINE new == m.updates \ doc[n]
    <2>1. new \in SUBSET Updates
      BY <1>0, <1>1, BusHead DEF HandleUpdate
    <2>2. /\ doc' = [doc EXCEPT ![n] = @ \cup new] /\ Written(n, new)
          /\ UNCHANGED <<stored, phase, owner, call, failed>>
          /\ early' = [early EXCEPT ![n] = IF phase[n] # "open" THEN @ \cup new ELSE @]
      BY <1>1 DEF HandleUpdate, WrittenFromBus, durable
    <2> HIDE DEF new, m
    <2>3. /\ early' = early \/ early' = [early EXCEPT ![n] = @ \cup new]
          /\ phase[n] # "open" => early' = [early EXCEPT ![n] = @ \cup new]
      BY <2>2 DEF TypeOK
    <2> QED  BY <1>0, <2>1, <2>2, <2>3, UpdateRooms
  <1>2. CASE HandleSaved(n, m) \/ HandleRequest(n, m)
    <2>1. UNCHANGED <<stored, phase, doc, owner, queue, call, failed, early>>
      BY <1>2 DEF HandleSaved, HandleRequest, durable, room, history
    <2> QED  BY <2>1, OtherRoom DEF RoomsInv
  <1> QED  BY <1>1, <1>2 DEF HandleBus

LEMMA QuietRooms ==
    ASSUME RoomsInv, (\E n \in Nodes : LoseMessage(n)) \/ Expire \/ UNCHANGED vars
    PROVE  RoomsInv'
  <1>1. UNCHANGED <<stored, phase, doc, owner, queue, call, failed, early>>
    BY DEF LoseMessage, Expire, durable, room, vars
  <1> QED  BY <1>1, OtherRoom DEF RoomsInv

\* The head of the queue leaves it.
LEMMA Dequeued ==
    ASSUME TypeOK, NEW n \in Nodes, queue[n] # <<>>, queue' = [queue EXCEPT ![n] = Tail(@)]
    PROVE  /\ \A i \in DOMAIN queue'[n] : i + 1 \in DOMAIN queue[n] /\ queue'[n][i] = queue[n][i + 1]
           /\ \A u : Queued(n, u) =>
               Queued(n, u)' \/ (Head(queue[n]).live /\ u \in Head(queue[n]).updates)
  <1>1. queue[n] \in Seq(Entry) /\ queue'[n] = Tail(queue[n])
    BY DEF TypeOK
  <1> DEFINE q == queue[n]
             t == Tail(queue[n])
  <1>2. /\ Head(q) = q[1] /\ t \in Seq(Entry) /\ Len(t) = Len(q) - 1
        /\ \A i \in 1 .. Len(t) : t[i] = q[i + 1]
    BY <1>1, HeadTailProperties
  <1>3. /\ DOMAIN q = 1 .. Len(q) /\ Len(q) \in Nat /\ DOMAIN t = 1 .. Len(t) /\ Len(t) \in Nat
    BY <1>1, <1>2, LenProperties
  <1> HIDE DEF q, t
  <1>4. \A i \in DOMAIN t : i + 1 \in DOMAIN q /\ t[i] = q[i + 1]
    BY <1>2, <1>3
  <1>5. ASSUME NEW i \in DOMAIN q, i # 1
        PROVE  \E j \in DOMAIN t : t[j] = q[i]
    <2>1. i - 1 \in DOMAIN t /\ (i - 1) + 1 = i
      BY <1>2, <1>3, <1>5
    <2>2. t[i - 1] = q[i]
      BY <1>4, <2>1
    <2> QED  BY <2>1, <2>2
  <1>6. ASSUME NEW u, \E i \in DOMAIN q : q[i].live /\ u \in q[i].updates
        PROVE  (\E i \in DOMAIN t : t[i].live /\ u \in t[i].updates) \/ (q[1].live /\ u \in q[1].updates)
    <2>1. PICK i \in DOMAIN q : q[i].live /\ u \in q[i].updates
      BY <1>6
    <2>2. CASE i = 1
      BY <2>1, <2>2
    <2>3. CASE i # 1
      <3>1. PICK j \in DOMAIN t : t[j] = q[i]
        BY <1>5, <2>3
      <3> QED  BY <2>1, <3>1
    <2> QED  BY <2>2, <2>3
  <1>7. \A u : Queued(n, u) =>
               Queued(n, u)' \/ (Head(queue[n]).live /\ u \in Head(queue[n]).updates)
    <2> SUFFICES ASSUME NEW u, Queued(n, u)
                 PROVE  Queued(n, u)' \/ (Head(q).live /\ u \in Head(q).updates)
      BY DEF q
    <2>1. (\E i \in DOMAIN t : t[i].live /\ u \in t[i].updates) \/ (q[1].live /\ u \in q[1].updates)
      BY <1>6 DEF Queued, q
    <2>2. queue'[n] = t
      BY <1>1 DEF t
    <2> QED  BY <1>2, <2>1, <2>2 DEF Queued
  <1> QED  BY <1>1, <1>4, <1>7 DEF q, t

LEMMA WritingRooms ==
    ASSUME TypeOK, RoomsInv, NEW n \in Nodes, Writing(n)
    PROVE  RoomsInv'
  <1>1. UNCHANGED <<phase, doc, owner, call, early>> /\ stored \subseteq stored' /\ queue[n] # <<>>
    BY DEF Writing, AppendInsert, AppendReturn, AppendFails, durable, room, history
  <1>2. \A m \in Nodes \ {n} : queue'[m] = queue[m] /\ failed'[m] = failed[m]
    BY DEF Writing, AppendInsert, AppendReturn, AppendFails, history, TypeOK
  <1>3. CallInv(n) /\ WriteInv(n) /\ CallInv(n)'
    BY <1>1 DEF RoomsInv, CallInv
  <1>4. queue[n] \in Seq(Entry) /\ Head(queue[n]) = queue[n][1] /\ 1 \in DOMAIN queue[n]
    BY <1>1, HeadTypes DEF TypeOK
  <1>5. CASE AppendInsert(n)
    <2>1. /\ DOMAIN queue'[n] = DOMAIN queue[n]
          /\ \A i \in DOMAIN queue[n] :
                 /\ queue'[n][i].updates = queue[n][i].updates
                 /\ queue'[n][i].live = queue[n][i].live
                 /\ i # 1 => queue'[n][i] = queue[n][i]
      <3>1. queue'[n] = [queue[n] EXCEPT ![1] = [queue[n][1] EXCEPT !.seq = lastSeq + 1]]
        BY <1>5 DEF AppendInsert, TypeOK
      <3>2. queue[n][1] \in Entry
        BY <1>1, <1>4, HeadTypes
      <3>3. DOMAIN queue[n] = 1 .. Len(queue[n])
        BY <1>4, LenProperties
      <3> QED  BY <3>1, <3>2, <3>3 DEF Entry
    <2>2. stored' = stored \cup queue[n][1].updates /\ failed' = failed
      BY <1>4, <1>5 DEF AppendInsert
    <2>3. WriteInv(n)'
      <3>1. \A u : Queued(n, u) => Queued(n, u)'
        <4> SUFFICES ASSUME NEW u, NEW i \in DOMAIN queue[n],
                            queue[n][i].live, u \in queue[n][i].updates
                     PROVE  Queued(n, u)'
          BY DEF Queued
        <4>1. i \in DOMAIN queue'[n] /\ queue'[n][i].live /\ u \in queue'[n][i].updates
          BY <2>1
        <4> QED  BY <4>1 DEF Queued
      <3>2. ASSUME NEW i \in DOMAIN queue'[n], queue'[n][i].seq # 0
            PROVE  queue'[n][i].updates \subseteq stored'
        <4>1. CASE i = 1
          BY <1>4, <2>1, <2>2, <4>1
        <4>2. CASE i # 1
          <5>1. queue'[n][i] = queue[n][i] /\ i \in DOMAIN queue[n]
            BY <2>1, <4>2
          <5>2. queue[n][i].updates \subseteq stored
            BY <1>3, <3>2, <5>1 DEF WriteInv
          <5> QED  BY <1>1, <5>1, <5>2
        <4> QED  BY <4>1, <4>2
      <3> QED  BY <1>1, <1>3, <2>2, <3>1, <3>2 DEF WriteInv, Accounted
    <2> QED  BY <1>1, <1>2, <1>3, <2>3, OtherRoom DEF RoomsInv
  <1>6. CASE AppendReturn(n)
    <2>1. queue' = [queue EXCEPT ![n] = Tail(@)] /\ UNCHANGED <<stored, failed>>
          /\ Head(queue[n]).seq # 0
      BY <1>6 DEF AppendReturn, durable, history
    <2>2. Head(queue[n]).updates \subseteq stored
      BY <1>3, <1>4, <2>1 DEF WriteInv
    <2>3. WriteInv(n)'
      <3>1. \A u : Queued(n, u) => Queued(n, u)' \/ u \in stored
        BY <1>1, <2>1, <2>2, Dequeued
      <3>2. \A i \in DOMAIN queue'[n] : queue'[n][i].seq # 0 => queue'[n][i].updates \subseteq stored
        <4> SUFFICES ASSUME NEW i \in DOMAIN queue'[n], queue'[n][i].seq # 0
                     PROVE  queue'[n][i].updates \subseteq stored
          OBVIOUS
        <4>1. i + 1 \in DOMAIN queue[n] /\ queue'[n][i] = queue[n][i + 1]
          BY <1>1, <2>1, Dequeued
        <4> QED  BY <1>3, <4>1 DEF WriteInv
      <3> QED  BY <1>1, <1>3, <2>1, <3>1, <3>2 DEF WriteInv, Accounted
    <2> QED  BY <1>1, <1>2, <1>3, <2>3, OtherRoom DEF RoomsInv
  <1>7. CASE AppendFails(n)
    <2>1. queue' = [queue EXCEPT ![n] = Tail(@)] /\ stored' = stored
          /\ failed[n] \subseteq failed'[n]
          /\ (Head(queue[n]).live => Head(queue[n]).updates \subseteq failed'[n])
      BY <1>7 DEF AppendFails, durable, TypeOK
    <2>3. WriteInv(n)'
      <3>1. \A u : Queued(n, u) => Queued(n, u)' \/ u \in failed'[n]
        BY <1>1, <2>1, Dequeued
      <3>2. \A i \in DOMAIN queue'[n] : queue'[n][i].seq # 0 => queue'[n][i].updates \subseteq stored
        <4> SUFFICES ASSUME NEW i \in DOMAIN queue'[n], queue'[n][i].seq # 0
                     PROVE  queue'[n][i].updates \subseteq stored
          OBVIOUS
        <4>1. i + 1 \in DOMAIN queue[n] /\ queue'[n][i] = queue[n][i + 1]
          BY <1>1, <2>1, Dequeued
        <4> QED  BY <1>3, <4>1 DEF WriteInv
      <3> QED  BY <1>1, <1>3, <2>1, <3>1, <3>2 DEF WriteInv, Accounted
    <2> QED  BY <1>1, <1>2, <1>3, <2>3, OtherRoom DEF RoomsInv
  <1> QED  BY <1>5, <1>6, <1>7 DEF Writing

LEMMA EndingRooms ==
    ASSUME TypeOK, RoomsInv, NEW n \in Nodes, Ending(n)
    PROVE  RoomsInv'
  <1>1. stored' = stored /\ Forget(n)
    BY DEF Ending, Evict, Crash, durable
  <1>2. \A m \in Nodes \ {n} :
            /\ phase'[m] = phase[m] /\ doc'[m] = doc[m] /\ owner'[m] = owner[m]
            /\ failed'[m] = failed[m] /\ early'[m] = early[m]
            /\ queue'[m] = queue[m] /\ call'[m] = call[m]
    <2>1. \A m \in Nodes \ {n} : queue'[m] = queue[m] /\ call'[m] = call[m]
      BY DEF Ending, Evict, Crash, TypeOK
    <2> QED  BY <1>1, <2>1 DEF Forget, TypeOK
  <1>3. phase'[n] = "closed" /\ ~owner'[n]
    BY <1>1 DEF Forget, TypeOK
  <1>4. WriteInv(n)
    BY DEF RoomsInv
  <1>5. call'[n].kind = "none" \/ ~call'[n].live
    <2>1. CASE Evict(n)
      BY <2>1 DEF Evict, TypeOK, Call
    <2>2. CASE Crash(n)
      BY <2>2 DEF Crash, NoCall, TypeOK
    <2> QED  BY <2>1, <2>2 DEF Ending
  <1>6. \A i \in DOMAIN queue'[n] : queue'[n][i].seq # 0 => queue'[n][i].updates \subseteq stored
    <2>1. CASE Evict(n)
      <3>1. queue'[n] = [i \in DOMAIN queue[n] |-> Orphaned(n, queue[n][i])]
        BY <2>1 DEF Evict, TypeOK
      <3>2. \A i \in DOMAIN queue[n] : queue[n][i] \in Entry
        <4>1. queue[n] \in Seq(Entry)
          BY DEF TypeOK
        <4> QED  BY <4>1, ElementOfSeq, LenProperties
      <3>3. \A e \in Entry : Orphaned(n, e).updates = e.updates
                             /\ (e.seq = 0 => Orphaned(n, e).seq = 0)
        BY DEF Orphaned, Entry
      <3> QED  BY <1>4, <3>1, <3>2, <3>3 DEF WriteInv
    <2>2. CASE Crash(n)
      BY <2>2 DEF Crash, TypeOK
    <2> QED  BY <2>1, <2>2 DEF Ending
  <1>7. CallInv(n)' /\ WriteInv(n)'
    BY <1>1, <1>3, <1>5, <1>6 DEF CallInv, WriteInv
  <1> QED  BY <1>1, <1>2, <1>7, OtherRoom DEF RoomsInv

LEMMA RoomsNext ==
    ASSUME TypeOK, RoomsInv, [Next]_vars
    PROVE  RoomsInv'
  <1>1. ASSUME NEW n \in Nodes, Opening(n) \/ Ownership(n) \/ Writing(n) \/ Ending(n) \/ HandleBus(n)
        PROVE  RoomsInv'
    BY <1>1, OpeningRooms, LockCallRooms, LockReplyRooms, WritingRooms, EndingRooms,
       HandleBusRooms DEF Ownership
  <1>2. ASSUME NEW n \in Nodes, NEW u \in Updates, ClientUpdate(n, u)
        PROVE  RoomsInv'
    BY <1>2, ClientUpdateRooms
  <1> QED  BY <1>1, <1>2, QuietRooms DEF Next

LEMMA RoomsInit == Init => RoomsInv
  <1> SUFFICES ASSUME Init, NEW n \in Nodes PROVE CallInv(n) /\ WriteInv(n)
    BY DEF RoomsInv
  <1>1. /\ phase[n] = "closed" /\ ~owner[n] /\ call[n].kind = "none" /\ queue[n] = <<>>
    BY DEF Init, NoCall
  <1>2. DOMAIN queue[n] = {}
    BY <1>1
  <1> QED  BY <1>1, <1>2 DEF CallInv, WriteInv

\* What an owner's document holds is in the log, waits for its append, failed to
\* be appended, or came before the room knew whether it is the owner.
THEOREM OwnerHasWritten == Spec => []OwnerWrites
  <1>1. RoomsInv => OwnerWrites
    BY DEF RoomsInv, WriteInv, OwnerWrites, Accounted
  <1> QED  BY <1>1, RoomsInit, ClusterTypeCorrect, RoomsNext, PTL DEF Spec

-----------------------------------------------------------------------------
\* "Saved"

LEMMA SeqStep ==
    ASSUME TypeOK, [Next]_vars, NEW m \in Nodes, phase[m] = "open", phase'[m] = "open"
    PROVE  seq'[m] >= seq[m]
  <1>0. seq[m] \in Nat
    BY DEF TypeOK
  <1>1. CASE UNCHANGED vars \/ Expire
    BY <1>0, <1>1 DEF Expire, vars, room
  <1>2. ASSUME NEW n \in Nodes, Opening(n) \/ Ending(n)
        PROVE  seq'[m] >= seq[m]
    <2>1. m # n
      BY <1>2 DEF Opening, BeginOpen, LoadBoard, OpenRoom, OpenFails, Ending, Evict, Crash,
                  Forget, TypeOK
    <2> QED  BY <1>0, <1>2, <2>1 DEF Opening, BeginOpen, LoadBoard, OpenRoom, OpenFails, Ending,
                                     Evict, Crash, Forget, TypeOK
  <1>3. ASSUME NEW n \in Nodes, Ownership(n) \/ LoseMessage(n)
        PROVE  seq'[m] >= seq[m]
    BY <1>0, <1>3 DEF Ownership, LockCall, LockReply, LoseMessage, room
  <1>4. ASSUME NEW n \in Nodes, NEW u \in Updates, ClientUpdate(n, u)
        PROVE  seq'[m] >= seq[m]
    BY <1>0, <1>4 DEF ClientUpdate
  <1>5. ASSUME NEW n \in Nodes, HandleBus(n)
        PROVE  seq'[m] >= seq[m]
    <2> DEFINE message == Head(net[n])
    <2>1. CASE HandleSaved(n, message)
      <3>1. message.seq \in Nat
        BY <1>5, <2>1, BusHead DEF HandleBus, HandleSaved
      <3> HIDE DEF message
      <3> QED  BY <1>0, <2>1, <3>1 DEF HandleSaved, SeqAfterSaved, Newer, TypeOK
    <2>2. CASE HandleUpdate(n, message) \/ HandleRequest(n, message)
      BY <1>0, <2>2 DEF HandleUpdate, HandleRequest, room
    <2> QED  BY <1>5, <2>1, <2>2 DEF HandleBus
  <1>6. ASSUME NEW n \in Nodes, Writing(n)
        PROVE  seq'[m] >= seq[m]
    <2>1. CASE AppendReturn(n)
      <3>1. Head(queue[n]).seq \in Nat
        BY <2>1, HeadTypes DEF AppendReturn, Entry
      <3> QED  BY <1>0, <2>1, <3>1 DEF AppendReturn, SeqAfterAppend, Newer, TypeOK
    <2>2. CASE AppendInsert(n) \/ AppendFails(n)
      BY <1>0, <2>2 DEF AppendInsert, AppendFails, room
    <2> QED  BY <1>6, <2>1, <2>2 DEF Writing
  <1> QED  BY <1>1, <1>2, <1>3, <1>4, <1>5, <1>6 DEF Next

\* "Saved" never goes back in an open room.
THEOREM SavedNeverFalls == Spec => SeqNeverFalls
  <1>1. TypeOK /\ [Next]_vars =>
            [\A n \in Nodes : (phase[n] = "open" /\ phase'[n] = "open") => seq'[n] >= seq[n]]_vars
    BY SeqStep
  <1> QED  BY <1>1, ClusterTypeCorrect, PTL DEF Spec, SeqNeverFalls

\* Messages and entries whose number was given to a row, when s was the last.
Messages(s) == {m \in Message : m.kind = "saved" => m.seq <= s}
Entries(s)  == {e \in Entry : e.seq <= s}

\* SeqWasHandedOut with what a room's number comes from.
SeqInv ==
    /\ \A n \in Nodes : seq[n] <= lastSeq
    /\ net \in [Nodes -> Seq(Messages(lastSeq))]
    /\ queue \in [Nodes -> Seq(Entries(lastSeq))]

LEMMA SeqsGrow ==
    ASSUME NEW S, NEW T, S \subseteq T, NEW q \in Seq(S)
    PROVE  q \in Seq(T)
  <1>1. /\ Len(q) \in Nat /\ DOMAIN q = 1 .. Len(q) /\ q \in [1 .. Len(q) -> S]
    BY LenProperties
  <1>2. q \in [1 .. Len(q) -> T]
    BY <1>1
  <1> QED  BY <1>1, <1>2, SeqDef

\* A log that grew makes no number bad.
LEMMA NumbersStay ==
    ASSUME SeqInv, NEW s \in Nat, lastSeq \in Nat, lastSeq <= s
    PROVE  /\ \A n \in Nodes : net[n] \in Seq(Messages(s))
           /\ \A n \in Nodes : queue[n] \in Seq(Entries(s))
  <1>1. Messages(lastSeq) \subseteq Messages(s)
    BY DEF Messages, Message, UpdateMessage, SavedMessage, StateRequest
  <1>2. Entries(lastSeq) \subseteq Entries(s)
    BY DEF Entries, Entry
  <1> QED  BY <1>1, <1>2, SeqsGrow DEF SeqInv

LEMMA PublishNumbers ==
    ASSUME SeqInv, NEW n \in Nodes, NEW messages \in Seq(Messages(lastSeq)), Publish(n, messages)
    PROVE  net' \in [Nodes -> Seq(Messages(lastSeq))]
  <1> DEFINE S == Messages(lastSeq)
  <1>1. net \in [Nodes -> Seq(S)] /\ messages \in Seq(S)
    BY DEF SeqInv
  <1> HIDE DEF S
  <1>2. net' \in [Nodes -> Seq(S)]
    BY <1>1 DEF Publish
  <1> QED  BY <1>2 DEF S

LEMMA ExchangeNumbers ==
    ASSUME SeqInv, NEW n \in Nodes, NEW messages \in Seq(Messages(lastSeq)), net[n] # <<>>,
           Exchange(n, messages)
    PROVE  net' \in [Nodes -> Seq(Messages(lastSeq))]
  <1> DEFINE S == Messages(lastSeq)
  <1>1. net \in [Nodes -> Seq(S)] /\ messages \in Seq(S)
    BY DEF SeqInv
  <1> HIDE DEF S
  <1>2. Tail(net[n]) \in Seq(S)
    BY <1>1, HeadTailProperties
  <1>3. net' \in [Nodes -> Seq(S)]
    BY <1>1, <1>2 DEF Exchange
  <1> QED  BY <1>3 DEF S

LEMMA HonestMessages ==
    ASSUME NEW s \in Nat
    PROVE  /\ StateRequest \in Messages(s)
           /\ \A updates \in SUBSET Updates : Carrying(updates) \in Messages(s)
           /\ \A t \in Nat : t <= s => [kind |-> "saved", seq |-> t] \in Messages(s)
  BY MessageTypes DEF Messages, StateRequest, Carrying

LEMMA NumberOfHead ==
    ASSUME SeqInv, NEW n \in Nodes, queue[n] # <<>>
    PROVE  /\ Head(queue[n]).seq <= lastSeq /\ Head(queue[n]).seq \in Nat
           /\ Tail(queue[n]) \in Seq(Entries(lastSeq))
  <1>1. Head(queue[n]) \in Entries(lastSeq) /\ Tail(queue[n]) \in Seq(Entries(lastSeq))
    BY HeadTailProperties DEF SeqInv
  <1> QED  BY <1>1 DEF Entries, Entry

\* An entry without a row enters the queue, or nothing does.
LEMMA QueueNumbers ==
    ASSUME TypeOK, SeqInv, NEW n \in Nodes, NEW e \in Entry, e.seq = 0,
           queue' = queue \/ queue' = [queue EXCEPT ![n] = Append(@, e)]
    PROVE  queue' \in [Nodes -> Seq(Entries(lastSeq))]
  <1>1. e \in Entries(lastSeq)
    BY DEF Entries, TypeOK
  <1> DEFINE S == Entries(lastSeq)
  <1>2. queue \in [Nodes -> Seq(S)] /\ e \in S
    BY <1>1 DEF SeqInv
  <1> HIDE DEF S
  <1>3. Append(queue[n], e) \in Seq(S)
    BY <1>2, AppendProperties
  <1>4. queue' \in [Nodes -> Seq(S)]
    BY <1>2, <1>3
  <1> QED  BY <1>4 DEF S

LEMMA SeqInvNext ==
    ASSUME TypeOK, SeqInv, [Next]_vars
    PROVE  SeqInv'
  <1>0. /\ lastSeq \in Nat /\ seq \in [Nodes -> Nat] /\ <<>> \in Seq(Messages(lastSeq))
        /\ \A n \in Nodes : doc[n] \in SUBSET Updates
    BY EmptySeq DEF TypeOK
  <1>1. CASE UNCHANGED vars \/ Expire
    BY <1>1 DEF Expire, vars, durable, room, SeqInv
  <1>2. ASSUME NEW n \in Nodes, Opening(n)
        PROVE  SeqInv'
    <2>1. CASE BeginOpen(n) \/ LoadBoard(n)
      BY <2>1 DEF BeginOpen, LoadBoard, durable, SeqInv
    <2>2. CASE OpenRoom(n)
      <3>1. <<StateRequest>> \in Seq(Messages(lastSeq))
        BY <1>0, HonestMessages
      <3>2. net' \in [Nodes -> Seq(Messages(lastSeq))]
        BY <2>2, <3>1, PublishNumbers DEF OpenRoom, Asks
      <3>3. \A m \in Nodes : seq'[m] <= lastSeq
        BY <1>0, <2>2 DEF OpenRoom, LastRow, SeqInv
      <3> QED  BY <2>2, <3>2, <3>3 DEF OpenRoom, durable, SeqInv
    <2>3. CASE OpenFails(n)
      BY <1>0, <2>3 DEF OpenFails, durable, SeqInv
    <2> QED  BY <1>2, <2>1, <2>2, <2>3 DEF Opening
  <1>3. ASSUME NEW n \in Nodes, LockCall(n)
        PROVE  SeqInv'
    BY <1>3 DEF LockCall, durable, room, SeqInv
  <1>4. ASSUME NEW n \in Nodes, LockReply(n)
        PROVE  SeqInv'
    <2> DEFINE e == [Entered(IF call[n].live THEN doc[n] ELSE call[n].doc)
                         EXCEPT !.live = call[n].live]
    <2>1. call[n].doc \in SUBSET Updates /\ call[n].live \in BOOLEAN
      BY DEF TypeOK, Call
    <2>2. e \in Entry /\ e.seq = 0
      BY <1>0, <2>1 DEF Entered, Entry
    <2>3. queue' = queue \/ queue' = [queue EXCEPT ![n] = Append(@, e)]
      BY <1>4 DEF LockReply, TypeOK
    <2> HIDE DEF e
    <2>4. queue' \in [Nodes -> Seq(Entries(lastSeq))]
      BY <2>2, <2>3, QueueNumbers
    <2> QED  BY <1>4, <2>4 DEF LockReply, durable, SeqInv
  <1>5. ASSUME NEW n \in Nodes, NEW new \in SUBSET Updates, Written(n, new)
        PROVE  queue' \in [Nodes -> Seq(Entries(lastSeq))]
    <2>1. Entered(new) \in Entry /\ Entered(new).seq = 0
      BY EntryTypes, EnteredIsNew
    <2>2. queue' = queue \/ queue' = [queue EXCEPT ![n] = Append(@, Entered(new))]
      BY <1>5 DEF Written
    <2> QED  BY <2>1, <2>2, QueueNumbers
  <1>6. ASSUME NEW n \in Nodes, NEW u \in Updates, ClientUpdate(n, u)
        PROVE  SeqInv'
    <2>1. <<Carrying({u})>> \in Seq(Messages(lastSeq))
      BY <1>0, HonestMessages
    <2>2. net' \in [Nodes -> Seq(Messages(lastSeq))]
      BY <1>6, <2>1, PublishNumbers DEF ClientUpdate
    <2>3. queue' \in [Nodes -> Seq(Entries(lastSeq))]
      BY <1>5, <1>6 DEF ClientUpdate
    <2> QED  BY <1>6, <2>2, <2>3 DEF ClientUpdate, durable, SeqInv
  <1>7. ASSUME NEW n \in Nodes, HandleBus(n)
        PROVE  SeqInv'
    <2> DEFINE m == Head(net[n])
    <2>1. net[n] # <<>> /\ m \in Messages(lastSeq)
      BY <1>7, HeadTailProperties DEF HandleBus, SeqInv
    <2>2. CASE HandleUpdate(n, m)
      <3>1. net' \in [Nodes -> Seq(Messages(lastSeq))]
        BY <1>0, <2>1, <2>2, ExchangeNumbers DEF HandleUpdate
      <3>2. m.updates \in SUBSET Updates
        BY <2>1, <2>2, BusHead DEF HandleUpdate
      <3>3. queue' \in [Nodes -> Seq(Entries(lastSeq))]
        BY <1>5, <2>2, <3>2 DEF HandleUpdate, WrittenFromBus
      <3> QED  BY <2>2, <3>1, <3>3 DEF HandleUpdate, durable, SeqInv
    <2>3. CASE HandleSaved(n, m)
      <3>1. net' \in [Nodes -> Seq(Messages(lastSeq))]
        BY <1>0, <2>1, <2>3, ExchangeNumbers DEF HandleSaved
      <3>2. m.seq \in Nat /\ m.seq <= lastSeq
        BY <2>1, <2>3, BusHead DEF HandleSaved, Messages
      <3> HIDE DEF m
      <3> QED  BY <1>0, <2>3, <3>1, <3>2 DEF HandleSaved, SeqAfterSaved, Newer, durable, SeqInv
    <2>4. CASE HandleRequest(n, m)
      <3>1. <<Carrying(doc[n])>> \in Seq(Messages(lastSeq))
        BY <1>0, HonestMessages
      <3>2. net' \in [Nodes -> Seq(Messages(lastSeq))]
        BY <2>1, <2>4, <3>1, ExchangeNumbers DEF HandleRequest
      <3> QED  BY <2>4, <3>2 DEF HandleRequest, durable, room, SeqInv
    <2> QED  BY <1>7, <2>2, <2>3, <2>4 DEF HandleBus
  <1>8. ASSUME NEW n \in Nodes, LoseMessage(n)
        PROVE  SeqInv'
    <2>1. Tail(net[n]) \in Seq(Messages(lastSeq))
      BY <1>8, HeadTailProperties DEF LoseMessage, SeqInv
    <2> QED  BY <1>8, <2>1 DEF LoseMessage, durable, room, SeqInv
  <1>9. ASSUME NEW n \in Nodes, AppendInsert(n)
        PROVE  SeqInv'
    <2> DEFINE s == lastSeq + 1
    <2>1. s \in Nat /\ lastSeq <= s /\ queue[n] # <<>> /\ lastSeq' = s
      BY <1>0, <1>9 DEF AppendInsert
    <2> HIDE DEF s
    <2>2. \A m \in Nodes : net[m] \in Seq(Messages(s)) /\ queue[m] \in Seq(Entries(s))
      BY <1>0, <2>1, NumbersStay
    <2>3. queue[n][1] \in Entry /\ 1 \in 1 .. Len(queue[n])
      BY <2>1, HeadTypes, LenProperties DEF TypeOK
    <2>4. [queue[n][1] EXCEPT !.seq = s] \in Entries(s)
      BY <2>1, <2>3 DEF Entries, Entry
    <2>5. [queue[n] EXCEPT ![1] = [queue[n][1] EXCEPT !.seq = s]] \in Seq(Entries(s))
      BY <2>2, <2>3, <2>4, ExceptSeq
    <2>6. queue' \in [Nodes -> Seq(Entries(s))]
      BY <1>9, <2>2, <2>5 DEF AppendInsert, TypeOK, s
    <2>7. net' \in [Nodes -> Seq(Messages(s))] /\ seq' = seq
      BY <1>9, <2>2 DEF AppendInsert, room, TypeOK
    <2>8. \A m \in Nodes : seq[m] <= s
      BY <1>0, <2>1 DEF SeqInv
    <2> QED  BY <2>1, <2>6, <2>7, <2>8 DEF SeqInv
  <1>10. ASSUME NEW n \in Nodes, AppendReturn(n)
         PROVE  SeqInv'
    <2> DEFINE saved == IF Head(queue[n]).live THEN SeqAfterAppend(n) ELSE Head(queue[n]).seq
    <2>1. queue[n] # <<>>
      BY <1>10 DEF AppendReturn
    <2>2. saved \in Nat /\ saved <= lastSeq
      BY <1>0, <2>1, NumberOfHead DEF SeqAfterAppend, Newer, SeqInv
    <2>3. <<[kind |-> "saved", seq |-> saved]>> \in Seq(Messages(lastSeq))
      BY <1>0, <2>2, HonestMessages
    <2>4. net' \in [Nodes -> Seq(Messages(lastSeq))]
      BY <1>10, <2>3, PublishNumbers DEF AppendReturn
    <2>5. queue' \in [Nodes -> Seq(Entries(lastSeq))]
      BY <1>10, <2>1, NumberOfHead DEF AppendReturn, SeqInv
    <2>6. \A m \in Nodes : seq'[m] <= lastSeq
      BY <1>0, <1>10, <2>2 DEF AppendReturn, SeqInv
    <2> QED  BY <1>10, <2>4, <2>5, <2>6 DEF AppendReturn, durable, SeqInv
  <1>11. ASSUME NEW n \in Nodes, AppendFails(n)
         PROVE  SeqInv'
    BY <1>11, NumberOfHead DEF AppendFails, durable, room, SeqInv
  <1>12. ASSUME NEW n \in Nodes, Ending(n)
         PROVE  SeqInv'
    <2>1. Forget(n) /\ lastSeq' = lastSeq
      BY <1>12 DEF Ending, Evict, Crash, durable
    <2>2. net' \in [Nodes -> Seq(Messages(lastSeq))]
      BY <1>0, <2>1 DEF Forget, SeqInv
    <2>3. \A m \in Nodes : seq'[m] <= lastSeq
      BY <1>0, <2>1 DEF Forget, SeqInv
    <2>4. queue' \in [Nodes -> Seq(Entries(lastSeq))]
      <3>1. CASE Evict(n)
        <4> DEFINE q == [i \in DOMAIN queue[n] |-> Orphaned(n, queue[n][i])]
        <4>1. \A e \in Entries(lastSeq) : Orphaned(n, e) \in Entries(lastSeq)
          BY <1>0 DEF Orphaned, Entries, Entry, Newer, SeqInv
        <4>2. queue[n] \in Seq(Entries(lastSeq))
          BY DEF SeqInv
        <4>3. DOMAIN queue[n] = 1 .. Len(queue[n]) /\ Len(queue[n]) \in Nat
              /\ \A i \in DOMAIN queue[n] : queue[n][i] \in Entries(lastSeq)
          BY <4>2, ElementOfSeq, LenProperties
        <4>4. q \in Seq(Entries(lastSeq))
          BY <4>1, <4>3, SeqDef
        <4> HIDE DEF q
        <4>5. queue' = [queue EXCEPT ![n] = q]
          BY <3>1 DEF Evict, q
        <4> QED  BY <4>4, <4>5 DEF SeqInv
      <3>2. CASE Crash(n)
        BY <3>2, EmptySeq DEF Crash, SeqInv
      <3> QED  BY <1>12, <3>1, <3>2 DEF Ending
    <2> QED  BY <2>1, <2>2, <2>3, <2>4 DEF SeqInv
  <1> QED  BY <1>1, <1>2, <1>3, <1>4, <1>6, <1>7, <1>8, <1>9, <1>10, <1>11, <1>12
              DEF Next, Ownership, Writing

\* The number that a room announces as saved was given to a row.
THEOREM ClusterSeqIsHandedOut == Spec => []SeqWasHandedOut
  <1>1. Init => SeqInv
    <2> SUFFICES ASSUME Init PROVE SeqInv
      OBVIOUS
    <2>1. <<>> \in Seq(Messages(lastSeq)) /\ <<>> \in Seq(Entries(lastSeq))
      BY EmptySeq
    <2> QED  BY <2>1 DEF Init, SeqInv
  <1>2. SeqInv => SeqWasHandedOut
    BY DEF SeqInv, SeqWasHandedOut
  <1> QED  BY <1>1, <1>2, ClusterTypeCorrect, SeqInvNext, PTL DEF Spec

=============================================================================
