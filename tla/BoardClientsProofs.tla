------------------------- MODULE BoardClientsProofs -------------------------
(***************************************************************************)
(* What holds of a room and its clients for any number of clients, edits,  *)
(* broken connections and failures.                                        *)
(***************************************************************************)
EXTENDS BoardClients, FiniteSetTheorems, SequenceTheorems, TLAPS

(***************************************************************************)
(* The inductive invariant, in layers.  Sessions: what a session is in     *)
(* each step, and who is present.  Roles: the last role on its way to a    *)
(* client is its session's.  Origins: where an update has been on its way. *)
(* Order: an update comes after its predecessors, or they were denied.     *)
(* Delivery: what the room shows is on its way to everybody.               *)
(***************************************************************************)
Named == \A s \in Sessions : step[s] # "none" => by[s] \in Clients

SessionAt(s) ==
    /\ step[s] = "none" => s \notin broken /\ up[s] = <<>>
    /\ step[s] \in {"none", "verify", "load"} => down[s] = <<>> /\ fresh[s] = "none"
    /\ s \in members <=> step[s] = "open"

LinksHeld == \A c \in Clients : link[c] # 0 => by[link[c]] = c /\ step[link[c]] # "none"

PendingHeld == \A i \in DOMAIN pend : step[pend[i].from] # "none"

PresenceHeld ==
    /\ owned \subseteq members
    /\ \A c \in present : \E s \in owned : by[s] = c

SessionsHeld == (\A s \in Sessions : SessionAt(s)) /\ LinksHeld /\ PendingHeld /\ PresenceHeld

\* A client whose connection carries what it is told.
Connected(c) == link[c] # 0 /\ step[link[c]] = "open" /\ link[c] \notin broken

\* One who knows the role r and then reads q ends with w: from some message on, w
\* is all that is said.
HeardAt(q, r, w, i) ==
    /\ i = 0 => r = w
    /\ i > 0 => q[i].role = w
    /\ \A j \in (i + 1)..Len(q) : q[j].role = "same" \/ q[j].role = w

Heard(q, r, w) == \E i \in 0..Len(q) : HeardAt(q, r, w, i)

HearsRole(c, s) == Heard(down[s], role[c], srole[s])

RolesHeld == \A c \in Clients : Connected(c) => HearsRole(c, link[c])

\* The updates in a queue.
Carried(q) == UNION {q[i].set : i \in DOMAIN q}

DocsHeld ==
    /\ \A c \in Clients : \A u \in doc[c] : u[1] = c \/ u \in room
    /\ \A u \in room : u \in doc[u[1]]
    /\ \A u \in Updates : u \in doc[u[1]] => \A k \in 1..u[2] : <<u[1], k>> \in doc[u[1]]

QueuesHeld ==
    /\ \A s \in Sessions : \A u \in Carried(up[s]) : u \in doc[by[s]]
    /\ \A s \in Sessions : Carried(down[s]) \subseteq room
    /\ \A i \in DOMAIN pend : pend[i].set \subseteq room \cap doc[by[pend[i].from]]

Origins == DocsHeld /\ QueuesHeld

\* Each update in a queue comes after what it needs, but for what is in S.
Ordered(q, S) ==
    \A i \in DOMAIN q : \A u \in q[i].set : \A k \in 1..u[2] :
        <<u[1], k>> \in S \cup UNION {q[j].set : j \in 1..i}

Order ==
    /\ \A u \in room : \A k \in 1..u[2] : <<u[1], k>> \in room \cup refused
    /\ \A s \in Sessions : Ordered(up[s], room \cup refused)
    /\ \A c \in Clients : link[c] # 0 /\ link[c] \notin broken =>
           doc[c] \subseteq room \cup refused \cup Carried(up[link[c]])

Delivery ==
    \A c \in Clients : Connected(c) =>
        Whole(room) \subseteq doc[c] \cup Carried(down[link[c]]) \cup Carried(pend) \cup failed

\* What the room shows is in the database, waits for its append, or failed.
Written == Whole(room) \subseteq log \cup failed \cup Carried(pend)
-----------------------------------------------------------------------------
(***************************************************************************)
(* Sequences and messages.                                                 *)
(***************************************************************************)
LEMMA SessionsAreNumbers == Sessions \subseteq Nat \ {0}
<1>1. Cardinality(Clients) \in Nat
  BY FS_CardinalityType, ClientsAssumption
<1>. QED  BY <1>1, BoundAssumption DEF Sessions

LEMMA OneMessage ==
    ASSUME NEW T, NEW m \in T
    PROVE  <<m>> \in Seq(T) /\ \A i \in DOMAIN <<m>> : <<m>>[i] = m
OBVIOUS

LEMMA WholeIsPart == ASSUME NEW S PROVE Whole(S) \subseteq S
BY DEF Whole

LEMMA MessageTypes ==
    /\ Nothing \in Message /\ Announcement \in Message
    /\ \A X \in SUBSET Updates : Update(X) \in Message
    /\ \A save \in {"saved", "unsaved"} : Info(save) \in Message
BY DEF Message, Nothing, Announcement, Update, Info

\* Messages reach a connection that is not broken, and only that one.
LEMMA SentIsThere ==
    ASSUME NEW queues \in [Sessions -> Seq(Message)], NEW s \in Sessions \cup {0},
           NEW ms \in Seq(Message)
    PROVE  /\ Sent(queues, s, ms) \in [Sessions -> Seq(Message)]
           /\ \A t \in Sessions : Sent(queues, s, ms)[t] =
                  IF t = s /\ s \notin broken THEN queues[t] \o ms ELSE queues[t]
<1>1. 0 \notin Sessions
  BY SessionsAreNumbers
<1>2. \A t \in Sessions : queues[t] \o ms \in Seq(Message)
  BY ConcatProperties
<1>. QED  BY <1>1, <1>2 DEF Sent

LEMMA ToAllIsThere ==
    ASSUME NEW sessions, NEW m \in Message, down \in [Sessions -> Seq(Message)]
    PROVE  /\ ToAll(sessions, m) \in [Sessions -> Seq(Message)]
           /\ \A t \in Sessions : ToAll(sessions, m)[t] =
                  IF t \in sessions \ broken THEN down[t] \o <<m>> ELSE down[t]
<1>1. \A t \in Sessions : Append(down[t], m) = down[t] \o <<m>> /\ Append(down[t], m) \in Seq(Message)
  BY AppendIsConcat, AppendProperties
<1>. QED  BY <1>1 DEF ToAll

LEMMA CarriedEmpty == Carried(<<>>) = {}
BY DEF Carried

LEMMA CarriedOne == ASSUME NEW m PROVE Carried(<<m>>) = m.set
BY DEF Carried

LEMMA CarriedConcat ==
    ASSUME NEW T, NEW q \in Seq(T), NEW r \in Seq(T)
    PROVE  Carried(q \o r) = Carried(q) \cup Carried(r)
<1>1. /\ q \o r \in Seq(T) /\ Len(q \o r) = Len(q) + Len(r)
      /\ \A i \in 1..(Len(q) + Len(r)) :
             (q \o r)[i] = IF i <= Len(q) THEN q[i] ELSE r[i - Len(q)]
      /\ Len(q) \in Nat /\ Len(r) \in Nat
  BY ConcatProperties, LenProperties
<1>2. \A x : x \in Carried(q \o r) => x \in Carried(q) \cup Carried(r)
  BY <1>1 DEF Carried
<1>3. \A x : x \in Carried(q) => x \in Carried(q \o r)
  BY <1>1 DEF Carried
<1>4. ASSUME NEW x \in Carried(r) PROVE x \in Carried(q \o r)
  <2>1. PICK i \in DOMAIN r : x \in r[i].set
    BY DEF Carried
  <2>2. i + Len(q) \in 1..(Len(q) + Len(r)) /\ (q \o r)[i + Len(q)] = r[i]
    BY <1>1, <2>1
  <2>. QED  BY <1>1, <2>1, <2>2 DEF Carried
<1>. QED  BY <1>2, <1>3, <1>4

LEMMA CarriedAppend ==
    ASSUME NEW T, NEW q \in Seq(T), NEW m \in T
    PROVE  Carried(q \o <<m>>) = Carried(q) \cup m.set
<1>1. <<m>> \in Seq(T)
  OBVIOUS
<1>2. ASSUME NEW r \in Seq(T) PROVE Carried(q \o r) = Carried(q) \cup Carried(r)
  BY CarriedConcat
<1>3. Carried(q \o <<m>>) = Carried(q) \cup Carried(<<m>>)
  BY <1>1, <1>2
<1>. QED  BY <1>3, CarriedOne, Zenon

LEMMA CarriedGrows ==
    ASSUME NEW T, NEW q \in Seq(T), NEW m \in T
    PROVE  Carried(Append(q, m)) = Carried(q) \cup m.set
<1>1. Append(q, m) = q \o <<m>>
  BY AppendIsConcat
<1>. QED  BY <1>1, CarriedAppend, Zenon

LEMMA CarriedHeadTail ==
    ASSUME NEW T, NEW q \in Seq(T), q # <<>>
    PROVE  Carried(q) = Head(q).set \cup Carried(Tail(q))
<1>1. /\ Tail(q) \in Seq(T) /\ Len(Tail(q)) = Len(q) - 1 /\ Len(q) \in Nat /\ Len(q) # 0
      /\ DOMAIN q = 1..Len(q) /\ DOMAIN Tail(q) = 1..Len(Tail(q))
      /\ \A i \in 1..(Len(q) - 1) : Tail(q)[i] = q[i + 1]
      /\ Head(q) = q[1]
  BY HeadTailProperties, LenProperties
<1>2. ASSUME NEW x \in Carried(q) PROVE x \in Head(q).set \cup Carried(Tail(q))
  <2>1. PICK i \in 1..Len(q) : x \in q[i].set
    BY <1>1 DEF Carried
  <2>2. CASE i # 1
    <3>1. i - 1 \in 1..(Len(q) - 1) /\ Tail(q)[i - 1] = q[i]
      BY <1>1, <2>2
    <3>. QED  BY <1>1, <2>1, <3>1 DEF Carried
  <2>. QED  BY <1>1, <2>1, <2>2
<1>3. Head(q).set \subseteq Carried(q)
  BY <1>1 DEF Carried
<1>4. ASSUME NEW x \in Carried(Tail(q)) PROVE x \in Carried(q)
  <2>1. PICK i \in 1..(Len(q) - 1) : x \in Tail(q)[i].set
    BY <1>1 DEF Carried
  <2>2. i + 1 \in 1..Len(q) /\ x \in q[i + 1].set
    BY <1>1, <2>1
  <2>. QED  BY <1>1, <2>2 DEF Carried
<1>. QED  BY <1>2, <1>3, <1>4

LEMMA OrderedGrows ==
    ASSUME NEW q, NEW S, NEW R, Ordered(q, S), S \subseteq R
    PROVE  Ordered(q, R)
BY DEF Ordered

LEMMA OrderedTail ==
    ASSUME NEW T, NEW q \in Seq(T), q # <<>>, NEW S, NEW R, Ordered(q, S),
           S \cup Head(q).set \subseteq R
    PROVE  Ordered(Tail(q), R)
<1>1. /\ Tail(q) \in Seq(T) /\ Len(Tail(q)) = Len(q) - 1 /\ Len(q) \in Nat
      /\ \A i \in 1..(Len(q) - 1) : Tail(q)[i] = q[i + 1]
      /\ Head(q) = q[1]
  BY HeadTailProperties, LenProperties
<1>dom. DOMAIN Tail(q) = 1..(Len(q) - 1) /\ DOMAIN q = 1..Len(q)
  BY <1>1, LenProperties
<1>2. SUFFICES ASSUME NEW i \in 1..(Len(q) - 1), NEW u \in Tail(q)[i].set, NEW k \in 1..u[2]
               PROVE  <<u[1], k>> \in R \cup UNION {Tail(q)[j].set : j \in 1..i}
  BY <1>dom, Zenon DEF Ordered
<1>3. i + 1 \in DOMAIN q /\ u \in q[i + 1].set
  BY <1>1
<1>4. <<u[1], k>> \in S \cup UNION {q[j].set : j \in 1..(i + 1)}
  BY <1>3 DEF Ordered
<1>5. ASSUME NEW j \in 1..(i + 1), <<u[1], k>> \in q[j].set, j # 1
      PROVE  <<u[1], k>> \in UNION {Tail(q)[n].set : n \in 1..i}
  <2>1. j - 1 \in 1..i /\ j - 1 \in 1..(Len(q) - 1) /\ Tail(q)[j - 1] = q[j]
    BY <1>1, <1>5
  <2>. QED  BY <1>5, <2>1
<1>6. <<u[1], k>> \in S \/ \E j \in 1..(i + 1) : <<u[1], k>> \in q[j].set
  BY <1>4
<1>7. q[1].set \subseteq R /\ S \subseteq R
  BY <1>1
<1>. QED  BY <1>5, <1>6, <1>7

LEMMA OrderedAppend ==
    ASSUME NEW T, NEW q \in Seq(T), NEW m \in T, NEW S, Ordered(q, S),
           \A u \in m.set : \A k \in 1..u[2] : <<u[1], k>> \in S \cup Carried(q) \cup m.set
    PROVE  Ordered(q \o <<m>>, S)
<1>. DEFINE r == q \o <<m>>
<1>1. /\ r \in Seq(T) /\ Len(r) = Len(q) + 1 /\ Len(q) \in Nat
      /\ \A i \in 1..Len(q) : r[i] = q[i]
      /\ r[Len(q) + 1] = m
  BY AppendIsConcat, AppendProperties, LenProperties
<1>dom. DOMAIN r = 1..(Len(q) + 1) /\ DOMAIN q = 1..Len(q)
  BY <1>1, LenProperties
<1>2. SUFFICES ASSUME NEW i \in 1..(Len(q) + 1), NEW u \in r[i].set, NEW k \in 1..u[2]
               PROVE  <<u[1], k>> \in S \cup UNION {r[j].set : j \in 1..i}
  BY <1>dom, Zenon DEF Ordered
<1>3. CASE i <= Len(q)
  <2>1. i \in DOMAIN q /\ u \in q[i].set
    BY <1>1, <1>3
  <2>2. <<u[1], k>> \in S \cup UNION {q[j].set : j \in 1..i}
    BY <2>1 DEF Ordered
  <2>3. \A j \in 1..i : r[j] = q[j]
    BY <1>1, <1>3
  <2>. HIDE DEF r
  <2>4. UNION {r[j].set : j \in 1..i} = UNION {q[j].set : j \in 1..i}
    BY <2>3
  <2>. QED  BY <2>2, <2>4
<1>4. CASE i = Len(q) + 1
  <2>1. <<u[1], k>> \in S \cup Carried(q) \cup m.set
    BY <1>1, <1>4
  <2>2. <<u[1], k>> \in Carried(q) => <<u[1], k>> \in UNION {r[j].set : j \in 1..i}
    BY <1>1, <1>4 DEF Carried
  <2>. QED  BY <1>1, <1>4, <2>1, <2>2
<1>. QED  BY <1>3, <1>4
-----------------------------------------------------------------------------
(***************************************************************************)
(* Types.                                                                  *)
(***************************************************************************)
LEMMA SentTypes ==
    ASSUME QueueTypes, NEW s \in Sessions \cup {0}, NEW ms \in Seq(Message)
    PROVE  /\ Sent(up, s, ms) \in [Sessions -> Seq(Message)]
           /\ Sent(down, s, ms) \in [Sessions -> Seq(Message)]
BY SentIsThere DEF QueueTypes

LEMMA ConnectTypes ==
    ASSUME TypeOK, NEW c \in Clients, Connect(c)
    PROVE  TypeOK'
<1>1. PICK s \in Sessions : /\ link' = [link EXCEPT ![c] = s]
                            /\ by' = [by EXCEPT ![s] = c]
                            /\ step' = [step EXCEPT ![s] = "verify"]
                            /\ up' = [up EXCEPT ![s] = <<Hello(c)>>]
  BY DEF Connect
<1>2. doc[c] \in SUBSET Updates /\ Whole(doc[c]) \subseteq Updates
  BY WholeIsPart DEF TypeOK, ClientTypes
<1>3. Hello(c) \in Message
  BY <1>2 DEF Hello, Offer, Message, Nothing
<1>4. up' \in [Sessions -> Seq(Message)]
  BY <1>1, <1>3 DEF TypeOK, QueueTypes
<1>5. ClientTypes'
  BY <1>1 DEF TypeOK, ClientTypes, Connect
<1>6. SessionTypes'
  BY <1>1 DEF TypeOK, SessionTypes, Connect
<1>7. QueueTypes' /\ BoardTypes' /\ PresenceTypes'
  BY <1>4 DEF TypeOK, QueueTypes, BoardTypes, PresenceTypes, Connect, board, presence
<1>. QED  BY <1>5, <1>6, <1>7 DEF TypeOK, Connect, bounds

LEMMA EditTypes ==
    ASSUME TypeOK, NEW c \in Clients, Edit(c)
    PROVE  TypeOK'
<1>1. PICK n \in 1..Edits[c] : /\ doc' = [doc EXCEPT ![c] = @ \cup {<<c, n>>}]
                               /\ up' = Sent(up, link[c], <<Update({<<c, n>>})>>)
  BY DEF Edit
<1>2. <<c, n>> \in Updates
  BY DEF Updates
<1>3. <<Update({<<c, n>>})>> \in Seq(Message) /\ link[c] \in Sessions \cup {0}
  BY <1>2, MessageTypes DEF TypeOK, ClientTypes
<1>4. up' \in [Sessions -> Seq(Message)]
  BY <1>1, <1>3, SentTypes DEF TypeOK
<1>5. shown' \in [Clients -> {"unsaved", "saving", "saved"}]
  BY DEF Edit, TypeOK, ClientTypes
<1>6. ClientTypes'
  BY <1>1, <1>2, <1>5 DEF TypeOK, ClientTypes, Edit
<1>. QED  BY <1>4, <1>6 DEF TypeOK, QueueTypes, SessionTypes, BoardTypes, PresenceTypes, Edit,
                            session, board, presence, bounds

LEMMA ClientReadsTypes ==
    ASSUME TypeOK, NEW c \in Clients, ClientReads(c)
    PROVE  TypeOK'
<1>. DEFINE s == link[c]
            m == Head(down[s])
<1>1. s \in Sessions /\ down[s] \in Seq(Message) /\ down[s] # <<>>
  BY DEF ClientReads, TypeOK, ClientTypes, QueueTypes
<1>2. m \in Message /\ Tail(down[s]) \in Seq(Message)
  BY <1>1, HeadTailProperties
<1>3. /\ m.set \in SUBSET Updates /\ m.role \in Roles \cup {"same"}
      /\ m.save \in {"saved", "unsaved", "same"}
  BY <1>2 DEF Message
<1>4. Answer(c, m) \in Seq(Message)
  <2>1. Offer(c, m.have) \in SUBSET Updates
    BY DEF Offer, TypeOK, ClientTypes
  <2>2. Update(Offer(c, m.have)) \in Message
    BY <2>1, MessageTypes
  <2>. QED  BY <2>2 DEF Answer
<1>5. up' \in [Sessions -> Seq(Message)]
  BY <1>1, <1>4, SentTypes DEF ClientReads, TypeOK
<1>6. down' \in [Sessions -> Seq(Message)]
  BY <1>1, <1>2 DEF ClientReads, TypeOK, QueueTypes
<1>7. ClientTypes'
  BY <1>3 DEF ClientReads, RoleAfter, TypeOK, ClientTypes
<1>. QED  BY <1>5, <1>6, <1>7 DEF TypeOK, QueueTypes, SessionTypes, BoardTypes, PresenceTypes,
                            ClientReads, session, board, presence, bounds

LEMMA ClientTypesKept ==
    ASSUME TypeOK, NEW c \in Clients,
           Connect(c) \/ Edit(c) \/ ClientReads(c) \/ SeesClose(c) \/ SeesDenied(c)
               \/ Renew(c) \/ ChangeRole(c)
    PROVE  TypeOK'
<1>1. CASE Connect(c)
  BY <1>1, ConnectTypes
<1>2. CASE Edit(c)
  BY <1>2, EditTypes
<1>3. CASE ClientReads(c)
  BY <1>3, ClientReadsTypes
<1>4. CASE SeesClose(c)
  <2>1. ClientTypes'
    BY <1>4 DEF SeesClose, SaysUnsaved, TypeOK, ClientTypes
  <2>2. QueueTypes'
    <3>1. <<>> \in Seq(Message)
      BY EmptySeq
    <3>. QED  BY <1>4, <3>1 DEF SeesClose, TypeOK, QueueTypes
  <2>. QED  BY <1>4, <2>1, <2>2 DEF TypeOK, SessionTypes, BoardTypes, PresenceTypes, SeesClose,
                            session, board, presence, bounds
<1>5. CASE SeesDenied(c)
  <2>1. ClientTypes'
    BY <1>5 DEF SeesDenied, SaysUnsaved, TypeOK, ClientTypes
  <2>. QED  BY <1>5, <2>1 DEF TypeOK, SessionTypes, QueueTypes, BoardTypes, PresenceTypes,
                            SeesDenied, session, board, presence, bounds
<1>6. CASE Renew(c)
  <2>1. up' \in [Sessions -> Seq(Message)]
    <3>1. <<Announcement>> \in Seq(Message) /\ link[c] \in Sessions \cup {0}
      BY MessageTypes DEF TypeOK, ClientTypes
    <3>2. up' = Sent(up, link[c], <<Announcement>>)
      BY <1>6 DEF Renew
    <3>. QED  BY <3>1, <3>2, SentTypes DEF TypeOK
  <2>. QED  BY <1>6, <2>1 DEF TypeOK, ClientTypes, SessionTypes, QueueTypes, BoardTypes,
                            PresenceTypes, Renew, client, session, board, presence, bounds
<1>7. CASE ChangeRole(c)
  <2>1. access' \in [Clients -> Roles \cup {"none"}] /\ faults' \in 0..MaxFaults
    BY <1>7, BoundAssumption DEF ChangeRole, TypeOK
  <2>. QED  BY <1>7, <2>1 DEF TypeOK, ClientTypes, SessionTypes, QueueTypes, BoardTypes,
                            PresenceTypes, ChangeRole, client, session, board, presence
<1>. QED  BY <1>1, <1>2, <1>3, <1>4, <1>5, <1>6, <1>7
\* The steps of a handshake and of a refresh, and a connection that breaks, leave
\* the queues alone.
LEMMA QuietStepTypes ==
    ASSUME TypeOK, Named, NEW s \in Sessions,
           Verify(s) \/ JoinFails(s) \/ RefreshRead(s) \/ Break(s)
    PROVE  TypeOK'
<1>1. step[s] # "none" => access[by[s]] \in Roles \cup {"none"}
  BY DEF Named, TypeOK
<1>2. CASE Verify(s)
  <2>1. SessionTypes'
    <3>1. CASE access[by[s]] = "none"
      BY <1>2, <3>1 DEF Verify, TypeOK, SessionTypes
    <3>2. CASE access[by[s]] # "none"
      BY <1>1, <1>2, <3>2 DEF Verify, TypeOK, SessionTypes
    <3>. QED  BY <3>1, <3>2
  <2>. QED  BY <1>2, <2>1 DEF TypeOK, ClientTypes, QueueTypes, BoardTypes, PresenceTypes,
                            Verify, client, board, presence, bounds
<1>3. CASE JoinFails(s)
  <2>1. SessionTypes' /\ faults' \in 0..MaxFaults
    BY <1>3, BoundAssumption DEF JoinFails, TypeOK, SessionTypes
  <2>. QED  BY <1>3, <2>1 DEF TypeOK, ClientTypes, QueueTypes, BoardTypes, PresenceTypes,
                            JoinFails, client, board, presence
<1>4. CASE RefreshRead(s)
  <2>1. SessionTypes'
    BY <1>1, <1>4 DEF RefreshRead, TypeOK, SessionTypes
  <2>. QED  BY <1>4, <2>1 DEF TypeOK, ClientTypes, QueueTypes, BoardTypes, PresenceTypes,
                            RefreshRead, client, board, presence, bounds
<1>5. CASE Break(s)
  <2>1. SessionTypes' /\ faults' \in 0..MaxFaults /\ drops' \in 0..MaxDrops
    BY <1>5, BoundAssumption DEF Break, TypeOK, SessionTypes
  <2>. QED  BY <1>5, <2>1 DEF TypeOK, ClientTypes, QueueTypes, BoardTypes, PresenceTypes,
                            Break, client, board, presence
<1>. QED  BY <1>2, <1>3, <1>4, <1>5

LEMMA JoinTypes ==
    ASSUME TypeOK, NEW s \in Sessions, Join(s)
    PROVE  TypeOK'
<1>1. Welcome(s) \in Message
  BY WholeIsPart DEF Welcome, Message, TypeOK, SessionTypes, BoardTypes
<1>2. ToAll(members, Info("saved")) \in [Sessions -> Seq(Message)]
  BY ToAllIsThere, MessageTypes DEF TypeOK, QueueTypes
<1>3. <<Welcome(s)>> \in Seq(Message)
  BY <1>1
<1>4. down' \in [Sessions -> Seq(Message)]
  BY <1>2, <1>3, SentIsThere DEF Join
<1>5. SessionTypes'
  BY DEF Join, TypeOK, SessionTypes
<1>. QED  BY <1>4, <1>5 DEF TypeOK, ClientTypes, QueueTypes, BoardTypes, PresenceTypes, Join,
                            client, presence, bounds

LEMMA SessionReadsTypes ==
    ASSUME TypeOK, Named, NEW s \in Sessions, SessionReads(s)
    PROVE  TypeOK'
<1>. DEFINE m == Head(up[s])
            denied == m.set # {} /\ ~MayWrite(s)
            answer == (IF m.type = "hello" THEN <<Update(room \ m.have)>> ELSE <<>>)
                          \o (IF denied THEN Denial(s) ELSE <<>>)
<1>1. /\ up' = [up EXCEPT ![s] = Tail(@)] /\ down' = Sent(down, s, answer)
      /\ up[s] \in Seq(Message) /\ up[s] # <<>>
  BY DEF SessionReads, TypeOK, QueueTypes
<1>2. m \in Message /\ Tail(up[s]) \in Seq(Message)
  BY <1>1, HeadTailProperties
<1>3. m.set \in SUBSET Updates
  BY <1>2 DEF Message
<1>4. answer \in Seq(Message)
  <2>1. Update(room \ m.have) \in Message
    BY MessageTypes DEF TypeOK, BoardTypes
  <2>2. [Nothing EXCEPT !.role = srole[s]] \in Message
    BY DEF Nothing, Message, TypeOK, SessionTypes
  <2>3. <<Update(room \ m.have)>> \in Seq(Message) /\ Denial(s) \in Seq(Message)
        /\ <<>> \in Seq(Message)
    BY <2>1, <2>2, EmptySeq DEF Denial
  <2>. QED  BY <2>3, ConcatProperties
<1>5. QueueTypes'
  <2>1. down' \in [Sessions -> Seq(Message)]
    BY <1>1, <1>4, SentTypes DEF TypeOK
  <2>. QED  BY <1>1, <1>2, <2>1 DEF TypeOK, QueueTypes
<1>6. BoardTypes'
  <2>1. Gained(m.set) \in SUBSET Updates
    BY <1>3, WholeIsPart DEF Gained, TypeOK, BoardTypes
  <2>2. pend' \in Seq([set : SUBSET Updates, from : Sessions])
    <3>1. [set |-> Gained(m.set), from |-> s] \in [set : SUBSET Updates, from : Sessions]
      BY <2>1
    <3>2. Append(pend, [set |-> Gained(m.set), from |-> s]) \in Seq([set : SUBSET Updates, from : Sessions])
      BY <3>1, AppendProperties DEF TypeOK, BoardTypes
    <3>. QED  BY <3>2 DEF SessionReads, Merge, TypeOK, BoardTypes
  <2>3. room' \in SUBSET Updates /\ refused' \in SUBSET Updates
    BY <1>3 DEF SessionReads, Merge, TypeOK, BoardTypes
  <2>. QED  BY <2>2, <2>3 DEF SessionReads, TypeOK, BoardTypes
<1>7. PresenceTypes'
  <2>1. CASE m.type \in {"hello", "present"} /\ Accepts(s)
    <3>1. by[s] \in Clients
      BY DEF Named, SessionReads
    <3>. QED  BY <2>1, <3>1 DEF TypeOK, PresenceTypes, SessionReads, Receive
  <2>2. CASE ~ (m.type \in {"hello", "present"} /\ Accepts(s))
    BY <2>2 DEF TypeOK, PresenceTypes, SessionReads, Receive, presence
  <2>. QED  BY <2>1, <2>2
<1>. QED  BY <1>5, <1>6, <1>7 DEF TypeOK, ClientTypes, SessionTypes, SessionReads,
                            client, session, bounds
LEMMA AppendTypes ==
    ASSUME TypeOK, AppendOk \/ AppendFails
    PROVE  TypeOK'
<1>. DEFINE e == Head(pend)
            T == [set : SUBSET Updates, from : Sessions]
<1>1. e \in T /\ Tail(pend) \in Seq(T)
  BY HeadTailProperties DEF AppendOk, AppendFails, TypeOK, BoardTypes
<1>2. CASE AppendOk
  <2>1. BoardTypes'
    BY <1>1, <1>2 DEF AppendOk, TypeOK, BoardTypes
  <2>2. [Update(e.set) EXCEPT !.save = "saved"] \in Message
    BY <1>1 DEF Update, Nothing, Message
  <2>3. down' \in [Sessions -> Seq(Message)]
    <3>1. ToAll(members, Info("saved")) \in [Sessions -> Seq(Message)]
      BY ToAllIsThere, MessageTypes DEF TypeOK, QueueTypes
    <3>2. ASSUME NEW s \in Sessions
          PROVE  Append(down[s], [Update(e.set) EXCEPT !.save = "saved"]) \in Seq(Message)
      <4>1. down[s] \in Seq(Message)
        BY DEF TypeOK, QueueTypes
      <4>. QED  BY <2>2, <4>1, AppendProperties
    <3>. QED  BY <1>2, <3>1, <3>2 DEF AppendOk, Fanout
  <2>. QED  BY <1>2, <2>1, <2>3 DEF TypeOK, ClientTypes, SessionTypes, QueueTypes, PresenceTypes,
                            AppendOk, client, session, presence, bounds
<1>3. CASE AppendFails
  <2>1. BoardTypes' /\ faults' \in 0..MaxFaults
    BY <1>1, <1>3, BoundAssumption DEF AppendFails, TypeOK, BoardTypes
  <2>2. down' \in [Sessions -> Seq(Message)]
    BY <1>3, ToAllIsThere, MessageTypes DEF AppendFails, TypeOK, QueueTypes
  <2>. QED  BY <1>3, <2>1, <2>2 DEF TypeOK, ClientTypes, SessionTypes, QueueTypes, PresenceTypes,
                            AppendFails, client, session, presence
<1>. QED  BY <1>2, <1>3

LEMMA SessionTypesKept ==
    ASSUME TypeOK, Named, NEW s \in Sessions,
           Verify(s) \/ JoinFails(s) \/ Join(s) \/ SessionReads(s) \/ Leave(s)
               \/ RefreshRead(s) \/ RefreshSet(s) \/ Break(s)
    PROVE  TypeOK'
<1>1. CASE Verify(s) \/ JoinFails(s) \/ RefreshRead(s) \/ Break(s)
  BY <1>1, QuietStepTypes
<1>2. CASE Join(s)
  BY <1>2, JoinTypes
<1>3. CASE SessionReads(s)
  BY <1>3, SessionReadsTypes
<1>4. CASE Leave(s)
  <2>1. <<>> \in Seq(Message) /\ up' \in [Sessions -> Seq(Message)]
    BY <1>4, EmptySeq DEF Leave, TypeOK, QueueTypes
  <2>2. down' \in [Sessions -> Seq(Message)]
    BY <1>4, ToAllIsThere, MessageTypes DEF Leave, TypeOK, QueueTypes
  <2>3. SessionTypes' /\ BoardTypes' /\ PresenceTypes'
    BY <1>4 DEF Leave, TypeOK, SessionTypes, BoardTypes, PresenceTypes
  <2>. QED  BY <1>4, <2>1, <2>2, <2>3 DEF TypeOK, ClientTypes, QueueTypes, Leave, client, bounds
<1>5. CASE RefreshSet(s)
  <2>1. fresh[s] \in Roles
    BY <1>5 DEF RefreshSet, TypeOK, SessionTypes
  <2>2. RoleNews(s) \in Seq(Message)
    <3>1. [Nothing EXCEPT !.role = fresh[s]] \in Message
      BY <2>1 DEF Nothing, Message
    <3>. QED  BY <3>1 DEF RoleNews
  <2>3. down' \in [Sessions -> Seq(Message)]
    BY <1>5, <2>2, SentTypes DEF RefreshSet, TypeOK
  <2>4. SessionTypes'
    BY <1>5, <2>1 DEF RefreshSet, TypeOK, SessionTypes
  <2>. QED  BY <1>5, <2>3, <2>4 DEF TypeOK, ClientTypes, QueueTypes, BoardTypes, PresenceTypes,
                            RefreshSet, client, board, presence, bounds
<1>. QED  BY <1>1, <1>2, <1>3, <1>4, <1>5

LEMMA NamedKept ==
    ASSUME TypeOK, Named, [Next]_vars
    PROVE  Named'
<1>1. ASSUME NEW c \in Clients, Connect(c) PROVE Named'
  BY <1>1 DEF Connect, Named, TypeOK, SessionTypes
<1>2. ASSUME NEW s \in Sessions, step[s] # "none", NEW x, step' = [step EXCEPT ![s] = x], by' = by
      PROVE  Named'
  BY <1>2 DEF Named, TypeOK, SessionTypes
<1>3. ASSUME NEW s \in Sessions, Verify(s) PROVE Named'
  BY <1>2, <1>3 DEF Verify
<1>4. ASSUME NEW s \in Sessions, JoinFails(s) \/ Join(s) \/ Leave(s) PROVE Named'
  BY <1>2, <1>4 DEF JoinFails, Join, Leave
<1>5. CASE UNCHANGED <<step, by>>
  BY <1>5 DEF Named
<1>6. ASSUME NEW c \in Clients, Edit(c) \/ ClientReads(c) \/ SeesClose(c) \/ SeesDenied(c)
                                    \/ Renew(c) \/ ChangeRole(c)
      PROVE  UNCHANGED <<step, by>>
  BY <1>6 DEF Edit, ClientReads, SeesClose, SeesDenied, Renew, ChangeRole, session
<1>7. ASSUME NEW s \in Sessions, SessionReads(s) \/ RefreshRead(s) \/ RefreshSet(s) \/ Break(s)
      PROVE  UNCHANGED <<step, by>>
  BY <1>7 DEF SessionReads, RefreshRead, RefreshSet, Break, session
<1>8. AppendOk \/ AppendFails \/ UNCHANGED vars => UNCHANGED <<step, by>>
  BY DEF AppendOk, AppendFails, vars, session
<1>. QED  BY <1>1, <1>3, <1>4, <1>5, <1>6, <1>7, <1>8 DEF Next

LEMMA InitTypes == Init => TypeOK /\ Named
<1>1. ASSUME Init PROVE TypeOK
  <2>1. <<>> \in Seq(Message) /\ <<>> \in Seq([set : SUBSET Updates, from : Sessions])
    BY EmptySeq
  <2>2. ClientTypes /\ SessionTypes /\ QueueTypes /\ BoardTypes /\ PresenceTypes
    BY <1>1, <2>1 DEF Init, Roles, ClientTypes, SessionTypes, QueueTypes, BoardTypes, PresenceTypes
  <2>. QED  BY <1>1, <2>2, BoundAssumption DEF Init, TypeOK
<1>. QED  BY <1>1 DEF Init, Named

LEMMA TypedAlways == Spec => [](TypeOK /\ Named)
<1>1. TypeOK /\ Named /\ [Next]_vars => TypeOK'
  <2>1. TypeOK /\ UNCHANGED vars => TypeOK'
    BY DEF vars, client, session, board, presence, bounds, TypeOK, ClientTypes, SessionTypes,
           QueueTypes, BoardTypes, PresenceTypes
  <2>. QED  BY <2>1, ClientTypesKept, SessionTypesKept, AppendTypes DEF Next
<1>. QED  BY <1>1, InitTypes, NamedKept, PTL DEF Spec

\* The types of the clients, their connections and the room (the state of room.ts, adapter.ts and awareness.ts).
THEOREM TypeCorrect == Spec => []TypeOK
BY TypedAlways, PTL
-----------------------------------------------------------------------------
(***************************************************************************)
(* What the room sends.                                                    *)
(***************************************************************************)
Told == \/ \E s \in Sessions : Join(s) \/ SessionReads(s) \/ Leave(s)
        \/ AppendOk \/ AppendFails

\* Only sessions of the room are told something; a role is the session's own, and
\* updates are the room's or waited for their append.
Fits(t, ms) ==
    /\ ms \in Seq(Message)
    /\ ms # <<>> => t \in members \/ step'[t] = "open"
    /\ \A i \in DOMAIN ms : /\ ms[i].role \in {"same", srole[t]}
                            /\ ms[i].set \subseteq room \cup Carried(pend)

LEMMA FitsOne ==
    ASSUME TypeOK, NEW t \in Sessions, NEW m \in Message, t \in members \/ step'[t] = "open",
           m.role \in {"same", srole[t]}, m.set \subseteq room \cup Carried(pend)
    PROVE  Fits(t, <<m>>)
BY OneMessage DEF Fits

LEMMA FitsNothing ==
    ASSUME TypeOK, NEW t \in Sessions
    PROVE  Fits(t, <<>>) /\ down[t] = down[t] \o <<>>
BY EmptySeq, ConcatEmptySeq DEF Fits, TypeOK, QueueTypes

LEMMA ToAllFits ==
    ASSUME TypeOK, NEW t \in Sessions, NEW sessions \in SUBSET members,
           NEW save \in {"saved", "unsaved"}
    PROVE  \E ms : Fits(t, ms) /\ ToAll(sessions, Info(save))[t] = down[t] \o ms
<1>1. PICK m \in Message : m = Info(save) /\ m.role = "same" /\ m.set = {}
  <2>1. Info(save).role = "same" /\ Info(save).set = {} /\ Info(save) \in Message
    BY DEF Info, Nothing, Message
  <2>. QED  BY <2>1
<1>2. ToAll(sessions, m)[t] = IF t \in sessions \ broken THEN down[t] \o <<m>> ELSE down[t]
  BY ToAllIsThere DEF TypeOK, QueueTypes
<1>3. CASE t \in sessions \ broken
  BY <1>1, <1>2, <1>3, FitsOne
<1>4. CASE t \notin sessions \ broken
  BY <1>1, <1>2, <1>4, FitsNothing
<1>. QED  BY <1>3, <1>4

LEMMA JoinSends ==
    ASSUME TypeOK, NEW s \in Sessions, Join(s), s \notin members
    PROVE  /\ \A t \in Sessions : \E ms : Fits(t, ms) /\ down'[t] = down[t] \o ms
           /\ s \notin broken => down'[s] = down[s] \o <<Welcome(s)>>
<1>. DEFINE news == ToAll(members, Info("saved"))
<1>1. Welcome(s) \in Message /\ Welcome(s).role = srole[s] /\ Welcome(s).set = room
  BY WholeIsPart DEF Welcome, Message, TypeOK, SessionTypes, BoardTypes
<1>2. news \in [Sessions -> Seq(Message)] /\ news[s] = down[s]
  <2>1. Info("saved") \in Message /\ down \in [Sessions -> Seq(Message)]
    BY MessageTypes DEF TypeOK, QueueTypes
  <2>. QED  BY <2>1, ToAllIsThere
<1>3. <<Welcome(s)>> \in Seq(Message)
  BY <1>1
<1>4. \A t \in Sessions : down'[t] = IF t = s /\ s \notin broken THEN news[t] \o <<Welcome(s)>> ELSE news[t]
  <2>1. down' = Sent(news, s, <<Welcome(s)>>)
    BY DEF Join
  <2>2. s \in Sessions \cup {0}
    OBVIOUS
  <2>. HIDE DEF news
  <2>3. \A t \in Sessions : Sent(news, s, <<Welcome(s)>>)[t] =
            IF t = s /\ s \notin broken THEN news[t] \o <<Welcome(s)>> ELSE news[t]
    BY <1>2, <1>3, <2>2, SentIsThere
  <2>. QED  BY <2>1, <2>3
<1>5. ASSUME NEW t \in Sessions PROVE \E ms : Fits(t, ms) /\ down'[t] = down[t] \o ms
  <2>1. CASE t = s /\ s \notin broken
    <3>1. step'[s] = "open"
      BY DEF Join, TypeOK, SessionTypes
    <3>. QED  BY <1>1, <1>2, <1>4, <2>1, <3>1, FitsOne
  <2>2. CASE ~ (t = s /\ s \notin broken)
    <3>1. down'[t] = news[t]
      BY <1>4, <2>2
    <3>2. members \in SUBSET members /\ "saved" \in {"saved", "unsaved"}
      OBVIOUS
    <3>3. \E ms : Fits(t, ms) /\ news[t] = down[t] \o ms
      BY <3>2, ToAllFits
    <3>. HIDE DEF news
    <3>. QED  BY <3>1, <3>3
  <2>. QED  BY <2>1, <2>2
<1>. QED  BY <1>2, <1>4, <1>5

LEMMA SessionReadsSends ==
    ASSUME TypeOK, NEW s \in Sessions, SessionReads(s), NEW t \in Sessions
    PROVE  \E ms : Fits(t, ms) /\ down'[t] = down[t] \o ms
<1>. DEFINE m == Head(up[s])
            answer == IF m.type = "hello" THEN <<Update(room \ m.have)>> ELSE <<>>
            denial == IF m.set # {} /\ ~MayWrite(s) THEN Denial(s) ELSE <<>>
<1>1. down' = Sent(down, s, answer \o denial) /\ step'[s] = "open"
  BY DEF SessionReads, session
<1>2. /\ Update(room \ m.have) \in Message
      /\ Update(room \ m.have).role = "same" /\ Update(room \ m.have).set \subseteq room
  BY MessageTypes DEF TypeOK, BoardTypes, Update, Nothing
<1>3. Fits(s, answer)
  BY <1>1, <1>2, FitsOne, FitsNothing
<1>4. Fits(s, denial)
  <2>1. /\ [Nothing EXCEPT !.role = srole[s]] \in Message
        /\ [Nothing EXCEPT !.role = srole[s]].role = srole[s]
        /\ [Nothing EXCEPT !.role = srole[s]].set = {}
    BY DEF Nothing, Message, TypeOK, SessionTypes
  <2>2. Fits(s, Denial(s))
    BY <1>1, <2>1, FitsOne DEF Denial
  <2>. QED  BY <2>2, FitsNothing
<1>5. Fits(s, answer \o denial)
  <2>1. answer \in Seq(Message) /\ denial \in Seq(Message)
    BY <1>3, <1>4 DEF Fits
  <2>. HIDE DEF answer, denial
  <2>2. /\ answer \o denial \in Seq(Message)
        /\ Len(answer) \in Nat /\ Len(denial) \in Nat
        /\ DOMAIN (answer \o denial) = 1..(Len(answer) + Len(denial))
        /\ \A i \in 1..(Len(answer) + Len(denial)) : (answer \o denial)[i] =
               IF i <= Len(answer) THEN answer[i] ELSE denial[i - Len(answer)]
        /\ DOMAIN answer = 1..Len(answer) /\ DOMAIN denial = 1..Len(denial)
    BY <2>1, ConcatProperties, LenProperties
  <2>3. ASSUME NEW i \in 1..(Len(answer) + Len(denial))
        PROVE  \/ \E j \in DOMAIN answer : (answer \o denial)[i] = answer[j]
               \/ \E j \in DOMAIN denial : (answer \o denial)[i] = denial[j]
    <3>1. CASE i <= Len(answer)
      BY <2>2, <3>1
    <3>2. CASE ~ (i <= Len(answer))
      <4>1. i - Len(answer) \in DOMAIN denial
        BY <2>2, <3>2
      <4>. QED  BY <2>2, <3>2, <4>1
    <3>. QED  BY <3>1, <3>2
  <2>. QED  BY <1>1, <1>3, <1>4, <2>2, <2>3 DEF Fits
<1>6. down'[t] = IF t = s /\ s \notin broken THEN down[t] \o (answer \o denial) ELSE down[t]
  <2>1. answer \o denial \in Seq(Message)
    BY <1>5 DEF Fits
  <2>2. down \in [Sessions -> Seq(Message)] /\ s \in Sessions \cup {0}
    BY DEF TypeOK, QueueTypes
  <2>. HIDE DEF answer, denial
  <2>3. Sent(down, s, answer \o denial)[t] =
            IF t = s /\ s \notin broken THEN down[t] \o (answer \o denial) ELSE down[t]
    BY <2>1, <2>2, SentIsThere
  <2>. QED  BY <1>1, <2>3
<1>. HIDE DEF answer, denial
<1>7. CASE t = s /\ s \notin broken
  BY <1>5, <1>6, <1>7
<1>8. CASE ~ (t = s /\ s \notin broken)
  BY <1>6, <1>8, FitsNothing
<1>. QED  BY <1>7, <1>8

LEMMA AppendSends ==
    ASSUME TypeOK, AppendOk, NEW t \in Sessions
    PROVE  /\ \E ms : Fits(t, ms) /\ down'[t] = down[t] \o ms
           /\ t \in members \ broken /\ t # Head(pend).from =>
                  \E m \in Message : m.set = Head(pend).set /\ down'[t] = down[t] \o <<m>>
<1>. DEFINE e == Head(pend)
            m == [Update(e.set) EXCEPT !.save = "saved"]
<1>1. e \in [set : SUBSET Updates, from : Sessions] /\ e.set \subseteq Carried(pend)
  <2>1. e \in [set : SUBSET Updates, from : Sessions]
    BY HeadTailProperties DEF AppendOk, TypeOK, BoardTypes
  <2>. QED  BY <2>1, CarriedHeadTail DEF AppendOk, TypeOK, BoardTypes
<1>2. m \in Message /\ m.role = "same" /\ m.set = e.set
  BY <1>1 DEF Update, Nothing, Message
<1>3. down[t] \in Seq(Message)
  BY DEF TypeOK, QueueTypes
<1>4. down'[t] = IF t \in Targets(e.from) \ broken THEN Append(down[t], m)
                 ELSE ToAll(members, Info("saved"))[t]
  BY DEF AppendOk, Fanout
<1>5. CASE t \in Targets(e.from) \ broken
  <2>1. down'[t] = down[t] \o <<m>>
    BY <1>2, <1>3, <1>4, <1>5, AppendIsConcat
  <2>2. Fits(t, <<m>>)
    BY <1>1, <1>2, <1>5, FitsOne DEF Targets
  <2>. QED  BY <1>2, <2>1, <2>2
<1>6. CASE t \notin Targets(e.from) \ broken
  BY <1>4, <1>6, ToAllFits DEF Targets
<1>. QED  BY <1>5, <1>6

LEMMA TellingFits ==
    ASSUME TypeOK, \A s \in Sessions : SessionAt(s), Told, NEW t \in Sessions
    PROVE  \E ms : Fits(t, ms) /\ down'[t] = down[t] \o ms
<1>1. ASSUME NEW s \in Sessions, Join(s) PROVE s \notin members
  BY <1>1 DEF Join, SessionAt
<1>2. ASSUME NEW s \in Sessions, Leave(s) PROVE \E ms : Fits(t, ms) /\ down'[t] = down[t] \o ms
  <2>1. members \ {s} \in SUBSET members /\ down' = ToAll(members \ {s}, Info("saved"))
    BY <1>2 DEF Leave
  <2>. QED  BY <2>1, ToAllFits
<1>3. ASSUME AppendFails PROVE \E ms : Fits(t, ms) /\ down'[t] = down[t] \o ms
  BY <1>3, ToAllFits DEF AppendFails
<1>. QED  BY <1>1, <1>2, <1>3, JoinSends, SessionReadsSends, AppendSends DEF Told
-----------------------------------------------------------------------------
(***************************************************************************)
(* Sessions and presence.                                                  *)
(***************************************************************************)
SessionBase == TypeOK /\ Named /\ SessionsHeld

LEMMA ClientSends ==
    ASSUME TypeOK, NEW c \in Clients, NEW ms \in Seq(Message), NEW t \in Sessions
    PROVE  Sent(up, link[c], ms)[t] =
               IF t = link[c] /\ link[c] \notin broken THEN up[t] \o ms ELSE up[t]
<1>1. link[c] \in Sessions \cup {0} /\ up \in [Sessions -> Seq(Message)]
  BY DEF TypeOK, ClientTypes, QueueTypes
<1>. QED  BY <1>1, SentIsThere

LEMMA ClientSessionAt ==
    ASSUME SessionBase, NEW c \in Clients, NEW t \in Sessions,
           Connect(c) \/ Edit(c) \/ ClientReads(c) \/ SeesClose(c) \/ SeesDenied(c)
               \/ Renew(c) \/ ChangeRole(c)
    PROVE  SessionAt(t)'
<1>. USE DEF SessionBase, SessionsHeld, SessionAt
<1>1. CASE Connect(c)
  <2>1. PICK s \in Sessions : /\ step[s] = "none"
                              /\ step' = [step EXCEPT ![s] = "verify"]
                              /\ up' = [up EXCEPT ![s] = <<Hello(c)>>]
    BY <1>1 DEF Connect, IsNextSession
  <2>2. UNCHANGED <<broken, down, fresh, members>>
    BY <1>1 DEF Connect, board
  <2>3. CASE t = s
    BY <2>1, <2>2, <2>3 DEF TypeOK, SessionTypes
  <2>4. CASE t # s
    BY <2>1, <2>2, <2>4 DEF TypeOK, SessionTypes, QueueTypes
  <2>. QED  BY <2>3, <2>4
<1>2. ASSUME UNCHANGED <<session, members>>,
             step[t] = "none" => up'[t] = up[t],
             step[t] \in {"none", "verify", "load"} => down'[t] = down[t]
      PROVE  SessionAt(t)'
  BY <1>2 DEF session
<1>3. ASSUME NEW ms \in Seq(Message), up' = Sent(up, link[c], ms)
      PROVE  step[t] = "none" => up'[t] = up[t]
  <2>1. up'[t] = IF t = link[c] /\ link[c] \notin broken THEN up[t] \o ms ELSE up[t]
    BY <1>3, ClientSends
  <2>2. t = link[c] => step[t] # "none"
    BY SessionsAreNumbers DEF LinksHeld
  <2>. QED  BY <2>1, <2>2
<1>4. CASE Edit(c)
  <2>1. PICK n \in 1..Edits[c] : up' = Sent(up, link[c], <<Update({<<c, n>>})>>)
    BY <1>4 DEF Edit
  <2>2. <<c, n>> \in Updates
    BY DEF Updates
  <2>3. <<Update({<<c, n>>})>> \in Seq(Message)
    BY <2>2, MessageTypes
  <2>. QED  BY <1>2, <1>3, <1>4, <2>1, <2>3 DEF Edit, board
<1>5. CASE ClientReads(c)
  <2>1. Answer(c, Head(down[link[c]])) \in Seq(Message)
    <3>1. Offer(c, Head(down[link[c]]).have) \in SUBSET Updates
      BY DEF Offer, TypeOK, ClientTypes
    <3>2. Update(Offer(c, Head(down[link[c]]).have)) \in Message
      BY <3>1, MessageTypes
    <3>. QED  BY <3>2 DEF Answer
  <2>2. step[link[c]] \notin {"none", "verify", "load"}
    <3>1. link[c] \in Sessions /\ down[link[c]] # <<>>
      BY <1>5 DEF ClientReads, TypeOK, ClientTypes
    <3>2. SessionAt(link[c])
      BY <3>1
    <3>. QED  BY <3>1, <3>2
  <2>3. down'[t] = down[t] \/ t = link[c]
    BY <1>5 DEF ClientReads, TypeOK, QueueTypes
  <2>. QED  BY <1>2, <1>3, <1>5, <2>1, <2>2, <2>3 DEF ClientReads, board
<1>6. CASE SeesClose(c)
  <2>1. down'[t] = IF t = link[c] THEN <<>> ELSE down[t]
    BY <1>6 DEF SeesClose, TypeOK, QueueTypes
  <2>. QED  BY <1>2, <1>6, <2>1 DEF SeesClose, board
<1>7. CASE SeesDenied(c) \/ ChangeRole(c)
  BY <1>2, <1>7 DEF SeesDenied, ChangeRole, board
<1>8. CASE Renew(c)
  <2>1. <<Announcement>> \in Seq(Message)
    BY MessageTypes
  <2>2. up' = Sent(up, link[c], <<Announcement>>)
    BY <1>8 DEF Renew
  <2>. QED  BY <1>2, <1>3, <1>8, <2>1, <2>2 DEF Renew, board
<1>. QED  BY <1>1, <1>4, <1>5, <1>6, <1>7, <1>8

LEMMA RoomSessionAt ==
    ASSUME SessionBase, NEW t \in Sessions, NEW s \in Sessions,
           \/ Verify(s) \/ JoinFails(s) \/ Join(s) \/ SessionReads(s) \/ Leave(s)
           \/ RefreshRead(s) \/ RefreshSet(s) \/ Break(s) \/ AppendOk \/ AppendFails
    PROVE  SessionAt(t)'
<1>. USE DEF SessionBase, SessionsHeld
<1>1. ASSUME Told, step'[t] \in {"none", "verify", "load"}, step'[t] = step[t]
      PROVE  down'[t] = <<>>
  <2>1. PICK ms : Fits(t, ms) /\ down'[t] = down[t] \o ms
    BY <1>1, TellingFits
  <2>2. ms = <<>> /\ down[t] = <<>>
    BY <1>1, <2>1 DEF Fits, SessionAt
  <2>. QED  BY <2>1, <2>2, ConcatEmptySeq
<1>2. CASE Verify(s) \/ JoinFails(s) \/ Break(s)
  BY <1>2 DEF SessionAt, Verify, JoinFails, Break, board, TypeOK, SessionTypes
<1>3. CASE Join(s)
  <2>1. /\ step' = [step EXCEPT ![s] = "open"] /\ members' = members \cup {s} /\ step[s] = "load"
        /\ UNCHANGED <<fresh, broken, up>>
    BY <1>3 DEF Join
  <2>2. CASE t = s
    BY <2>1, <2>2 DEF SessionAt, TypeOK, SessionTypes
  <2>3. CASE t # s
    <3>1. step'[t] = step[t]
      BY <2>1, <2>3 DEF TypeOK, SessionTypes
    <3>2. step'[t] \in {"none", "verify", "load"} => down'[t] = <<>>
      BY <1>1, <1>3, <3>1 DEF Told
    <3>. QED  BY <2>1, <2>3, <3>1, <3>2 DEF SessionAt
  <2>. QED  BY <2>2, <2>3
<1>4. CASE SessionReads(s)
  <2>1. UNCHANGED <<step, fresh, broken, members>> /\ (step[t] = "none" => up'[t] = up[t])
    BY <1>4 DEF SessionReads, session, TypeOK, QueueTypes
  <2>2. step'[t] \in {"none", "verify", "load"} => down'[t] = <<>>
    BY <1>1, <1>4, <2>1 DEF Told
  <2>. QED  BY <2>1, <2>2 DEF SessionAt
<1>5. CASE Leave(s)
  <2>1. /\ step' = [step EXCEPT ![s] = "closed"] /\ members' = members \ {s} /\ step[s] = "open"
        /\ up' = [up EXCEPT ![s] = <<>>] /\ UNCHANGED <<fresh, broken>>
    BY <1>5 DEF Leave
  <2>2. CASE t = s
    BY <2>1, <2>2 DEF SessionAt, TypeOK, SessionTypes
  <2>3. CASE t # s
    <3>1. step'[t] = step[t] /\ up'[t] = up[t]
      BY <2>1, <2>3 DEF TypeOK, SessionTypes, QueueTypes
    <3>2. step'[t] \in {"none", "verify", "load"} => down'[t] = <<>>
      BY <1>1, <1>5, <3>1 DEF Told
    <3>. QED  BY <2>1, <2>3, <3>1, <3>2 DEF SessionAt
  <2>. QED  BY <2>2, <2>3
<1>6. CASE RefreshRead(s)
  BY <1>6 DEF SessionAt, RefreshRead, board, TypeOK, SessionTypes
<1>7. CASE RefreshSet(s)
  <2>1. fresh[s] \in Roles /\ step[s] \notin {"none", "verify", "load"}
    BY <1>7 DEF RefreshSet, SessionAt, TypeOK, SessionTypes
  <2>2. RoleNews(s) \in Seq(Message)
    <3>1. [Nothing EXCEPT !.role = fresh[s]] \in Message
      BY <2>1 DEF Nothing, Message
    <3>. QED  BY <3>1 DEF RoleNews
  <2>3. down'[t] = down[t] \/ t = s
    BY <1>7, <2>2, SentIsThere DEF RefreshSet, TypeOK, QueueTypes
  <2>. QED  BY <1>7, <2>1, <2>3 DEF SessionAt, RefreshSet, board, TypeOK, SessionTypes
<1>8. CASE AppendOk \/ AppendFails
  <2>1. UNCHANGED <<step, fresh, broken, members, up>>
    BY <1>8 DEF AppendOk, AppendFails, session
  <2>2. step'[t] \in {"none", "verify", "load"} => down'[t] = <<>>
    BY <1>1, <1>8, <2>1 DEF Told
  <2>. QED  BY <2>1, <2>2 DEF SessionAt
<1>. QED  BY <1>2, <1>3, <1>4, <1>5, <1>6, <1>7, <1>8
LEMMA LinksKept ==
    ASSUME SessionBase, [Next]_vars
    PROVE  LinksHeld'
<1>. USE DEF SessionBase, SessionsHeld
<1>1. ASSUME NEW c \in Clients, Connect(c) PROVE LinksHeld'
  <2>1. PICK s \in Sessions : /\ step[s] = "none" /\ link' = [link EXCEPT ![c] = s]
                              /\ by' = [by EXCEPT ![s] = c]
                              /\ step' = [step EXCEPT ![s] = "verify"]
    BY <1>1 DEF Connect, IsNextSession
  <2>2. \A d \in Clients : link[d] # s
    BY <2>1, SessionsAreNumbers DEF LinksHeld
  <2>. QED  BY <2>1, <2>2 DEF LinksHeld, TypeOK, ClientTypes, SessionTypes
<1>2. ASSUME UNCHANGED by, \A s \in Sessions : step[s] # "none" => step'[s] # "none",
             \A c \in Clients : link'[c] = link[c] \/ link'[c] = 0
      PROVE  LinksHeld'
  BY <1>2 DEF LinksHeld, TypeOK, ClientTypes
<1>3. ASSUME NEW c \in Clients, Edit(c) \/ ClientReads(c) \/ SeesClose(c) \/ SeesDenied(c)
                                    \/ Renew(c) \/ ChangeRole(c)
      PROVE  LinksHeld'
  <2>1. UNCHANGED <<by, step>>
    BY <1>3 DEF Edit, ClientReads, SeesClose, SeesDenied, Renew, ChangeRole, session
  <2>2. link' = link \/ link' = [link EXCEPT ![c] = 0]
    BY <1>3 DEF Edit, ClientReads, SeesClose, SeesDenied, Renew, ChangeRole, client
  <2>. QED  BY <1>2, <2>1, <2>2 DEF TypeOK, ClientTypes
<1>4. ASSUME NEW s \in Sessions,
             \/ Verify(s) \/ JoinFails(s) \/ Join(s) \/ SessionReads(s) \/ Leave(s)
             \/ RefreshRead(s) \/ RefreshSet(s) \/ Break(s)
      PROVE  LinksHeld'
  <2>1. UNCHANGED <<by, link>>
    BY <1>4 DEF Verify, JoinFails, Join, SessionReads, Leave, RefreshRead, RefreshSet, Break,
                session, client
  <2>2. step' = step \/ \E x \in {"denied", "load", "open", "closed"} : step' = [step EXCEPT ![s] = x]
    BY <1>4 DEF Verify, JoinFails, Join, SessionReads, Leave, RefreshRead, RefreshSet, Break, session
  <2>. QED  BY <1>2, <2>1, <2>2 DEF TypeOK, SessionTypes
<1>5. ASSUME AppendOk \/ AppendFails \/ UNCHANGED vars PROVE LinksHeld'
  <2>1. UNCHANGED <<by, link, step>>
    BY <1>5 DEF AppendOk, AppendFails, vars, session, client
  <2>. QED  BY <1>2, <2>1
<1>. QED  BY <1>1, <1>3, <1>4, <1>5 DEF Next

\* A step that a session has taken is never taken back.
LEMMA StepsGoOn ==
    ASSUME SessionBase, [Next]_vars, NEW s \in Sessions, step[s] # "none"
    PROVE  step'[s] # "none" /\ by'[s] = by[s]
<1>. USE DEF SessionBase, SessionsHeld
<1>1. ASSUME NEW c \in Clients, Connect(c) PROVE step'[s] = step[s] /\ by'[s] = by[s]
  BY <1>1 DEF Connect, IsNextSession, TypeOK, SessionTypes
<1>2. ASSUME NEW c \in Clients, Edit(c) \/ ClientReads(c) \/ SeesClose(c) \/ SeesDenied(c)
                                    \/ Renew(c) \/ ChangeRole(c)
      PROVE  UNCHANGED <<by, step>>
  BY <1>2 DEF Edit, ClientReads, SeesClose, SeesDenied, Renew, ChangeRole, session
<1>3. ASSUME NEW t \in Sessions,
             \/ Verify(t) \/ JoinFails(t) \/ Join(t) \/ SessionReads(t) \/ Leave(t)
             \/ RefreshRead(t) \/ RefreshSet(t) \/ Break(t)
      PROVE  step'[s] # "none" /\ by'[s] = by[s]
  <2>1. /\ UNCHANGED by
        /\ step' = step \/ \E x \in {"denied", "load", "open", "closed"} : step' = [step EXCEPT ![t] = x]
    BY <1>3 DEF Verify, JoinFails, Join, SessionReads, Leave, RefreshRead, RefreshSet, Break, session
  <2>. QED  BY <2>1 DEF TypeOK, SessionTypes
<1>4. AppendOk \/ AppendFails \/ UNCHANGED vars => UNCHANGED <<by, step>>
  BY DEF AppendOk, AppendFails, vars, session
<1>. QED  BY <1>1, <1>2, <1>3, <1>4 DEF Next

LEMMA PendingKept ==
    ASSUME SessionBase, [Next]_vars
    PROVE  PendingHeld'
<1>. DEFINE T == [set : SUBSET Updates, from : Sessions]
<1>. USE DEF SessionBase, SessionsHeld
<1>1. pend \in Seq(T)
  BY DEF TypeOK, BoardTypes
<1>2. CASE pend' = pend
  <2>1. \A i \in DOMAIN pend : pend[i].from \in Sessions
    <3>1. \A i \in DOMAIN pend : pend[i] \in T
      BY <1>1, ElementOfSeq, LenProperties
    <3>. QED  BY <3>1
  <2>. QED  BY <1>2, <2>1, StepsGoOn DEF PendingHeld
<1>3. ASSUME NEW s \in Sessions, SessionReads(s), pend' # pend PROVE PendingHeld'
  <2>1. PICK e \in T : e.from = s /\ pend' = Append(pend, e)
    <3>1. Head(up[s]) \in Message
      BY <1>3, HeadTailProperties DEF SessionReads, TypeOK, QueueTypes
    <3>2. Head(up[s]).set \in SUBSET Updates
      BY <3>1 DEF Message
    <3>3. Gained(Head(up[s]).set) \in SUBSET Updates
      BY <3>2, WholeIsPart DEF Gained, TypeOK, BoardTypes
    <3>4. pend' = Append(pend, [set |-> Gained(Head(up[s]).set), from |-> s])
      BY <1>3 DEF SessionReads, Merge
    <3>. QED  BY <3>3, <3>4
  <2>2. step[s] = "open" /\ step' = step
    BY <1>3 DEF SessionReads, session
  <2>. QED  BY <1>1, <2>1, <2>2, AppendProperties DEF PendingHeld
<1>4. CASE AppendOk \/ AppendFails
  <2>1. pend' = Tail(pend) /\ pend # <<>> /\ step' = step
    BY <1>4 DEF AppendOk, AppendFails, session
  <2>2. \A i \in DOMAIN Tail(pend) : i + 1 \in DOMAIN pend /\ Tail(pend)[i] = pend[i + 1]
    BY <1>1, <2>1, HeadTailProperties, LenProperties
  <2>. QED  BY <2>1, <2>2 DEF PendingHeld
<1>5. ASSUME NEW c \in Clients, \/ Connect(c) \/ Edit(c) \/ ClientReads(c) \/ SeesClose(c)
                                \/ SeesDenied(c) \/ Renew(c) \/ ChangeRole(c)
      PROVE  pend' = pend
  BY <1>5 DEF Connect, Edit, ClientReads, SeesClose, SeesDenied, Renew, ChangeRole, board
<1>6. ASSUME NEW s \in Sessions, \/ Verify(s) \/ JoinFails(s) \/ Join(s) \/ Leave(s)
                                 \/ RefreshRead(s) \/ RefreshSet(s) \/ Break(s)
      PROVE  pend' = pend
  BY <1>6 DEF Verify, JoinFails, Join, Leave, RefreshRead, RefreshSet, Break, board
<1>7. UNCHANGED vars => pend' = pend
  BY DEF vars, board
<1>. QED  BY <1>2, <1>3, <1>4, <1>5, <1>6, <1>7 DEF Next

\* The session that brought a client here stays, or takes its client along.
LEMMA PresenceKept ==
    ASSUME SessionBase, [Next]_vars
    PROVE  PresenceHeld'
<1>. USE DEF SessionBase, SessionsHeld
<1>1. \A s \in owned : s \in Sessions /\ step[s] = "open"
  BY DEF PresenceHeld, SessionAt, TypeOK, PresenceTypes
<1>2. CASE UNCHANGED <<present, owned, members>>
  <2>1. \A s \in owned : by'[s] = by[s]
    BY <1>1, StepsGoOn
  <2>. QED  BY <1>2, <2>1 DEF PresenceHeld
<1>3. ASSUME NEW s \in Sessions, Join(s) PROVE PresenceHeld'
  BY <1>3 DEF Join, presence, PresenceHeld
<1>4. ASSUME NEW s \in Sessions, SessionReads(s) PROVE PresenceHeld'
  <2>1. UNCHANGED <<by, members>> /\ s \in members
    BY <1>4 DEF SessionReads, session, SessionAt
  <2>2. \/ present' = present \cup {by[s]} /\ owned' = owned \cup {s}
        \/ UNCHANGED <<present, owned>>
    BY <1>4 DEF SessionReads, Receive, presence
  <2>. QED  BY <2>1, <2>2 DEF PresenceHeld
<1>5. ASSUME NEW s \in Sessions, Leave(s) PROVE PresenceHeld'
  <2>1. /\ by' = by /\ members' = members \ {s} /\ owned' = owned \ {s}
        /\ present' = present \ (IF s \in owned THEN {by[s]} ELSE {})
    BY <1>5 DEF Leave, Forgotten
  <2>. QED  BY <2>1 DEF PresenceHeld
<1>6. ASSUME NEW c \in Clients, \/ Connect(c) \/ Edit(c) \/ ClientReads(c) \/ SeesClose(c)
                                \/ SeesDenied(c) \/ Renew(c) \/ ChangeRole(c)
      PROVE  UNCHANGED <<present, owned, members>>
  BY <1>6 DEF Connect, Edit, ClientReads, SeesClose, SeesDenied, Renew, ChangeRole, board, presence
<1>7. ASSUME NEW s \in Sessions, \/ Verify(s) \/ JoinFails(s)
                                 \/ RefreshRead(s) \/ RefreshSet(s) \/ Break(s)
      PROVE  UNCHANGED <<present, owned, members>>
  BY <1>7 DEF Verify, JoinFails, RefreshRead, RefreshSet, Break, board, presence
<1>8. AppendOk \/ AppendFails \/ UNCHANGED vars => UNCHANGED <<present, owned, members>>
  BY DEF AppendOk, AppendFails, vars, board, presence
<1>. QED  BY <1>2, <1>3, <1>4, <1>5, <1>6, <1>7, <1>8 DEF Next

LEMMA SessionsAlways == Spec => []SessionBase
<1>1. Init => SessionBase
  <2>1. Init => SessionsHeld
    BY DEF Init, SessionsHeld, SessionAt, LinksHeld, PendingHeld, PresenceHeld
  <2>. QED  BY <2>1, InitTypes DEF SessionBase
<1>2. SessionBase /\ (TypeOK /\ Named)' /\ [Next]_vars => SessionBase'
  <2>1. SessionBase /\ [Next]_vars => (\A t \in Sessions : SessionAt(t))'
    <3>1. SessionBase /\ UNCHANGED vars => (\A t \in Sessions : SessionAt(t))'
      BY DEF SessionBase, SessionsHeld, SessionAt, vars, session, board
    <3>2. ASSUME SessionBase, Next, NEW t \in Sessions PROVE SessionAt(t)'
      BY <3>2, ClientSessionAt, RoomSessionAt DEF Next
    <3>. QED  BY <3>1, <3>2
  <2>. QED  BY <2>1, LinksKept, PendingKept, PresenceKept DEF SessionBase, SessionsHeld
<1>. QED  BY <1>1, <1>2, TypedAlways, PTL DEF Spec

\* Whoever is shown as present has a session in the room (awareness.ts, forget).
THEOREM PresentAreHere == Spec => []PresentIsHere
<1>1. SessionBase => PresentIsHere
  BY DEF SessionBase, SessionsHeld, PresenceHeld, PresentIsHere
<1>. QED  BY <1>1, SessionsAlways, PTL
-----------------------------------------------------------------------------
(***************************************************************************)
(* Roles.                                                                  *)
(***************************************************************************)

\* More messages that say nothing else about the role.
LEMMA HeardMore ==
    ASSUME NEW T, NEW q \in Seq(T), NEW ms \in Seq(T), NEW r, NEW w, Heard(q, r, w),
           \A i \in DOMAIN ms : (ms[i].role = "same" \/ ms[i].role = w)
    PROVE  Heard(q \o ms, r, w)
<1>1. PICK i \in 0..Len(q) : HeardAt(q, r, w, i)
  BY DEF Heard
<1>2. Len(q) \in Nat /\ Len(ms) \in Nat /\ DOMAIN ms = 1..Len(ms)
  BY LenProperties
<1>3. /\ Len(q \o ms) = Len(q) + Len(ms)
      /\ \A j \in 1..(Len(q) + Len(ms)) :
             (q \o ms)[j] = IF j <= Len(q) THEN q[j] ELSE ms[j - Len(q)]
  BY ConcatProperties
<1>4. ASSUME NEW j \in (i + 1)..Len(q \o ms) PROVE (q \o ms)[j].role = "same" \/ (q \o ms)[j].role = w
  <2>1. j \in 1..(Len(q) + Len(ms))
    BY <1>1, <1>2, <1>3
  <2>2. CASE j <= Len(q)
    <3>1. j \in (i + 1)..Len(q) /\ (q \o ms)[j] = q[j]
      BY <1>1, <1>2, <1>3, <2>1, <2>2
    <3>. QED  BY <1>1, <3>1 DEF HeardAt
  <2>3. CASE ~ (j <= Len(q))
    <3>1. j - Len(q) \in DOMAIN ms /\ (q \o ms)[j] = ms[j - Len(q)]
      BY <1>1, <1>2, <1>3, <2>1, <2>3
    <3>. QED  BY <3>1
  <2>. QED  BY <2>2, <2>3
<1>5. i \in 0..Len(q \o ms) /\ (i > 0 => (q \o ms)[i] = q[i])
  BY <1>1, <1>2, <1>3
<1>6. HeardAt(q \o ms, r, w, i)
  BY <1>1, <1>4, <1>5 DEF HeardAt
<1>. QED  BY <1>5, <1>6 DEF Heard

\* The role itself is the last news.
LEMMA HeardNews ==
    ASSUME NEW T, NEW q \in Seq(T), NEW m \in T, NEW r
    PROVE  Heard(q \o <<m>>, r, m.role)
<1>1. /\ q \o <<m>> = Append(q, m) /\ Len(Append(q, m)) = Len(q) + 1 /\ Len(q) \in Nat
      /\ Append(q, m)[Len(q) + 1] = m
  BY AppendIsConcat, AppendProperties, LenProperties
<1>2. HeardAt(Append(q, m), r, m.role, Len(q) + 1)
  BY <1>1 DEF HeardAt
<1>3. Len(q) + 1 \in 0..Len(Append(q, m))
  BY <1>1
<1>4. Heard(Append(q, m), r, m.role)
  BY <1>2, <1>3 DEF Heard
<1>. QED  BY <1>1, <1>4

\* One message is read.
LEMMA HeardNext ==
    ASSUME NEW T, NEW q \in Seq(T), q # <<>>, NEW r, NEW w, w # "same", Heard(q, r, w)
    PROVE  Heard(Tail(q), IF Head(q).role = "same" THEN r ELSE Head(q).role, w)
<1>. DEFINE now == IF Head(q).role = "same" THEN r ELSE Head(q).role
<1>1. PICK i \in 0..Len(q) : HeardAt(q, r, w, i)
  BY DEF Heard
<1>2. /\ Len(q) \in Nat /\ Len(q) # 0 /\ Len(Tail(q)) = Len(q) - 1 /\ Head(q) = q[1]
      /\ \A j \in 1..(Len(q) - 1) : Tail(q)[j] = q[j + 1]
  BY HeadTailProperties, LenProperties
<1>3. ASSUME NEW j \in 1..(Len(q) - 1), j + 1 > i PROVE Tail(q)[j].role = "same" \/ Tail(q)[j].role = w
  <2>1. j + 1 \in (i + 1)..Len(q)
    BY <1>1, <1>2, <1>3
  <2>2. q[j + 1].role = "same" \/ q[j + 1].role = w
    BY <1>1, <2>1 DEF HeardAt
  <2>. QED  BY <1>2, <2>2
<1>4. CASE i = 0
  <2>1. 1 \in (i + 1)..Len(q)
    BY <1>2, <1>4
  <2>2. now = w
    BY <1>1, <1>2, <1>4, <2>1 DEF HeardAt
  <2>3. HeardAt(Tail(q), now, w, 0)
    BY <1>2, <1>3, <1>4, <2>2 DEF HeardAt
  <2>. QED  BY <1>2, <2>3 DEF Heard
<1>5. CASE i = 1
  <2>1. now = w
    BY <1>1, <1>2, <1>5 DEF HeardAt
  <2>2. HeardAt(Tail(q), now, w, 0)
    BY <1>2, <1>3, <1>5, <2>1 DEF HeardAt
  <2>. QED  BY <1>2, <2>2 DEF Heard
<1>6. CASE i > 1
  <2>1. i - 1 \in 1..(Len(q) - 1) /\ i - 1 \in 0..Len(Tail(q))
    BY <1>1, <1>2, <1>6
  <2>2. Tail(q)[i - 1].role = w
    BY <1>1, <1>2, <1>6, <2>1 DEF HeardAt
  <2>3. HeardAt(Tail(q), now, w, i - 1)
    BY <1>1, <1>2, <1>3, <1>6, <2>2 DEF HeardAt
  <2>. QED  BY <2>1, <2>3 DEF Heard
<1>. QED  BY <1>1, <1>4, <1>5, <1>6

LEMMA LinksDiffer ==
    ASSUME SessionBase, NEW c \in Clients, NEW d \in Clients, c # d, link[c] # 0
    PROVE  link[c] # link[d]
BY DEF SessionBase, SessionsHeld, LinksHeld

LEMMA LinkedSession ==
    ASSUME TypeOK, NEW c \in Clients, link[c] # 0
    PROVE  link[c] \in Sessions
BY DEF TypeOK, ClientTypes

LEMMA ClientRoles ==
    ASSUME SessionBase, RolesHeld, NEW c \in Clients, NEW d \in Clients, Connected(c)',
           \/ Connect(d) \/ Edit(d) \/ ClientReads(d) \/ SeesClose(d) \/ SeesDenied(d)
           \/ Renew(d) \/ ChangeRole(d)
    PROVE  HearsRole(c, link[c])'
<1>1. TypeOK /\ LinksHeld
  BY DEF SessionBase, SessionsHeld
<1>2. link'[c] = link[c]
  <2>1. CASE Connect(d)
    <3>1. PICK r \in Sessions : step' = [step EXCEPT ![r] = "verify"] /\ link' = [link EXCEPT ![d] = r]
      BY <2>1 DEF Connect
    <3>. QED  BY <1>1, <3>1 DEF Connected, TypeOK, ClientTypes, SessionTypes
  <2>2. CASE SeesClose(d) \/ SeesDenied(d)
    BY <1>1, <2>2 DEF SeesClose, SeesDenied, Connected, TypeOK, ClientTypes
  <2>3. CASE Edit(d) \/ ClientReads(d) \/ Renew(d) \/ ChangeRole(d)
    BY <2>3 DEF Edit, ClientReads, Renew, ChangeRole, client
  <2>. QED  BY <2>1, <2>2, <2>3
<1>3. PICK s \in Sessions : s = link[c] /\ s = link'[c] /\ step[s] # "none"
  BY <1>1, <1>2, LinkedSession DEF Connected, LinksHeld
<1>4. UNCHANGED <<step[s], broken, srole>>
  <2>1. CASE Connect(d)
    BY <1>1, <1>3, <2>1 DEF Connect, IsNextSession, TypeOK, SessionTypes
  <2>. QED  BY <2>1 DEF Edit, ClientReads, SeesClose, SeesDenied, Renew, ChangeRole, session
<1>5. Heard(down[s], role[c], srole[s]) /\ Connected(c)
  BY <1>3, <1>4 DEF RolesHeld, HearsRole, Connected
<1>6. c # d => link[d] # s
  BY <1>5, <1>3, LinksDiffer DEF Connected
<1>7. Heard(down'[s], role'[c], srole'[s])
  <2>1. CASE ClientReads(d) /\ c = d
    <3>1. /\ down'[s] = Tail(down[s]) /\ down[s] # <<>> /\ down[s] \in Seq(Message)
          /\ role'[c] = IF Head(down[s]).role = "same" THEN role[c] ELSE Head(down[s]).role
      BY <1>1, <1>3, <2>1 DEF ClientReads, RoleAfter, TypeOK, ClientTypes, QueueTypes
    <3>2. srole[s] # "same"
      BY <1>1 DEF TypeOK, SessionTypes, Roles
    <3>. QED  BY <1>4, <1>5, <3>1, <3>2, HeardNext
  <2>2. CASE ClientReads(d) /\ c # d
    <3>1. down'[s] = down[s] /\ role'[c] = role[c]
      BY <1>1, <1>6, <2>2 DEF ClientReads, TypeOK, ClientTypes, QueueTypes
    <3>. QED  BY <1>4, <1>5, <3>1
  <2>3. CASE SeesClose(d)
    <3>1. c # d
      BY <1>1, <1>3, <2>3, SessionsAreNumbers DEF SeesClose, TypeOK, ClientTypes
    <3>2. down'[s] = down[s] /\ role' = role
      BY <1>1, <1>6, <2>3, <3>1 DEF SeesClose, TypeOK, QueueTypes
    <3>. QED  BY <1>4, <1>5, <3>2
  <2>4. CASE Connect(d) \/ Edit(d) \/ SeesDenied(d) \/ Renew(d) \/ ChangeRole(d)
    <3>1. UNCHANGED <<down, role>>
      BY <2>4 DEF Connect, Edit, SeesDenied, Renew, ChangeRole, client
    <3>. QED  BY <1>4, <1>5, <3>1
  <2>. QED  BY <2>1, <2>2, <2>3, <2>4
<1>. QED  BY <1>3, <1>7 DEF HearsRole

LEMMA RoomRoles ==
    ASSUME SessionBase, RolesHeld, NEW c \in Clients, Connected(c)',
           \/ \E s \in Sessions :
                 \/ Verify(s) \/ JoinFails(s) \/ Join(s) \/ SessionReads(s) \/ Leave(s)
                 \/ RefreshRead(s) \/ RefreshSet(s) \/ Break(s)
           \/ AppendOk \/ AppendFails
    PROVE  HearsRole(c, link[c])'
<1>1. TypeOK /\ LinksHeld /\ \A s \in Sessions : SessionAt(s)
  BY DEF SessionBase, SessionsHeld
<1>2. UNCHANGED <<link, role>>
  BY DEF Verify, JoinFails, Join, SessionReads, Leave, RefreshRead, RefreshSet, Break, AppendOk,
         AppendFails, client
<1>3. PICK s \in Sessions : s = link[c] /\ s = link'[c]
  BY <1>1, <1>2, LinkedSession DEF Connected
<1>4. step'[s] = "open" /\ s \notin broken' /\ down[s] \in Seq(Message)
  BY <1>1, <1>3 DEF Connected, TypeOK, QueueTypes
<1>5. ASSUME step[s] = "open", s \notin broken PROVE Heard(down[s], role[c], srole[s])
  BY <1>3, <1>5 DEF RolesHeld, HearsRole, Connected, SessionTypes
<1>6. Heard(down'[s], role'[c], srole'[s])
  <2>1. CASE Join(s)
    <3>1. s \notin members /\ s \notin broken /\ srole' = srole
      BY <1>1, <1>4, <2>1 DEF Join, SessionAt
    <3>2. Welcome(s) \in Message /\ Welcome(s).role = srole[s]
      BY <1>1, WholeIsPart DEF Welcome, Message, TypeOK, SessionTypes, BoardTypes
    <3>3. down'[s] = down[s] \o <<Welcome(s)>>
      BY <1>1, <2>1, <3>1, JoinSends
    <3>. QED  BY <1>4, <3>1, <3>2, <3>3, HeardNews
  <2>2. ASSUME Told, ~ Join(s) PROVE Heard(down'[s], role'[c], srole'[s])
    <3>1. PICK ms : Fits(s, ms) /\ down'[s] = down[s] \o ms
      BY <1>1, <2>2, TellingFits
    <3>2. srole' = srole /\ broken' = broken
      BY <2>2 DEF Told, Join, SessionReads, Leave, AppendOk, AppendFails, session
    <3>3. step[s] = "open"
      BY <1>1, <1>4, <2>2 DEF Told, Join, SessionReads, Leave, AppendOk, AppendFails, session,
                           TypeOK, SessionTypes
    <3>4. Heard(down[s], role[c], srole[s])
      BY <1>4, <1>5, <3>2, <3>3
    <3>. QED  BY <1>2, <1>4, <3>1, <3>2, <3>4, HeardMore DEF Fits
  <2>3. CASE RefreshSet(s)
    <3>1. /\ srole'[s] = fresh[s] /\ fresh[s] \in Roles /\ s \notin broken
          /\ down' = Sent(down, s, RoleNews(s))
      BY <1>1, <1>4, <2>3 DEF RefreshSet, TypeOK, SessionTypes
    <3>2. PICK m \in Message : m.role = fresh[s] /\ RoleNews(s) = <<m>>
      <4>1. /\ [Nothing EXCEPT !.role = fresh[s]] \in Message
            /\ [Nothing EXCEPT !.role = fresh[s]].role = fresh[s]
        BY <3>1 DEF Nothing, Message
      <4>. QED  BY <4>1 DEF RoleNews
    <3>3. down'[s] = down[s] \o <<m>>
      <4>1. <<m>> \in Seq(Message) /\ down \in [Sessions -> Seq(Message)]
        BY <1>1, OneMessage DEF TypeOK, QueueTypes
      <4>2. Sent(down, s, <<m>>)[s] = down[s] \o <<m>>
        BY <3>1, <4>1, SentIsThere
      <4>. QED  BY <3>1, <3>2, <4>2, Zenon
    <3>. QED  BY <1>4, <3>1, <3>2, <3>3, HeardNews
  <2>4. ASSUME NEW t \in Sessions, t # s, RefreshSet(t)
        PROVE  UNCHANGED <<step, broken, srole[s], down[s]>>
    <3>1. /\ srole' = [srole EXCEPT ![t] = fresh[t]] /\ fresh[t] \in Roles
          /\ down' = Sent(down, t, RoleNews(t)) /\ UNCHANGED <<step, broken>>
      BY <1>1, <2>4 DEF RefreshSet, TypeOK, SessionTypes
    <3>2. RoleNews(t) \in Seq(Message)
      <4>1. [Nothing EXCEPT !.role = fresh[t]] \in Message
        BY <3>1 DEF Nothing, Message
      <4>. QED  BY <4>1 DEF RoleNews
    <3>3. down'[s] = down[s]
      BY <1>1, <2>4, <3>1, <3>2, SentIsThere DEF TypeOK, QueueTypes
    <3>. QED  BY <1>1, <2>4, <3>1, <3>3 DEF TypeOK, SessionTypes
  <2>5. ASSUME NEW t \in Sessions, Verify(t) \/ JoinFails(t) \/ RefreshRead(t) \/ Break(t)
        PROVE  Heard(down'[s], role'[c], srole'[s])
    <3>1. down' = down
      BY <2>5 DEF Verify, JoinFails, RefreshRead, Break
    <3>2. step[s] = "open" /\ s \notin broken
      BY <1>1, <1>4, <2>5 DEF Verify, JoinFails, RefreshRead, Break, TypeOK, SessionTypes
    <3>3. srole'[s] = srole[s]
      BY <1>1, <2>5, <3>2 DEF Verify, JoinFails, RefreshRead, Break, TypeOK, SessionTypes
    <3>. QED  BY <1>2, <1>5, <3>1, <3>2, <3>3
  <2>. QED  BY <1>2, <1>4, <1>5, <2>1, <2>2, <2>3, <2>4, <2>5 DEF Told
<1>. QED  BY <1>3, <1>6 DEF HearsRole

\* When nothing is under way, a client's role is its session's (permission.ts,
\* server.ts refreshAuth, adapter.ts applyRole).
THEOREM RoleIsKnown == Spec => []ClientKnowsRole
<1>1. Init => RolesHeld
  BY DEF Init, RolesHeld, Connected
<1>2. SessionBase /\ RolesHeld /\ [Next]_vars => RolesHeld'
  <2>1. SessionBase /\ RolesHeld /\ UNCHANGED vars => RolesHeld'
    BY DEF vars, client, session, RolesHeld, Connected, HearsRole
  <2>2. ASSUME SessionBase, RolesHeld, Next, NEW c \in Clients, Connected(c)'
        PROVE  HearsRole(c, link[c])'
    BY <2>2, ClientRoles, RoomRoles DEF Next
  <2>3. SessionBase /\ RolesHeld /\ Next => RolesHeld'
    BY <2>2 DEF RolesHeld
  <2>. QED  BY <2>1, <2>3
<1>3. RolesHeld => ClientKnowsRole
  <2>1. ASSUME RolesHeld, NEW c \in Clients, Quiet(c) PROVE role[c] = srole[link[c]]
    <3>1. Heard(<<>>, role[c], srole[link[c]])
      BY <2>1 DEF RolesHeld, Connected, Quiet, HearsRole
    <3>. QED  BY <3>1 DEF Heard, HeardAt
  <2>. QED  BY <2>1 DEF ClientKnowsRole
<1>. QED  BY <1>1, <1>2, <1>3, SessionsAlways, PTL DEF Spec
-----------------------------------------------------------------------------
(***************************************************************************)
(* Where updates are, and in which order.                                  *)
(***************************************************************************)
UpdateBase == SessionBase /\ Origins /\ Order

RoomStep ==
    \/ \E s \in Sessions : \/ Verify(s) \/ JoinFails(s) \/ Join(s) \/ SessionReads(s)
                           \/ Leave(s) \/ RefreshRead(s) \/ RefreshSet(s) \/ Break(s)
    \/ AppendOk \/ AppendFails

\* Each update of X comes with what it needs, or that is in S.
Follows(X, S) == \A u \in X : \A k \in 1..u[2] : <<u[1], k>> \in S \cup X

\* The room sends updates that it has.
LEMMA DownGrows ==
    ASSUME SessionBase, QueuesHeld, RoomStep, NEW t \in Sessions
    PROVE  /\ Carried(down[t]) \subseteq Carried(down'[t])
           /\ Carried(down'[t]) \subseteq Carried(down[t]) \cup room
<1>1. TypeOK /\ (\A s \in Sessions : SessionAt(s)) /\ down[t] \in Seq(Message)
  BY DEF SessionBase, SessionsHeld, TypeOK, QueueTypes
<1>2. Carried(pend) \subseteq room
  BY DEF QueuesHeld, Carried
<1>3. CASE Told
  <2>1. PICK ms : Fits(t, ms) /\ down'[t] = down[t] \o ms
    BY <1>1, <1>3, TellingFits
  <2>2. ms \in Seq(Message) /\ Carried(ms) \subseteq room
    BY <1>2, <2>1 DEF Fits, Carried
  <2>3. Carried(down'[t]) = Carried(down[t]) \cup Carried(ms)
    BY <1>1, <2>1, <2>2, CarriedConcat
  <2>. QED  BY <2>2, <2>3
<1>4. ASSUME NEW s \in Sessions, RefreshSet(s)
      PROVE  Carried(down'[t]) = Carried(down[t])
  <2>1. PICK m \in Message : m.set = {} /\ RoleNews(s) = <<m>>
    <3>1. fresh[s] \in Roles
      BY <1>1, <1>4 DEF RefreshSet, TypeOK, SessionTypes
    <3>2. /\ [Nothing EXCEPT !.role = fresh[s]] \in Message
          /\ [Nothing EXCEPT !.role = fresh[s]].set = {}
      BY <3>1 DEF Nothing, Message
    <3>. QED  BY <3>2 DEF RoleNews
  <2>2. <<m>> \in Seq(Message) /\ down \in [Sessions -> Seq(Message)]
    BY <1>1, OneMessage DEF TypeOK, QueueTypes
  <2>3. Sent(down, s, <<m>>)[t] = down[t] \o <<m>> \/ Sent(down, s, <<m>>)[t] = down[t]
    BY <2>2, SentIsThere
  <2>4. down' = Sent(down, s, <<m>>)
    BY <1>4, <2>1 DEF RefreshSet
  <2>5. Carried(down[t] \o <<m>>) = Carried(down[t]) \cup m.set
    <3>1. down[t] \in Seq(Message)
      BY <1>1
    <3>. QED  BY <3>1, CarriedAppend
  <2>. QED  BY <2>1, <2>3, <2>4, <2>5
<1>5. ASSUME NEW s \in Sessions, Verify(s) \/ JoinFails(s) \/ RefreshRead(s) \/ Break(s)
      PROVE  down' = down
  BY <1>5 DEF Verify, JoinFails, RefreshRead, Break
<1>. QED  BY <1>3, <1>4, <1>5 DEF Told, RoomStep

LEMMA DocFollows ==
    ASSUME UpdateBase, NEW d \in Clients, NEW u \in doc[d], NEW k \in 1..u[2]
    PROVE  <<u[1], k>> \in doc[d] \cup room \cup refused
<1>1. u \in Updates
  BY DEF UpdateBase, SessionBase, TypeOK, ClientTypes
<1>. QED  BY <1>1 DEF UpdateBase, Origins, DocsHeld, Order

\* What a client reads is the room's.
LEMMA ReadFromRoom ==
    ASSUME SessionBase, QueuesHeld, NEW d \in Clients, ClientReads(d)
    PROVE  /\ link[d] \in Sessions
           /\ down[link[d]] \in Seq(Message) /\ down[link[d]] # <<>>
           /\ Head(down[link[d]]).set \subseteq room
<1>1. link[d] \in Sessions /\ down[link[d]] \in Seq(Message) /\ down[link[d]] # <<>>
  BY DEF ClientReads, SessionBase, TypeOK, ClientTypes, QueueTypes
<1>2. Carried(down[link[d]]) \subseteq room
  BY <1>1 DEF QueuesHeld
<1>. QED  BY <1>1, <1>2, CarriedHeadTail

\* A client tells what it has, after what that needs.
LEMMA ClientTells ==
    ASSUME UpdateBase, NEW d \in Clients, Edit(d) \/ ClientReads(d) \/ Renew(d)
    PROVE  \E X \in SUBSET doc'[d] :
              /\ doc'[d] \subseteq doc[d] \cup room \cup X
              /\ Follows(X, doc[d] \cup room \cup refused)
              /\ \A t \in Sessions :
                    IF t = link[d] /\ t \notin broken
                    THEN \/ X = {} /\ up'[t] = up[t]
                         \/ \E m \in Message : m.set = X /\ up'[t] = up[t] \o <<m>>
                    ELSE up'[t] = up[t]
<1>1. TypeOK /\ SessionBase /\ QueuesHeld
  BY DEF UpdateBase, SessionBase, Origins
<1>2. ASSUME NEW m \in Message, up' = Sent(up, link[d], <<m>>), NEW t \in Sessions
      PROVE  IF t = link[d] /\ t \notin broken THEN up'[t] = up[t] \o <<m>> ELSE up'[t] = up[t]
  <2>1. <<m>> \in Seq(Message)
    BY OneMessage
  <2>2. Sent(up, link[d], <<m>>)[t] =
            IF t = link[d] /\ link[d] \notin broken THEN up[t] \o <<m>> ELSE up[t]
    BY <1>1, <2>1, ClientSends
  <2>. QED  BY <1>2, <2>2
<1>3. CASE Edit(d)
  <2>1. PICK n \in 1..Edits[d] : /\ IsNextEdit(d, n)
                                 /\ doc' = [doc EXCEPT ![d] = @ \cup {<<d, n>>}]
                                 /\ up' = Sent(up, link[d], <<Update({<<d, n>>})>>)
    BY <1>3 DEF Edit
  <2>2. Update({<<d, n>>}) \in Message /\ Update({<<d, n>>}).set = {<<d, n>>}
    <3>1. <<d, n>> \in Updates
      BY DEF Updates
    <3>. QED  BY <3>1, MessageTypes DEF Update, Nothing
  <2>3. doc'[d] = doc[d] \cup {<<d, n>>}
    BY <1>1, <2>1 DEF TypeOK, ClientTypes
  <2>4. Follows({<<d, n>>}, doc[d] \cup room \cup refused)
    <3>1. Edits[d] \in Nat
      BY EditsAssumption
    <3>2. \A k \in 1..n : k = n \/ k \in 1..(n - 1)
      BY <3>1
    <3>3. \A k \in 1..n : <<d, k>> = <<d, n>> \/ <<d, k>> \in doc[d]
      BY <2>1, <3>2 DEF IsNextEdit
    <3>. QED  BY <3>3 DEF Follows
  <2>. QED  BY <1>2, <2>1, <2>2, <2>3, <2>4
<1>4. CASE ClientReads(d)
  <2>. DEFINE m == Head(down[link[d]])
              X == Offer(d, m.have)
  <2>1. doc'[d] = doc[d] \cup m.set /\ m.set \subseteq room
    BY <1>1, <1>4, ReadFromRoom DEF ClientReads, TypeOK, ClientTypes
  <2>2. up' = Sent(up, link[d], Answer(d, m))
    BY <1>4 DEF ClientReads
  <2>3. X \subseteq doc[d] /\ X \in SUBSET Updates
    BY <1>1 DEF Offer, TypeOK, ClientTypes
  <2>4. CASE Answer(d, m) = <<>>
    <3>1. \A t \in Sessions : up'[t] = up[t]
      <4>1. /\ <<>> \in Seq(Message)
            /\ \A t \in Sessions : up[t] \o <<>> = up[t]
        BY <1>1, EmptySeq, ConcatEmptySeq DEF TypeOK, QueueTypes
      <4>2. \A t \in Sessions : Sent(up, link[d], <<>>)[t] =
                IF t = link[d] /\ link[d] \notin broken THEN up[t] \o <<>> ELSE up[t]
        BY <1>1, <4>1, ClientSends
      <4>. QED  BY <2>2, <2>4, <4>1, <4>2
    <3>2. Follows({}, doc[d] \cup room \cup refused)
      BY DEF Follows
    <3>. QED  BY <2>1, <3>1, <3>2
  <2>5. CASE Answer(d, m) = <<Update(X)>>
    <3>1. Update(X) \in Message /\ Update(X).set = X
      BY <2>3, MessageTypes DEF Update, Nothing
    <3>2. Follows(X, doc[d] \cup room \cup refused)
      BY <2>3, DocFollows DEF Follows
    <3>. HIDE DEF X, m
    <3>. QED  BY <1>2, <2>1, <2>2, <2>3, <2>5, <3>1, <3>2
  <2>. QED  BY <2>4, <2>5 DEF Answer
<1>5. CASE Renew(d)
  <2>1. up' = Sent(up, link[d], <<Announcement>>) /\ doc' = doc
    BY <1>5 DEF Renew, client
  <2>2. Announcement \in Message /\ Announcement.set = {}
    BY MessageTypes DEF Announcement, Nothing
  <2>3. Follows({}, doc[d] \cup room \cup refused)
    BY DEF Follows
  <2>. QED  BY <1>2, <2>1, <2>2, <2>3
<1>. QED  BY <1>3, <1>4, <1>5

\* A step that brings no update to a document and no question to the room.
LEMMA NothingNew ==
    ASSUME UpdateBase, [Next]_vars, UNCHANGED <<doc, room, refused>>,
           \A t \in Sessions : up'[t] = up[t] \/ (up'[t] = <<>> /\ t \in broken),
           \A t \in Sessions : Carried(down'[t]) \subseteq Carried(down[t]) \cup room,
           \A i \in DOMAIN pend' : \E j \in DOMAIN pend : pend'[i] = pend[j],
           broken \subseteq broken', \A c \in Clients : link'[c] = link[c] \/ link'[c] = 0
    PROVE  Origins' /\ Order'
<1>1. /\ SessionBase /\ DocsHeld /\ QueuesHeld /\ Order /\ TypeOK
      /\ PendingHeld /\ \A t \in Sessions : SessionAt(t)
  BY DEF UpdateBase, SessionBase, SessionsHeld, Origins
<1>2. DocsHeld'
  BY <1>1 DEF DocsHeld
<1>3. \A t \in Sessions : Carried(up'[t]) = Carried(up[t]) \/ Carried(up'[t]) = {}
  BY CarriedEmpty
<1>4. \A t \in Sessions : \A u \in Carried(up'[t]) : u \in doc'[by'[t]]
  <2>1. ASSUME NEW t \in Sessions, NEW u \in Carried(up'[t]) PROVE u \in doc'[by'[t]]
    <3>1. u \in Carried(up[t])
      BY <1>3, <2>1
    <3>2. step[t] # "none"
      BY <1>1, <3>1, CarriedEmpty DEF SessionAt
    <3>. QED  BY <1>1, <3>1, <3>2, StepsGoOn DEF QueuesHeld
  <2>. QED  BY <2>1
<1>5. ASSUME NEW i \in DOMAIN pend'
      PROVE  pend'[i].set \subseteq room' \cap doc'[by'[pend'[i].from]]
  <2>1. PICK j \in DOMAIN pend : pend'[i] = pend[j]
    BY <1>5
  <2>2. step[pend[j].from] # "none" /\ pend[j].from \in Sessions
    <3>1. pend \in Seq([set : SUBSET Updates, from : Sessions])
      BY <1>1 DEF TypeOK, BoardTypes
    <3>2. j \in 1..Len(pend)
      BY <2>1, <3>1, LenProperties
    <3>3. pend[j] \in [set : SUBSET Updates, from : Sessions]
      BY <3>1, <3>2, ElementOfSeq
    <3>. QED  BY <1>1, <2>1, <3>3 DEF PendingHeld
  <2>. QED  BY <1>1, <2>1, <2>2, StepsGoOn DEF QueuesHeld
<1>6. QueuesHeld'
  BY <1>1, <1>4, <1>5 DEF QueuesHeld
<1>7. \A t \in Sessions : Ordered(up'[t], room \cup refused)
  <2>1. Ordered(<<>>, room \cup refused)
    BY DEF Ordered
  <2>. QED  BY <1>1, <2>1 DEF Order
<1>8. ASSUME NEW c \in Clients, link'[c] # 0, link'[c] \notin broken'
      PROVE  doc'[c] \subseteq room \cup refused \cup Carried(up'[link'[c]])
  <2>1. link'[c] = link[c] /\ link[c] \in Sessions /\ link[c] \notin broken
    BY <1>1, <1>8 DEF TypeOK, ClientTypes
  <2>. QED  BY <1>1, <1>8, <2>1 DEF Order
<1>9. Order'
  BY <1>1, <1>7, <1>8 DEF Order
<1>. QED  BY <1>2, <1>6, <1>9 DEF Origins

LEMMA ConnectUpdates ==
    ASSUME UpdateBase, SessionBase', NEW d \in Clients, Connect(d)
    PROVE  Origins' /\ Order'
<1>1. /\ SessionBase /\ DocsHeld /\ QueuesHeld /\ Order /\ TypeOK /\ LinksHeld
      /\ PendingHeld /\ \A t \in Sessions : SessionAt(t)
  BY DEF UpdateBase, SessionBase, SessionsHeld, Origins
<1>2. PICK s \in Sessions : /\ step[s] = "none"
                            /\ link' = [link EXCEPT ![d] = s]
                            /\ by' = [by EXCEPT ![s] = d]
                            /\ up' = [up EXCEPT ![s] = <<Hello(d)>>]
  BY DEF Connect, IsNextSession
<1>3. UNCHANGED <<doc, room, refused, pend, down, broken>>
  BY DEF Connect, board
<1>4. Hello(d).set = doc[d] /\ Carried(<<Hello(d)>>) = doc[d]
  <2>1. Hello(d).set = doc[d]
    BY DEF Hello, Offer, Nothing
  <2>. QED  BY <2>1, CarriedOne
<1>5. DocsHeld'
  BY <1>1, <1>3 DEF DocsHeld
<1>6. up'[s] = <<Hello(d)>> /\ by'[s] = d /\ \A t \in Sessions \ {s} : up'[t] = up[t] /\ by'[t] = by[t]
  BY <1>1, <1>2 DEF TypeOK, SessionTypes, QueueTypes
<1>7. \A i \in DOMAIN pend : pend[i].from \in Sessions \ {s}
  <2>1. ASSUME NEW i \in DOMAIN pend PROVE pend[i].from \in Sessions \ {s}
    <3>1. pend[i] \in [set : SUBSET Updates, from : Sessions]
      BY <1>1, <2>1, ElementOfSeq, LenProperties DEF TypeOK, BoardTypes
    <3>. QED  BY <1>1, <1>2, <2>1, <3>1 DEF PendingHeld
  <2>. QED  BY <2>1
<1>8. QueuesHeld'
  <2>1. \A t \in Sessions : \A u \in Carried(up'[t]) : u \in doc[by'[t]]
    BY <1>1, <1>4, <1>6 DEF QueuesHeld
  <2>. QED  BY <1>1, <1>3, <1>6, <1>7, <2>1 DEF QueuesHeld
<1>9. Ordered(<<Hello(d)>>, room \cup refused)
  <2>1. \A u \in doc[d] : \A k \in 1..u[2] : <<u[1], k>> \in doc[d] \cup room \cup refused
    BY DocFollows
  <2>2. /\ DOMAIN <<Hello(d)>> = {1} /\ <<Hello(d)>>[1].set = doc[d]
        /\ UNION {<<Hello(d)>>[j].set : j \in 1..1} = doc[d]
    BY <1>4
  <2>. HIDE DEF Hello
  <2>. QED  BY <2>1, <2>2 DEF Ordered
<1>10. ASSUME NEW c \in Clients, link'[c] # 0, link'[c] \notin broken
       PROVE  doc[c] \subseteq room \cup refused \cup Carried(up'[link'[c]])
  <2>1. CASE c = d
    BY <1>1, <1>2, <1>4, <1>6, <2>1 DEF TypeOK, ClientTypes
  <2>2. CASE c # d
    <3>1. link'[c] = link[c] /\ link[c] \in Sessions \ {s}
      BY <1>1, <1>2, <1>10, <2>2 DEF TypeOK, ClientTypes, LinksHeld
    <3>. QED  BY <1>1, <1>6, <1>10, <3>1 DEF Order
  <2>. QED  BY <2>1, <2>2
<1>11. Order'
  <2>1. \A t \in Sessions : Ordered(up'[t], room \cup refused)
    BY <1>1, <1>6, <1>9 DEF Order
  <2>. QED  BY <1>1, <1>3, <1>10, <2>1 DEF Order
<1>. QED  BY <1>5, <1>8, <1>11 DEF Origins

LEMMA TellingUpdates ==
    ASSUME UpdateBase, SessionBase', NEW d \in Clients, Edit(d) \/ ClientReads(d) \/ Renew(d)
    PROVE  Origins' /\ Order'
<1>1. /\ SessionBase /\ DocsHeld /\ QueuesHeld /\ Order /\ TypeOK /\ LinksHeld
  BY DEF UpdateBase, SessionBase, SessionsHeld, Origins
<1>2. UNCHANGED <<room, refused, pend, broken, link, by>>
  BY DEF Edit, ClientReads, Renew, client, session, board
<1>3. /\ \A c \in Clients \ {d} : doc'[c] = doc[c]
      /\ doc[d] \subseteq doc'[d]
  <2>1. CASE Edit(d)
    BY <1>1, <2>1 DEF Edit, TypeOK, ClientTypes
  <2>2. CASE ClientReads(d)
    BY <1>1, <2>2 DEF ClientReads, TypeOK, ClientTypes
  <2>3. CASE Renew(d)
    BY <2>3 DEF Renew, client
  <2>. QED  BY <2>1, <2>2, <2>3
<1>4. PICK X \in SUBSET doc'[d] :
          /\ doc'[d] \subseteq doc[d] \cup room \cup X
          /\ Follows(X, doc[d] \cup room \cup refused)
          /\ \A t \in Sessions :
                IF t = link[d] /\ t \notin broken
                THEN \/ X = {} /\ up'[t] = up[t]
                     \/ \E m \in Message : m.set = X /\ up'[t] = up[t] \o <<m>>
                ELSE up'[t] = up[t]
  BY ClientTells
<1>5. \A t \in Sessions : up[t] \in Seq(Message)
  BY <1>1 DEF TypeOK, QueueTypes
<1>6. ASSUME NEW t \in Sessions
      PROVE  Carried(up'[t]) = IF t = link[d] /\ t \notin broken THEN Carried(up[t]) \cup X
                               ELSE Carried(up[t])
  <2>1. \A m \in Message : Carried(up[t] \o <<m>>) = Carried(up[t]) \cup m.set
    BY <1>5, CarriedAppend
  <2>. QED  BY <1>4, <2>1
<1>7. DocsHeld'
  <2>1. \A c \in Clients : \A u \in doc'[c] : u[1] = c \/ u \in room
    <3>1. ASSUME NEW u \in doc'[d] PROVE u[1] = d \/ u \in room
      <4>1. CASE Edit(d)
        <5>1. PICK n \in 1..Edits[d] : doc'[d] = doc[d] \cup {<<d, n>>}
          BY <1>1, <4>1 DEF Edit, TypeOK, ClientTypes
        <5>. QED  BY <1>1, <3>1, <5>1 DEF DocsHeld
      <4>2. CASE ClientReads(d)
        <5>1. doc'[d] \subseteq doc[d] \cup room
          BY <1>1, <4>2, ReadFromRoom DEF ClientReads, TypeOK, ClientTypes
        <5>. QED  BY <1>1, <3>1, <5>1 DEF DocsHeld
      <4>3. CASE Renew(d)
        BY <1>1, <3>1, <4>3 DEF Renew, client, DocsHeld
      <4>. QED  BY <4>1, <4>2, <4>3
    <3>. QED  BY <1>1, <1>3, <3>1 DEF DocsHeld
  <2>2. \A u \in room : u \in doc'[u[1]]
    <3>1. \A u \in room : u[1] \in Clients
      BY <1>1 DEF TypeOK, BoardTypes, Updates
    <3>. QED  BY <1>1, <1>3, <3>1 DEF DocsHeld
  <2>3. ASSUME NEW u \in Updates, u \in doc'[u[1]], NEW k \in 1..u[2]
        PROVE  <<u[1], k>> \in doc'[u[1]]
    <3>1. u[1] \in Clients
      BY DEF Updates
    <3>2. CASE u \in doc[u[1]]
      BY <1>1, <1>3, <2>3, <3>1, <3>2 DEF DocsHeld
    <3>3. CASE u \in room
      BY <1>1, <1>3, <2>3, <3>1, <3>3 DEF DocsHeld
    <3>4. CASE u[1] = d /\ u \in X
      <4>1. <<d, k>> \in doc[d] \cup room \cup refused \cup X
        BY <1>4, <3>4 DEF Follows
      <4>2. CASE Edit(d)
        <5>1. PICK n \in 1..Edits[d] : /\ IsNextEdit(d, n)
                                       /\ doc'[d] = doc[d] \cup {<<d, n>>}
          BY <1>1, <4>2 DEF Edit, TypeOK, ClientTypes
        <5>2. CASE u = <<d, n>>
          <6>1. n \in Nat /\ (k = n \/ k \in 1..(n - 1))
            BY <5>2, EditsAssumption
          <6>. QED  BY <3>4, <5>1, <6>1 DEF IsNextEdit
        <5>3. CASE u \in doc[d]
          BY <3>2, <3>4, <5>3
        <5>. QED  BY <2>3, <3>4, <5>1, <5>2, <5>3
      <4>3. CASE ClientReads(d)
        <5>1. doc'[d] \subseteq doc[d] \cup room
          BY <1>1, <4>3, ReadFromRoom DEF ClientReads, TypeOK, ClientTypes
        <5>. QED  BY <2>3, <3>2, <3>3, <3>4, <5>1
      <4>4. CASE Renew(d)
        BY <2>3, <3>2, <3>4, <4>4 DEF Renew, client
      <4>. QED  BY <4>2, <4>3, <4>4
    <3>. QED  BY <1>3, <1>4, <2>3, <3>1, <3>2, <3>3, <3>4
  <2>. QED  BY <1>2, <2>1, <2>2, <2>3 DEF DocsHeld
<1>8. QueuesHeld'
  <2>1. \A c \in Clients : doc[c] \subseteq doc'[c]
    BY <1>3
  <2>2. ASSUME NEW t \in Sessions, NEW u \in Carried(up'[t]) PROVE u \in doc'[by[t]]
    <3>1. CASE u \in Carried(up[t])
      <4>1. up[t] # <<>>
        BY <3>1, CarriedEmpty
      <4>2. by[t] \in Clients
        BY <1>1, <4>1 DEF SessionBase, SessionsHeld, SessionAt, Named
      <4>. QED  BY <1>1, <2>1, <3>1, <4>2 DEF QueuesHeld
    <3>2. CASE t = link[d] /\ u \in X
      <4>1. link[d] # 0
        BY <3>2, SessionsAreNumbers
      <4>. QED  BY <1>1, <1>4, <3>2, <4>1 DEF LinksHeld
    <3>. QED  BY <1>6, <2>2, <3>1, <3>2
  <2>3. ASSUME NEW t \in Sessions PROVE Carried(down'[t]) \subseteq room
    <3>1. CASE ClientReads(d) /\ t = link[d]
      <4>1. down'[t] = Tail(down[t])
        BY <1>1, <2>3, <3>1 DEF ClientReads, TypeOK, QueueTypes
      <4>2. Carried(Tail(down[t])) \subseteq Carried(down[t])
        BY <1>1, <3>1, ReadFromRoom, CarriedHeadTail
      <4>. QED  BY <1>1, <4>1, <4>2 DEF QueuesHeld
    <3>2. CASE ~ (ClientReads(d) /\ t = link[d])
      <4>1. down'[t] = down[t]
        BY <1>1, <3>2 DEF ClientReads, Edit, Renew, TypeOK, QueueTypes
      <4>. QED  BY <1>1, <4>1 DEF QueuesHeld
    <3>. QED  BY <3>1, <3>2
  <2>4. ASSUME NEW i \in DOMAIN pend
        PROVE  pend[i].set \subseteq room \cap doc'[by[pend[i].from]]
    <3>1. pend[i].from \in Sessions
      <4>1. pend[i] \in [set : SUBSET Updates, from : Sessions]
        BY <1>1, ElementOfSeq, LenProperties DEF TypeOK, BoardTypes
      <4>. QED  BY <4>1
    <3>2. by[pend[i].from] \in Clients
      BY <1>1, <3>1 DEF SessionBase, SessionsHeld, PendingHeld, Named
    <3>. QED  BY <1>1, <2>1, <3>2 DEF QueuesHeld
  <2>. QED  BY <1>2, <2>2, <2>3, <2>4 DEF QueuesHeld
<1>9. ASSUME NEW t \in Sessions PROVE Ordered(up'[t], room \cup refused)
  <2>1. CASE t = link[d] /\ t \notin broken /\ up'[t] # up[t]
    <3>1. PICK m \in Message : m.set = X /\ up'[t] = up[t] \o <<m>>
      BY <1>4, <2>1
    <3>2. doc[d] \subseteq room \cup refused \cup Carried(up[t])
      <4>1. link[d] # 0
        BY <2>1, SessionsAreNumbers
      <4>. QED  BY <1>1, <2>1, <4>1 DEF Order
    <3>3. \A u \in m.set : \A k \in 1..u[2] :
              <<u[1], k>> \in room \cup refused \cup Carried(up[t]) \cup m.set
      BY <1>4, <3>1, <3>2 DEF Follows
    <3>4. Ordered(up[t], room \cup refused)
      BY <1>1 DEF Order
    <3>. QED  BY <1>5, <3>1, <3>3, <3>4, OrderedAppend
  <2>2. CASE up'[t] = up[t]
    BY <1>1, <2>2 DEF Order
  <2>. QED  BY <1>4, <2>1, <2>2
<1>10. ASSUME NEW c \in Clients, link[c] # 0, link[c] \notin broken
       PROVE  doc'[c] \subseteq room \cup refused \cup Carried(up'[link[c]])
  <2>1. link[c] \in Sessions /\ doc[c] \subseteq room \cup refused \cup Carried(up[link[c]])
    BY <1>1, <1>10 DEF Order, TypeOK, ClientTypes
  <2>2. CASE c = d
    BY <1>4, <1>6, <1>10, <2>1, <2>2
  <2>3. CASE c # d
    BY <1>3, <1>6, <2>1, <2>3
  <2>. QED  BY <2>2, <2>3
<1>11. Order'
  BY <1>1, <1>2, <1>9, <1>10 DEF Order
<1>. QED  BY <1>7, <1>8, <1>11 DEF Origins

\* What becomes visible by a writer's updates is in the writer's document.
LEMMA GainedIsOwn ==
    ASSUME DocsHeld, NEW c \in Clients, NEW S \in SUBSET Updates, S \subseteq doc[c]
    PROVE  Gained(S) \subseteq doc[c]
<1>1. SUFFICES ASSUME NEW u \in Gained(S), u \notin S PROVE u \in doc[c]
  OBVIOUS
<1>2. u \in room /\ \E k \in 1..u[2] : <<u[1], k>> \in S /\ <<u[1], k>> \notin room
  BY <1>1 DEF Gained, Whole
<1>3. PICK k \in 1..u[2] : <<u[1], k>> \in doc[c] /\ <<u[1], k>> \notin room
  BY <1>2
<1>4. u[1] = c
  BY <1>3 DEF DocsHeld
<1>. QED  BY <1>2, <1>4 DEF DocsHeld

LEMMA ReadsUpdates ==
    ASSUME UpdateBase, SessionBase', NEW s \in Sessions, SessionReads(s)
    PROVE  Origins' /\ Order'
<1>. DEFINE m == Head(up[s])
            T == [set : SUBSET Updates, from : Sessions]
<1>1. /\ SessionBase /\ DocsHeld /\ QueuesHeld /\ Order /\ TypeOK
  BY DEF UpdateBase, SessionBase, Origins
<1>2. UNCHANGED <<doc, link, by, broken>>
  BY DEF SessionReads, client, session
<1>3. /\ up[s] \in Seq(Message) /\ up[s] # <<>> /\ by[s] \in Clients
      /\ up' = [up EXCEPT ![s] = Tail(@)]
  BY <1>1 DEF SessionReads, TypeOK, QueueTypes, SessionBase, Named
<1>4. m \in Message /\ m.set \in SUBSET Updates
  <2>1. m \in Message
    BY <1>3, HeadTailProperties
  <2>. QED  BY <2>1 DEF Message
<1>5. Carried(up[s]) = m.set \cup Carried(Tail(up[s]))
  BY <1>3, CarriedHeadTail
<1>6. m.set \subseteq doc[by[s]]
  BY <1>1, <1>5 DEF QueuesHeld
<1>7. /\ room \subseteq room' /\ room' \subseteq room \cup m.set
      /\ room' \cup refused' = room \cup refused \cup m.set
      /\ pend' # pend => /\ room' = room \cup m.set
                         /\ pend' = Append(pend, [set |-> Gained(m.set), from |-> s])
  BY DEF SessionReads, Merge
<1>8. \A t \in Sessions : up'[t] = IF t = s THEN Tail(up[s]) ELSE up[t]
  BY <1>1, <1>3 DEF TypeOK, QueueTypes
<1>. HIDE DEF m
<1>9. DocsHeld'
  <2>1. \A u \in room' : u \in doc[u[1]]
    BY <1>1, <1>3, <1>6, <1>7 DEF DocsHeld
  <2>. QED  BY <1>1, <1>2, <1>7, <2>1 DEF DocsHeld
<1>10. Gained(m.set) \in SUBSET Updates /\ Gained(m.set) \subseteq room \cup m.set
  BY <1>1, <1>4, WholeIsPart DEF Gained, TypeOK, BoardTypes
<1>11. ASSUME NEW i \in DOMAIN pend'
       PROVE  pend'[i].set \subseteq room' \cap doc[by[pend'[i].from]]
  <2>1. CASE pend' = pend
    BY <1>1, <1>7, <1>11, <2>1 DEF QueuesHeld
  <2>2. CASE pend' # pend
    <3>1. PICK e \in T : e.set = Gained(m.set) /\ e.from = s /\ pend' = Append(pend, e)
      BY <1>7, <1>10, <2>2
    <3>2. e.set \subseteq room' \cap doc[by[s]]
      BY <1>1, <1>3, <1>4, <1>6, <1>7, <1>10, <2>2, <3>1, GainedIsOwn
    <3>3. pend \in Seq(T)
      BY <1>1 DEF TypeOK, BoardTypes
    <3>4. pend'[i] = e \/ (i \in DOMAIN pend /\ pend'[i] = pend[i])
      <4>1. /\ Append(pend, e) \in Seq(T) /\ Len(Append(pend, e)) = Len(pend) + 1
            /\ \A j \in 1..Len(pend) : Append(pend, e)[j] = pend[j]
            /\ Append(pend, e)[Len(pend) + 1] = e
        BY <3>3, AppendProperties
      <4>2. /\ DOMAIN Append(pend, e) = 1..Len(Append(pend, e)) /\ Len(pend) \in Nat
            /\ DOMAIN pend = 1..Len(pend)
        BY <3>3, <4>1, LenProperties
      <4>3. i \in 1..(Len(pend) + 1)
        BY <1>11, <3>1, <4>1, <4>2
      <4>4. CASE i = Len(pend) + 1
        BY <3>1, <4>1, <4>4
      <4>5. CASE i \in 1..Len(pend)
        BY <3>1, <4>1, <4>2, <4>5
      <4>. QED  BY <4>2, <4>3, <4>4, <4>5
    <3>. QED  BY <1>1, <1>7, <3>1, <3>2, <3>4 DEF QueuesHeld
  <2>. QED  BY <2>1, <2>2
<1>12. QueuesHeld'
  <2>1. \A t \in Sessions : Carried(up'[t]) \subseteq Carried(up[t])
    BY <1>5, <1>8
  <2>2. \A t \in Sessions : Carried(down'[t]) \subseteq room'
    <3>1. RoomStep
      BY DEF RoomStep
    <3>. QED  BY <1>1, <1>7, <3>1, DownGrows DEF QueuesHeld
  <2>. QED  BY <1>1, <1>2, <1>11, <2>1, <2>2 DEF QueuesHeld
<1>13. \A u \in m.set : \A k \in 1..u[2] : <<u[1], k>> \in room \cup refused \cup m.set
  <2>1. /\ 1 \in DOMAIN up[s] /\ up[s][1] = m
    BY <1>3, LenProperties DEF m
  <2>2. UNION {up[s][j].set : j \in 1..1} = m.set
    BY <2>1
  <2>3. Ordered(up[s], room \cup refused)
    BY <1>1 DEF Order
  <2>. QED  BY <2>1, <2>2, <2>3 DEF Ordered
<1>14. \A u \in room' : \A k \in 1..u[2] : <<u[1], k>> \in room' \cup refused'
  BY <1>1, <1>7, <1>13 DEF Order
<1>15. \A t \in Sessions : Ordered(up'[t], room' \cup refused')
  <2>1. Ordered(Tail(up[s]), room' \cup refused')
    <3>1. Ordered(up[s], room \cup refused)
      BY <1>1 DEF Order
    <3>2. (room \cup refused) \cup Head(up[s]).set \subseteq room' \cup refused'
      BY <1>7 DEF m
    <3>. QED  BY <1>3, <3>1, <3>2, OrderedTail
  <2>2. \A t \in Sessions : Ordered(up[t], room' \cup refused')
    BY <1>1, <1>7, OrderedGrows DEF Order
  <2>. QED  BY <1>8, <2>1, <2>2
<1>16. ASSUME NEW c \in Clients, link[c] # 0, link[c] \notin broken
       PROVE  doc[c] \subseteq room' \cup refused' \cup Carried(up'[link[c]])
  <2>1. link[c] \in Sessions /\ doc[c] \subseteq room \cup refused \cup Carried(up[link[c]])
    BY <1>1, <1>16 DEF Order, TypeOK, ClientTypes
  <2>. QED  BY <1>5, <1>7, <1>8, <2>1
<1>17. Order'
  BY <1>2, <1>14, <1>15, <1>16 DEF Order
<1>. QED  BY <1>9, <1>12, <1>17 DEF Origins

LEMMA UpdatesKept ==
    ASSUME UpdateBase, SessionBase', [Next]_vars
    PROVE  UpdateBase'
<1>1. /\ SessionBase /\ QueuesHeld /\ TypeOK /\ \A t \in Sessions : SessionAt(t)
  BY DEF UpdateBase, SessionBase, SessionsHeld, Origins
<1>2. ASSUME NEW d \in Clients, SeesClose(d) \/ SeesDenied(d) \/ ChangeRole(d)
      PROVE  Origins' /\ Order'
  <2>1. UNCHANGED <<doc, room, refused, up, pend, broken>>
    BY <1>2 DEF SeesClose, SeesDenied, ChangeRole, client, session, board
  <2>2. \A c \in Clients : link'[c] = link[c] \/ link'[c] = 0
    BY <1>1, <1>2 DEF SeesClose, SeesDenied, ChangeRole, client, TypeOK, ClientTypes
  <2>3. \A t \in Sessions : down'[t] = down[t] \/ down'[t] = <<>>
    BY <1>1, <1>2 DEF SeesClose, SeesDenied, ChangeRole, TypeOK, QueueTypes
  <2>4. \A t \in Sessions : Carried(down'[t]) \subseteq Carried(down[t]) \cup room
    BY <2>3, CarriedEmpty
  <2>5. /\ \A t \in Sessions : up'[t] = up[t]
        /\ \A i \in DOMAIN pend' : \E j \in DOMAIN pend : pend'[i] = pend[j]
        /\ broken \subseteq broken'
    BY <2>1
  <2>. QED  BY <2>1, <2>2, <2>4, <2>5, NothingNew
<1>3. ASSUME NEW s \in Sessions, \/ Verify(s) \/ JoinFails(s) \/ Join(s) \/ Leave(s)
                                 \/ RefreshRead(s) \/ RefreshSet(s) \/ Break(s)
      PROVE  Origins' /\ Order'
  <2>1. UNCHANGED <<doc, link, room, refused, pend>>
    BY <1>3 DEF Verify, JoinFails, Join, Leave, RefreshRead, RefreshSet, Break, client, board
  <2>2. \A t \in Sessions : up'[t] = up[t] \/ (up'[t] = <<>> /\ t \in broken)
    <3>1. CASE Leave(s)
      <4>1. up' = [up EXCEPT ![s] = <<>>] /\ s \in broken
        BY <3>1 DEF Leave
      <4>. QED  BY <1>1, <4>1 DEF TypeOK, QueueTypes
    <3>2. CASE ~ Leave(s)
      <4>1. up' = up
        BY <1>3, <3>2 DEF Verify, JoinFails, Join, RefreshRead, RefreshSet, Break
      <4>. QED  BY <4>1
    <3>. QED  BY <3>1, <3>2
  <2>3. broken \subseteq broken'
    BY <1>3 DEF Verify, JoinFails, Join, Leave, RefreshRead, RefreshSet, Break
  <2>4. RoomStep
    BY <1>3 DEF RoomStep
  <2>. QED  BY <1>1, <2>1, <2>2, <2>3, <2>4, DownGrows, NothingNew
<1>4. ASSUME AppendOk \/ AppendFails PROVE Origins' /\ Order'
  <2>1. UNCHANGED <<doc, link, room, refused, up, broken>> /\ pend' = Tail(pend) /\ pend # <<>>
    BY <1>4 DEF AppendOk, AppendFails, client, session
  <2>2. \A i \in DOMAIN Tail(pend) : i + 1 \in DOMAIN pend /\ Tail(pend)[i] = pend[i + 1]
    BY <1>1, <2>1, HeadTailProperties, LenProperties DEF TypeOK, BoardTypes
  <2>3. RoomStep
    BY <1>4 DEF RoomStep
  <2>4. /\ \A t \in Sessions : up'[t] = up[t]
        /\ \A i \in DOMAIN pend' : \E j \in DOMAIN pend : pend'[i] = pend[j]
        /\ broken \subseteq broken' /\ \A c \in Clients : link'[c] = link[c]
    BY <2>1, <2>2
  <2>5. \A t \in Sessions : Carried(down'[t]) \subseteq Carried(down[t]) \cup room
    BY <1>1, <2>3, DownGrows
  <2>. QED  BY <2>1, <2>4, <2>5, NothingNew
<1>5. CASE UNCHANGED vars
  <2>1. UNCHANGED <<doc, link, room, refused, pend, up, down, broken>>
    BY <1>5 DEF vars, client, session, board
  <2>2. /\ \A t \in Sessions : up'[t] = up[t]
        /\ \A t \in Sessions : Carried(down'[t]) \subseteq Carried(down[t]) \cup room
        /\ \A i \in DOMAIN pend' : \E j \in DOMAIN pend : pend'[i] = pend[j]
        /\ broken \subseteq broken' /\ \A c \in Clients : link'[c] = link[c]
    BY <2>1
  <2>. QED  BY <2>1, <2>2, NothingNew DEF UpdateBase
<1>. QED  BY <1>2, <1>3, <1>4, <1>5, ConnectUpdates, TellingUpdates, ReadsUpdates DEF Next, UpdateBase

LEMMA UpdatesAlways == Spec => []UpdateBase
<1>1. Init => Origins /\ Order
  <2>1. SUFFICES ASSUME Init PROVE Origins /\ Order
    OBVIOUS
  <2>2. Ordered(<<>>, room \cup refused)
    BY DEF Ordered
  <2>3. /\ room = {} /\ pend = <<>>
        /\ \A c \in Clients : doc[c] = {} /\ link[c] = 0
        /\ \A s \in Sessions : up[s] = <<>> /\ down[s] = <<>>
    BY <2>1 DEF Init
  <2>4. DocsHeld
    BY <2>3 DEF DocsHeld, Updates
  <2>5. QueuesHeld
    BY <2>3, CarriedEmpty DEF QueuesHeld
  <2>6. Order
    BY <2>2, <2>3 DEF Order
  <2>. QED  BY <2>4, <2>5, <2>6 DEF Origins
<1>. QED  BY <1>1, UpdatesKept, SessionsAlways, PTL DEF Spec, UpdateBase
-----------------------------------------------------------------------------
(***************************************************************************)
(* What the room shows reaches everybody.                                  *)
(***************************************************************************)
Reaching(c) == doc[c] \cup Carried(down[link[c]]) \cup Carried(pend) \cup failed

\* What a message makes whole, with what had waited for it, waits for its append.
LEMMA ReadIsPending ==
    ASSUME TypeOK, NEW t \in Sessions, SessionReads(t)
    PROVE  /\ Whole(room') \subseteq Whole(room) \cup Carried(pend')
           /\ Carried(pend) \subseteq Carried(pend')
           /\ UNCHANGED <<log, failed>>
<1>. DEFINE m == Head(up[t])
            T == [set : SUBSET Updates, from : Sessions]
<1>1. pend \in Seq(T) /\ UNCHANGED <<log, failed>>
  BY DEF TypeOK, BoardTypes, SessionReads
<1>2. CASE room' = room /\ pend' = pend
  BY <1>1, <1>2
<1>3. CASE Merge(t, m.set)
  <2>1. Whole(room') \subseteq Whole(room) \cup Gained(m.set)
    BY <1>3 DEF Merge, Gained
  <2>2. Carried(pend') = Carried(pend) \cup Gained(m.set)
    <3>1. CASE Gained(m.set) = {}
      BY <1>3, <3>1 DEF Merge
    <3>2. CASE Gained(m.set) # {}
      <4>1. m \in Message
        BY HeadTailProperties DEF SessionReads, TypeOK, QueueTypes
      <4>2. Gained(m.set) \in SUBSET Updates
        BY <4>1, WholeIsPart DEF Gained, Message, TypeOK, BoardTypes
      <4>3. PICK e \in T : e.set = Gained(m.set) /\ pend' = Append(pend, e)
        BY <1>3, <3>2, <4>2 DEF Merge
      <4>. HIDE DEF T, m
      <4>4. Carried(Append(pend, e)) = Carried(pend) \cup e.set
        BY <1>1, CarriedGrows
      <4>. QED  BY <4>3, <4>4
    <3>. QED  BY <3>1, <3>2
  <2>. QED  BY <1>1, <2>1, <2>2
<1>. QED  BY <1>2, <1>3 DEF SessionReads

\* An append ends: its updates are in the database, or failed.
LEMMA AppendEnds ==
    ASSUME TypeOK, AppendOk \/ AppendFails
    PROVE  /\ room' = room /\ log \cup failed \subseteq log' \cup failed'
           /\ Carried(pend) \subseteq Carried(pend') \cup log' \cup failed'
<1>. DEFINE T == [set : SUBSET Updates, from : Sessions]
<1>1. pend \in Seq(T) /\ pend # <<>> /\ pend' = Tail(pend)
  BY DEF TypeOK, BoardTypes, AppendOk, AppendFails
<1>2. Carried(pend) = Head(pend).set \cup Carried(Tail(pend))
  <2>. HIDE DEF T
  <2>. QED  BY <1>1, CarriedHeadTail
<1>3. /\ room' = room /\ log \cup failed \subseteq log' \cup failed'
      /\ Head(pend).set \subseteq log' \cup failed'
  BY DEF AppendOk, AppendFails
<1>. QED  BY <1>1, <1>2, <1>3

LEMMA WrittenKept == TypeOK /\ Written /\ [Next]_vars => Written'
<1>1. SUFFICES ASSUME TypeOK, Written, [Next]_vars PROVE Written'
  OBVIOUS
<1>2. ASSUME UNCHANGED <<room, log, failed, pend>> PROVE Written'
  BY <1>1, <1>2 DEF Written
<1>3. ASSUME NEW d \in Clients,
             \/ Connect(d) \/ Edit(d) \/ ClientReads(d) \/ SeesClose(d) \/ SeesDenied(d)
             \/ Renew(d) \/ ChangeRole(d)
      PROVE  Written'
  BY <1>2, <1>3 DEF Connect, Edit, ClientReads, SeesClose, SeesDenied, Renew, ChangeRole, board
<1>4. ASSUME NEW t \in Sessions,
             \/ Verify(t) \/ JoinFails(t) \/ Join(t) \/ Leave(t) \/ RefreshRead(t)
             \/ RefreshSet(t) \/ Break(t)
      PROVE  Written'
  BY <1>2, <1>4 DEF Verify, JoinFails, Join, Leave, RefreshRead, RefreshSet, Break, board
<1>5. ASSUME NEW t \in Sessions, SessionReads(t) PROVE Written'
  BY <1>1, <1>5, ReadIsPending DEF Written
<1>6. CASE AppendOk \/ AppendFails
  BY <1>1, <1>6, AppendEnds DEF Written
<1>7. CASE UNCHANGED vars
  BY <1>2, <1>7 DEF vars, board
<1>. QED  BY <1>1, <1>3, <1>4, <1>5, <1>6, <1>7 DEF Next

LEMMA WrittenAlways == Spec => []Written
<1>1. Init => Written
  BY WholeIsPart DEF Init, Written
<1>. QED  BY <1>1, WrittenKept, TypedAlways, PTL DEF Spec

\* Nothing that was on its way to a client is lost.
LEMMA StillReaching ==
    ASSUME UpdateBase, Delivery, NEW c \in Clients, Connected(c), room' = room,
           Reaching(c) \subseteq Reaching(c)'
    PROVE  Whole(room') \subseteq Reaching(c)'
BY DEF Delivery, Reaching

LEMMA ClientDelivery ==
    ASSUME UpdateBase, Delivery, NEW c \in Clients, NEW d \in Clients, Connected(c)',
           \/ Connect(d) \/ Edit(d) \/ ClientReads(d) \/ SeesClose(d) \/ SeesDenied(d)
           \/ Renew(d) \/ ChangeRole(d)
    PROVE  Whole(room') \subseteq Reaching(c)'
<1>1. SessionBase /\ TypeOK /\ LinksHeld
  BY DEF UpdateBase, SessionBase, SessionsHeld
<1>2. UNCHANGED <<room, pend, failed, broken>>
  BY DEF Connect, Edit, ClientReads, SeesClose, SeesDenied, Renew, ChangeRole, session, board
<1>3. link'[c] = link[c] /\ link[c] \in Sessions /\ step[link[c]] = step'[link[c]]
  <2>1. CASE Connect(d)
    <3>1. PICK r \in Sessions : /\ step[r] = "none" /\ step' = [step EXCEPT ![r] = "verify"]
                                /\ link' = [link EXCEPT ![d] = r]
      BY <2>1 DEF Connect, IsNextSession
    <3>. QED  BY <1>1, <3>1 DEF Connected, TypeOK, ClientTypes, SessionTypes
  <2>2. CASE SeesClose(d) \/ SeesDenied(d)
    <3>1. step' = step /\ link' = [link EXCEPT ![d] = 0]
      BY <2>2 DEF SeesClose, SeesDenied, session
    <3>. QED  BY <1>1, <3>1 DEF Connected, TypeOK, ClientTypes
  <2>3. CASE Edit(d) \/ ClientReads(d) \/ Renew(d) \/ ChangeRole(d)
    <3>1. UNCHANGED <<step, link>>
      BY <2>3 DEF Edit, ClientReads, Renew, ChangeRole, client, session
    <3>. QED  BY <1>1, <3>1 DEF Connected, TypeOK, ClientTypes
  <2>. QED  BY <2>1, <2>2, <2>3
<1>4. PICK s \in Sessions : s = link[c] /\ s = link'[c] /\ Connected(c)
  BY <1>2, <1>3 DEF Connected
<1>5. c # d => link[d] # s
  BY <1>1, <1>4, LinksDiffer DEF Connected
<1>6. doc[c] \cup Carried(down[s]) \subseteq doc'[c] \cup Carried(down'[s])
  <2>1. CASE ClientReads(d) /\ c = d
    <3>1. /\ down'[s] = Tail(down[s]) /\ doc'[c] = doc[c] \cup Head(down[s]).set
      BY <1>1, <1>4, <2>1 DEF ClientReads, TypeOK, ClientTypes, QueueTypes
    <3>2. Carried(down[s]) = Head(down[s]).set \cup Carried(Tail(down[s]))
      BY <1>1, <1>4, <2>1, ReadFromRoom, CarriedHeadTail DEF UpdateBase, Origins
    <3>. QED  BY <3>1, <3>2
  <2>2. CASE ClientReads(d) /\ c # d
    BY <1>1, <1>5, <2>2 DEF ClientReads, TypeOK, ClientTypes, QueueTypes
  <2>3. CASE SeesClose(d)
    <3>1. c # d
      BY <1>1, <1>4, <2>3, SessionsAreNumbers DEF SeesClose, TypeOK, ClientTypes
    <3>. QED  BY <1>1, <1>5, <2>3, <3>1 DEF SeesClose, TypeOK, QueueTypes
  <2>4. CASE Edit(d)
    BY <1>1, <2>4 DEF Edit, TypeOK, ClientTypes
  <2>5. CASE Connect(d) \/ SeesDenied(d) \/ Renew(d) \/ ChangeRole(d)
    BY <2>5 DEF Connect, SeesDenied, Renew, ChangeRole, client
  <2>. QED  BY <2>1, <2>2, <2>3, <2>4, <2>5
<1>. QED  BY <1>2, <1>4, <1>6, StillReaching DEF Reaching

LEMMA RoomDelivery ==
    ASSUME UpdateBase, Delivery, NEW c \in Clients, Connected(c)', RoomStep
    PROVE  Whole(room') \subseteq Reaching(c)'
<1>1. /\ SessionBase /\ TypeOK /\ LinksHeld /\ QueuesHeld /\ DocsHeld
      /\ \A s \in Sessions : SessionAt(s)
  BY DEF UpdateBase, SessionBase, SessionsHeld, Origins
<1>2. UNCHANGED <<link, doc, by>>
  BY DEF RoomStep, Verify, JoinFails, Join, SessionReads, Leave, RefreshRead, RefreshSet, Break,
         AppendOk, AppendFails, client, session
<1>3. PICK s \in Sessions : s = link[c] /\ s = link'[c] /\ step'[s] = "open" /\ s \notin broken'
  BY <1>1, <1>2, LinkedSession DEF Connected
<1>4. Carried(down[s]) \subseteq Carried(down'[s])
  BY <1>1, DownGrows
<1>5. CASE Join(s)
  <2>1. s \notin members /\ s \notin broken
    BY <1>1, <1>3, <1>5 DEF Join, SessionAt
  <2>2. down'[s] = down[s] \o <<Welcome(s)>> /\ room' = room
    BY <1>1, <1>5, <2>1, JoinSends DEF Join
  <2>3. Welcome(s) \in Message /\ Welcome(s).set = room /\ down[s] \in Seq(Message)
    BY <1>1, WholeIsPart DEF Welcome, Message, TypeOK, SessionTypes, BoardTypes, QueueTypes
  <2>4. room \subseteq Carried(down'[s])
    BY <2>2, <2>3, CarriedAppend
  <2>. QED  BY <1>3, <2>2, <2>4, WholeIsPart DEF Reaching
<1>6. ASSUME ~ Join(s) PROVE Connected(c)
  <2>1. step[s] = "open" /\ s \notin broken
    <3>1. ASSUME NEW t \in Sessions, Verify(t) \/ JoinFails(t) \/ Leave(t) \/ RefreshRead(t)
                                     \/ RefreshSet(t) \/ Break(t)
          PROVE  step[s] = "open" /\ s \notin broken
      <4>1. /\ broken \subseteq broken'
            /\ step' = step \/ \E x \in {"denied", "load", "closed"} : step' = [step EXCEPT ![t] = x]
        BY <3>1 DEF Verify, JoinFails, Leave, RefreshRead, RefreshSet, Break
      <4>. QED  BY <1>1, <1>3, <4>1 DEF TypeOK, SessionTypes
    <3>2. ASSUME NEW t \in Sessions, Join(t) PROVE step[s] = "open" /\ s \notin broken
      BY <1>1, <1>3, <1>6, <3>2 DEF Join, TypeOK, SessionTypes
    <3>3. ASSUME NEW t \in Sessions, SessionReads(t) PROVE step[s] = "open" /\ s \notin broken
      BY <1>3, <3>3 DEF SessionReads, session
    <3>4. AppendOk \/ AppendFails => step[s] = "open" /\ s \notin broken
      BY <1>3 DEF AppendOk, AppendFails, session
    <3>. QED  BY <3>1, <3>2, <3>3, <3>4 DEF RoomStep
  <2>. QED  BY <1>3, <2>1, SessionsAreNumbers DEF Connected
<1>7. ASSUME ~ Join(s), NEW t \in Sessions,
             \/ Verify(t) \/ JoinFails(t) \/ Join(t) \/ Leave(t) \/ RefreshRead(t)
             \/ RefreshSet(t) \/ Break(t)
      PROVE  Whole(room') \subseteq Reaching(c)'
  <2>1. UNCHANGED <<room, pend, failed>>
    BY <1>7 DEF Verify, JoinFails, Join, Leave, RefreshRead, RefreshSet, Break, board
  <2>. QED  BY <1>2, <1>3, <1>4, <1>6, <1>7, <2>1, StillReaching DEF Reaching
<1>8. ASSUME ~ Join(s), NEW t \in Sessions, SessionReads(t)
      PROVE  Whole(room') \subseteq Reaching(c)'
  <2>1. Whole(room) \subseteq Reaching(c)
    BY <1>6, <1>8 DEF Delivery, Reaching
  <2>. QED  BY <1>1, <1>2, <1>3, <1>4, <1>8, <2>1, ReadIsPending DEF Reaching
<1>9. ASSUME AppendOk \/ AppendFails
      PROVE  Whole(room') \subseteq Reaching(c)'
  <2>. DEFINE e == Head(pend)
              T == [set : SUBSET Updates, from : Sessions]
  <2>1. /\ room' = room /\ pend' = Tail(pend) /\ pend # <<>> /\ pend \in Seq(T)
        /\ members' = members /\ step' = step /\ broken' = broken /\ Told
    BY <1>1, <1>9 DEF AppendOk, AppendFails, session, TypeOK, BoardTypes, Told
  <2>2. Carried(pend) = e.set \cup Carried(Tail(pend)) /\ e \in T
    BY <2>1, CarriedHeadTail, HeadTailProperties
  <2>3. step[s] = "open" /\ s \notin broken /\ s \in members /\ Connected(c)
    BY <1>1, <1>3, <2>1, SessionsAreNumbers DEF SessionAt, Connected
  <2>4. e.set \subseteq doc[c] \cup Carried(down'[s]) \cup failed'
    <3>1. CASE AppendFails
      BY <3>1 DEF AppendFails
    <3>2. CASE AppendOk /\ s # e.from
      <4>1. PICK m \in Message : m.set = e.set /\ down'[s] = down[s] \o <<m>>
        BY <1>1, <2>3, <3>2, AppendSends
      <4>2. down[s] \in Seq(Message)
        BY <1>1 DEF TypeOK, QueueTypes
      <4>. QED  BY <4>1, <4>2, CarriedAppend
    <3>3. CASE AppendOk /\ s = e.from
      <4>1. 1 \in DOMAIN pend /\ pend[1] = e
        BY <2>1, LenProperties
      <4>2. e.set \subseteq doc[by[s]]
        BY <1>1, <3>3, <4>1 DEF QueuesHeld
      <4>3. by[s] = c
        BY <1>1, <1>3, SessionsAreNumbers DEF LinksHeld
      <4>. QED  BY <4>2, <4>3
    <3>. QED  BY <1>9, <3>1, <3>2, <3>3
  <2>5. Whole(room) \subseteq Reaching(c) /\ failed \subseteq failed'
    BY <1>9, <2>3 DEF Delivery, Reaching, AppendOk, AppendFails
  <2>. QED  BY <1>2, <1>3, <1>4, <2>1, <2>2, <2>4, <2>5 DEF Reaching
<1>. QED  BY <1>5, <1>7, <1>8, <1>9 DEF RoomStep

\* When nothing is under way, a client, the room and the database have the same
\* updates, but for those whose append failed or that were denied (room.ts join,
\* handleMessage and persistAndFanout, adapter.ts handleSync and requestInitialSync).
THEOREM QuietIsSame == Spec => []QuietMeansSame
<1>1. Init => Delivery
  BY DEF Init, Delivery, Connected
<1>2. UpdateBase /\ Delivery /\ [Next]_vars => Delivery'
  <2>1. UpdateBase /\ Delivery /\ UNCHANGED vars => Delivery'
    BY DEF vars, client, session, board, Delivery, Connected
  <2>2. ASSUME UpdateBase, Delivery, Next, NEW c \in Clients, Connected(c)'
        PROVE  Whole(room') \subseteq Reaching(c)'
    BY <2>2, ClientDelivery, RoomDelivery DEF Next, RoomStep
  <2>3. UpdateBase /\ Delivery /\ Next => Delivery'
    BY <2>2 DEF Delivery, Reaching
  <2>. QED  BY <2>1, <2>3
<1>3. UpdateBase /\ Delivery /\ Written => QuietMeansSame
  <2>1. SUFFICES ASSUME UpdateBase, Delivery, Written, NEW c \in Clients, Quiet(c)
                 PROVE  /\ \A u \in Whole(room) \ Whole(doc[c]) : Lacks(u, failed)
                        /\ \A u \in doc[c] \ Whole(room) : Lacks(u, refused)
                        /\ Whole(room) \subseteq log \cup failed
    BY DEF QuietMeansSame
  <2>2. /\ link[c] # 0 /\ link[c] \notin broken /\ pend = <<>>
        /\ Carried(up[link[c]]) = {} /\ Carried(down[link[c]]) = {} /\ Connected(c)
    BY <2>1, CarriedEmpty DEF Quiet, Connected
  <2>3. Whole(room) \subseteq doc[c] \cup failed
    BY <2>1, <2>2, CarriedEmpty DEF Delivery
  <2>4. doc[c] \subseteq room \cup refused
    BY <2>1, <2>2 DEF UpdateBase, Order
  <2>5. \A u \in room \cup doc[c] : u[2] \in 1..u[2] /\ <<u[1], u[2]>> = u
    <3>1. \A u \in Updates : u[2] \in 1..u[2] /\ <<u[1], u[2]>> = u
      BY EditsAssumption DEF Updates
    <3>. QED  BY <2>1, <3>1 DEF UpdateBase, SessionBase, TypeOK, ClientTypes, BoardTypes
  <2>6. ASSUME NEW u \in Whole(room), u \notin Whole(doc[c]) PROVE Lacks(u, failed)
    <3>1. PICK k \in 1..u[2] : <<u[1], k>> \notin doc[c]
      BY <2>5, <2>6 DEF Whole
    <3>2. <<u[1], k>> \in Whole(room)
      <4>1. u[2] \in Nat /\ \A j \in 1..u[2] : <<u[1], j>> \in room
        <5>1. u \in Updates
          BY <2>1, <2>6 DEF UpdateBase, SessionBase, TypeOK, BoardTypes, Whole
        <5>2. u[2] \in Nat
          BY <5>1, EditsAssumption DEF Updates
        <5>. QED  BY <2>6, <5>2 DEF Whole
      <4>2. \A j \in 1..k : j \in 1..u[2]
        BY <4>1
      <4>. QED  BY <4>1, <4>2 DEF Whole
    <3>. QED  BY <2>3, <3>1, <3>2 DEF Lacks
  <2>7. ASSUME NEW u \in doc[c], u \notin Whole(room) PROVE Lacks(u, refused)
    <3>1. CASE u \in refused
      BY <2>5, <2>7, <3>1 DEF Lacks
    <3>2. CASE u \in room
      <4>1. PICK k \in 1..u[2] : <<u[1], k>> \notin room
        BY <2>7, <3>2 DEF Whole
      <4>. QED  BY <2>1, <3>2, <4>1 DEF UpdateBase, Order, Lacks
    <3>. QED  BY <2>4, <2>7, <3>1, <3>2
  <2>8. Whole(room) \subseteq log \cup failed
    BY <2>1, <2>2, CarriedEmpty DEF Written
  <2>. QED  BY <2>6, <2>7, <2>8
<1>. QED  BY <1>1, <1>2, <1>3, UpdatesAlways, WrittenAlways, PTL DEF Spec
-----------------------------------------------------------------------------
(***************************************************************************)
(* The way of an update.  Seen from outside, the room and its clients are  *)
(* a board that is shared: documents only grow, an update comes to the     *)
(* room from its author, and to everybody else from the room.              *)
(***************************************************************************)
Writers == {by[s] : s \in {t \in members : MayWrite(t)}}

Shared == INSTANCE SharedBoard WITH docs <- doc, writers <- Writers, stored <- log

LEMMA OthersAdmit ==
    ASSUME SessionBase', UNCHANGED <<doc, room, log>>
    PROVE  Shared!Admit
<1>1. Writers' \in SUBSET Clients
  <2>1. members' \subseteq Sessions /\ \A s \in members' : step'[s] # "none"
    BY DEF SessionBase, SessionsHeld, SessionAt, TypeOK, BoardTypes
  <2>. QED  BY <2>1 DEF SessionBase, Named, Writers
<1>. QED  BY <1>1 DEF Shared!Admit

\* The sessions and their roles, and with them who may write, stay as they are.
LEMMA SameWriters ==
    ASSUME UNCHANGED <<by, members, srole>>
    PROVE  UNCHANGED Writers
BY DEF Writers, MayWrite

LEMMA EditIsShared ==
    ASSUME UpdateBase, NEW c \in Clients, Edit(c)
    PROVE  Shared!Edit(c)
<1>1. UNCHANGED <<Writers, room, log>>
  BY SameWriters DEF Edit, session, board
<1>2. PICK n \in 1..Edits[c] :
          IsNextEdit(c, n) /\ doc' = [doc EXCEPT ![c] = @ \cup {<<c, n>>}]
  BY DEF Edit
<1>3. <<c, n>> \in Updates
  BY <1>2 DEF Updates
<1>4. <<c, n>>[1] = c /\ <<c, n>>[2] = n
  OBVIOUS
<1>. QED  BY <1>1, <1>2, <1>3, <1>4 DEF IsNextEdit, Shared!Edit

LEMMA ReadIsShared ==
    ASSUME UpdateBase, NEW c \in Clients, ClientReads(c)
    PROVE  Shared!Deliver(c)
<1>1. UNCHANGED <<Writers, room, log>>
  BY SameWriters DEF ClientReads, session, board
<1>2. Head(down[link[c]]).set \subseteq room
  BY ReadFromRoom DEF UpdateBase, Origins
<1>3. doc' = [doc EXCEPT ![c] = @ \cup Head(down[link[c]]).set]
  BY DEF ClientReads
<1>. QED  BY <1>1, <1>2, <1>3 DEF Shared!Deliver

\* A session brings its own client's updates, and others only if the room has them.
LEMMA TakesFromAuthor ==
    ASSUME UpdateBase, SessionBase', NEW s \in Sessions, SessionReads(s)
    PROVE  Shared!Admit \/ \E c \in Clients : Shared!Accept(c)
<1> DEFINE set == Head(up[s]).set
           own == {u \in set : u[1] = by[s]}
<1>1. UNCHANGED <<doc, log, Writers>>
  BY SameWriters DEF SessionReads, client, session
<1>2. CASE room' = room
  BY <1>1, <1>2, OthersAdmit
<1>3. CASE room' # room
  <2>1. room' = room \cup set /\ (set = {} \/ MayWrite(s)) /\ step[s] = "open"
    BY <1>3 DEF SessionReads, Merge
  <2>2. set # {}
    BY <1>3, <2>1
  <2>3. s \in members /\ by[s] \in Clients
    BY <2>1 DEF UpdateBase, SessionBase, SessionsHeld, SessionAt, Named
  <2>4. by[s] \in Writers
    BY <2>1, <2>2, <2>3 DEF Writers
  <2>5. set \subseteq doc[by[s]]
    <3>1. up[s] \in Seq(Message) /\ up[s] # <<>>
      BY DEF SessionReads, UpdateBase, SessionBase, TypeOK, QueueTypes
    <3>2. Carried(up[s]) \subseteq doc[by[s]]
      BY DEF UpdateBase, Origins, QueuesHeld
    <3>. QED  BY <3>1, <3>2, CarriedHeadTail
  <2>6. \A u \in set : u \in own \/ u \in room
    BY <2>3, <2>5 DEF UpdateBase, Origins, DocsHeld
  <2>7. own \in SUBSET Shared!Own(by[s])
    BY <2>5 DEF Shared!Own
  <2>8. room' = room \cup own
    BY <2>1, <2>6
  <2>9. Shared!Accept(by[s])
    BY <1>1, <2>4, <2>7, <2>8 DEF Shared!Accept
  <2>. QED  BY <2>3, <2>9
<1>. QED  BY <1>2, <1>3

LEMMA AppendIsShared ==
    ASSUME UpdateBase, AppendOk
    PROVE  Shared!Store
<1>1. UNCHANGED <<doc, room, Writers>>
  BY SameWriters DEF AppendOk, client, session
<1>2. pend \in Seq([set : SUBSET Updates, from : Sessions]) /\ pend # <<>>
  BY DEF AppendOk, UpdateBase, SessionBase, TypeOK, BoardTypes
<1>3. 1 \in DOMAIN pend /\ Head(pend) = pend[1]
  BY <1>2, LenProperties, EmptySeq
<1>4. Head(pend).set \subseteq room
  BY <1>3 DEF UpdateBase, Origins, QueuesHeld
<1>5. log' = log \cup Head(pend).set
  BY DEF AppendOk
<1>. QED  BY <1>1, <1>4, <1>5 DEF Shared!Store

LEMMA SharedStep ==
    ASSUME UpdateBase, SessionBase', [Next]_vars
    PROVE  [Shared!Next]_(Shared!vars)
<1>1. ASSUME NEW c \in Clients, Connect(c) \/ SeesClose(c) \/ SeesDenied(c) \/ Renew(c) \/ ChangeRole(c)
      PROVE  UNCHANGED <<doc, room, log>>
  BY <1>1 DEF Connect, SeesClose, SeesDenied, Renew, ChangeRole, client, board
<1>2. ASSUME NEW s \in Sessions,
             Verify(s) \/ JoinFails(s) \/ Join(s) \/ Leave(s) \/ RefreshRead(s)
                 \/ RefreshSet(s) \/ Break(s)
      PROVE  UNCHANGED <<doc, room, log>>
  BY <1>2 DEF Verify, JoinFails, Join, Leave, RefreshRead, RefreshSet, Break, client, board
<1>3. AppendFails \/ UNCHANGED vars => UNCHANGED <<doc, room, log>>
  BY DEF AppendFails, vars, client, board
<1>4. ASSUME UNCHANGED <<doc, room, log>> PROVE Shared!Next
  BY <1>4, OthersAdmit DEF Shared!Next
<1>5. ASSUME NEW c \in Clients, Edit(c) \/ ClientReads(c) PROVE Shared!Next
  BY <1>5, EditIsShared, ReadIsShared DEF Shared!Next
<1>6. ASSUME NEW s \in Sessions, SessionReads(s) PROVE Shared!Next
  BY <1>6, TakesFromAuthor DEF Shared!Next
<1>7. AppendOk => Shared!Next
  BY AppendIsShared DEF Shared!Next
<1>. QED  BY <1>1, <1>2, <1>3, <1>4, <1>5, <1>6, <1>7 DEF Next

\* Through lost connections, denials, changes of roles and failed appends a room stays a
\* board that is shared: what anybody sees of an author came to the room on a session of
\* that author that might write, and no document loses it again (room.ts handleMessage,
\* adapter.ts handleMessage and requestInitialSync).
THEOREM ImplementsSharedBoard == Spec => Shared!Spec
<1>1. Init => Shared!Init
  BY DEF Init, Shared!Init, Writers
<1>2. UpdateBase => SessionBase
  BY DEF UpdateBase
<1>. QED  BY <1>1, <1>2, SharedStep, UpdatesAlways, PTL DEF Spec, Shared!Spec
=============================================================================
