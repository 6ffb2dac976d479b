------------------------ MODULE RoomClusterAgreement ------------------------
(***************************************************************************)
(* Why the open rooms of a board agree, for any nodes, updates and number  *)
(* of failures: what one room knows, or a load would find, the others know *)
(* or will be told.                                                        *)
(***************************************************************************)
EXTENDS RoomClusterProofs

-----------------------------------------------------------------------------
\* Messages on their way

Brings(m, u) == m.kind = "update" /\ u \in m.updates

\* The update is on its way in the queue.
Carried(q, u) == \E i \in DOMAIN q : Brings(q[i], u)

\* A request in the queue will be answered with the update, by a room that
\* holds the updates S and handles the queue.
Answers(q, S, u) ==
    \E i \in DOMAIN q : /\ q[i] = StateRequest
                        /\ u \in S \/ \E j \in 1 .. (i - 1) : Brings(q[j], u)

LEMMA Indices ==
    ASSUME NEW q \in Seq(Message)
    PROVE  DOMAIN q = 1 .. Len(q) /\ Len(q) \in Nat
  BY LenProperties

LEMMA Longer ==
    ASSUME NEW q \in Seq(Message), NEW m \in Message
    PROVE  /\ q \o <<m>> \in Seq(Message)
           /\ DOMAIN (q \o <<m>>) = 1 .. (Len(q) + 1)
           /\ \A i \in 1 .. Len(q) : (q \o <<m>>)[i] = q[i]
           /\ (q \o <<m>>)[Len(q) + 1] = m
  <1>1. q \o <<m>> = Append(q, m)
    BY AppendIsConcat
  <1>2. /\ Append(q, m) \in Seq(Message) /\ Len(Append(q, m)) = Len(q) + 1
        /\ \A i \in 1 .. Len(q) : Append(q, m)[i] = q[i]
        /\ Append(q, m)[Len(q) + 1] = m
    BY AppendProperties
  <1>3. DOMAIN Append(q, m) = 1 .. Len(Append(q, m))
    BY <1>2, LenProperties
  <1> QED  BY <1>1, <1>2, <1>3

LEMMA Shorter ==
    ASSUME NEW q \in Seq(Message), q # <<>>
    PROVE  /\ Head(q) = q[1] /\ Head(q) \in Message
           /\ Tail(q) \in Seq(Message) /\ DOMAIN Tail(q) = 1 .. (Len(q) - 1)
           /\ \A i \in 1 .. (Len(q) - 1) : Tail(q)[i] = q[i + 1]
           /\ Len(q) \in Nat \ {0} /\ DOMAIN q = 1 .. Len(q)
  <1>1. /\ Head(q) \in Message /\ Tail(q) \in Seq(Message) /\ Len(Tail(q)) = Len(q) - 1
        /\ \A i \in 1 .. Len(Tail(q)) : Tail(q)[i] = q[i + 1]
    BY HeadTailProperties
  <1>2. DOMAIN Tail(q) = 1 .. Len(Tail(q))
    BY <1>1, Indices
  <1>3. Len(q) \in Nat \ {0}
    BY EmptySeq
  <1> QED  BY <1>1, <1>2, <1>3, Indices

LEMMA CarriedLonger ==
    ASSUME NEW q \in Seq(Message), NEW m \in Message, NEW u
    PROVE  Carried(q \o <<m>>, u) <=> Carried(q, u) \/ Brings(m, u)
  <1> DEFINE t == q \o <<m>>
  <1>1. /\ DOMAIN t = 1 .. (Len(q) + 1) /\ t[Len(q) + 1] = m
        /\ \A i \in 1 .. Len(q) : t[i] = q[i]
    BY Longer
  <1>2. DOMAIN q = 1 .. Len(q) /\ Len(q) \in Nat
    BY Indices
  <1> HIDE DEF t
  <1>3. Carried(t, u) <=> Carried(q, u) \/ Brings(m, u)
    <2>1. ASSUME NEW i \in DOMAIN t
          PROVE  i \in DOMAIN q \/ i = Len(q) + 1
      BY <1>1, <1>2
    <2>2. Len(q) + 1 \in DOMAIN t /\ DOMAIN q \subseteq DOMAIN t
      BY <1>1, <1>2
    <2> QED  BY <1>1, <1>2, <2>1, <2>2, Zenon DEF Carried
  <1> QED  BY <1>3 DEF t

LEMMA CarriedShorter ==
    ASSUME NEW q \in Seq(Message), q # <<>>, NEW u
    PROVE  Carried(q, u) <=> Brings(Head(q), u) \/ Carried(Tail(q), u)
  <1>1. /\ Head(q) = q[1] /\ DOMAIN Tail(q) = 1 .. (Len(q) - 1)
        /\ \A i \in 1 .. (Len(q) - 1) : Tail(q)[i] = q[i + 1]
        /\ Len(q) \in Nat \ {0} /\ DOMAIN q = 1 .. Len(q)
    BY Shorter
  <1>2. ASSUME NEW i \in DOMAIN q, i # 1
        PROVE  i - 1 \in DOMAIN Tail(q) /\ Tail(q)[i - 1] = q[i]
    <2>1. i - 1 \in 1 .. (Len(q) - 1) /\ (i - 1) + 1 = i
      BY <1>1, <1>2
    <2>2. Tail(q)[i - 1] = q[(i - 1) + 1]
      BY <1>1, <2>1
    <2> QED  BY <1>1, <2>1, <2>2
  <1>3. ASSUME NEW i \in DOMAIN Tail(q)
        PROVE  i + 1 \in DOMAIN q /\ Tail(q)[i] = q[i + 1]
    BY <1>1
  <1>4. 1 \in DOMAIN q
    BY <1>1
  <1> QED  BY <1>1, <1>2, <1>3, <1>4, Zenon DEF Carried

LEMMA AnswersLonger ==
    ASSUME NEW q \in Seq(Message), NEW m \in Message, NEW S, NEW T, S \subseteq T, NEW u,
           Answers(q, S, u)
    PROVE  Answers(q, T, u) /\ Answers(q \o <<m>>, T, u)
  <1> DEFINE t == q \o <<m>>
  <1>1. DOMAIN t = 1 .. (Len(q) + 1) /\ \A i \in 1 .. Len(q) : t[i] = q[i]
    BY Longer
  <1>2. DOMAIN q = 1 .. Len(q) /\ Len(q) \in Nat
    BY Indices
  <1> HIDE DEF t
  <1>3. PICK i \in DOMAIN q : q[i] = StateRequest
                              /\ (u \in S \/ \E j \in 1 .. (i - 1) : Brings(q[j], u))
    BY DEF Answers
  <1>4. Answers(q, T, u)
    BY <1>3 DEF Answers
  <1>5. /\ i \in DOMAIN t /\ t[i] = q[i]
        /\ \A j \in 1 .. (i - 1) : t[j] = q[j]
    BY <1>1, <1>2, <1>3
  <1>6. u \in T \/ \E j \in 1 .. (i - 1) : Brings(t[j], u)
    BY <1>3, <1>5
  <1>7. Answers(t, T, u)
    BY <1>3, <1>5, <1>6 DEF Answers
  <1> QED  BY <1>4, <1>7 DEF t

LEMMA AnswersRequest ==
    ASSUME NEW q \in Seq(Message), NEW S, NEW u, u \in S \/ Carried(q, u)
    PROVE  Answers(q \o <<StateRequest>>, S, u)
  <1> DEFINE t == q \o <<StateRequest>>
             n == Len(q) + 1
  <1>0. StateRequest \in Message
    BY MessageTypes
  <1>1. DOMAIN t = 1 .. n /\ t[n] = StateRequest /\ \A i \in 1 .. Len(q) : t[i] = q[i]
    BY <1>0, Longer
  <1>2. DOMAIN q = 1 .. Len(q) /\ Len(q) \in Nat
    BY Indices
  <1>3. n \in 1 .. n /\ n - 1 = Len(q)
    BY <1>2
  <1> HIDE DEF t, n
  <1>4. u \in S \/ \E j \in 1 .. (n - 1) : Brings(t[j], u)
    <2>1. ASSUME Carried(q, u)
          PROVE  \E j \in 1 .. (n - 1) : Brings(t[j], u)
      <3>1. PICK j \in DOMAIN q : Brings(q[j], u)
        BY <2>1 DEF Carried
      <3> QED  BY <1>1, <1>2, <1>3, <3>1
    <2> QED  BY <2>1
  <1>5. Answers(t, S, u)
    BY <1>1, <1>3, <1>4 DEF Answers
  <1> QED  BY <1>5 DEF t

\* The head of the queue is a request that is answered now, or the rest of the
\* queue answers, for a room that took what the head brought.
LEMMA AnswersShorter ==
    ASSUME NEW q \in Seq(Message), q # <<>>, NEW S, NEW T, NEW u,
           Answers(q, S, u), S \subseteq T, Brings(Head(q), u) => u \in T
    PROVE  (Head(q) = StateRequest /\ u \in S) \/ Answers(Tail(q), T, u)
  <1>1. /\ Head(q) = q[1] /\ DOMAIN Tail(q) = 1 .. (Len(q) - 1)
        /\ \A i \in 1 .. (Len(q) - 1) : Tail(q)[i] = q[i + 1]
        /\ Len(q) \in Nat \ {0} /\ DOMAIN q = 1 .. Len(q)
    BY Shorter
  <1>2. PICK i \in DOMAIN q : q[i] = StateRequest
                              /\ (u \in S \/ \E j \in 1 .. (i - 1) : Brings(q[j], u))
    BY DEF Answers
  <1>3. CASE i = 1
    <2>1. 1 .. (i - 1) = {}
      BY <1>3
    <2> QED  BY <1>1, <1>2, <1>3, <2>1
  <1>4. CASE i # 1
    <2> DEFINE k == i - 1
    <2>1. k \in 1 .. (Len(q) - 1) /\ k + 1 = i /\ i \in Nat
      BY <1>1, <1>4
    <2>2. k \in DOMAIN Tail(q) /\ Tail(q)[k] = StateRequest
      BY <1>1, <1>2, <2>1
    <2> HIDE DEF k
    <2>3. u \in T \/ \E j \in 1 .. (k - 1) : Brings(Tail(q)[j], u)
      <3>1. CASE u \in S
        BY <3>1
      <3>2. ASSUME NEW j \in 1 .. (i - 1), Brings(q[j], u), j # 1
            PROVE  \E l \in 1 .. (k - 1) : Brings(Tail(q)[l], u)
        <4>1. j - 1 \in 1 .. (k - 1) /\ j - 1 \in 1 .. (Len(q) - 1) /\ (j - 1) + 1 = j
          BY <1>1, <2>1, <3>2
        <4>2. Tail(q)[j - 1] = q[(j - 1) + 1]
          BY <1>1, <4>1
        <4> QED  BY <3>2, <4>1, <4>2
      <3>3. Brings(q[1], u) => u \in T
        BY <1>1
      <3> QED  BY <1>2, <3>1, <3>2, <3>3
    <2> QED  BY <2>2, <2>3 DEF Answers
  <1> QED  BY <1>3, <1>4

-----------------------------------------------------------------------------
\* The inductive invariant

\* A room has the update, or will be given it: by a message that is on its way,
\* or by a room that answers a request.
Known(b, u) ==
    \/ u \in doc[b]
    \/ Carried(net[b], u)
    \/ \E c \in Nodes : Wired(c) /\ Answers(net[c], doc[c], u)

\* What a room is about to write it has, and nobody talks to a closed room.
LiveAt(n) ==
    /\ \A i \in DOMAIN queue[n] :
           queue[n][i].live => Wired(n) /\ queue[n][i].updates \subseteq doc[n]
    /\ phase[n] = "closed" => net[n] = <<>>

\* What was stored after a load some room has, and can tell.
LoadAt(b) ==
    phase[b] = "loaded" =>
        /\ doc[b] \subseteq stored
        /\ ~missed => \A u \in stored \ doc[b] : \E a \in Nodes : Wired(a) /\ u \in doc[a]

\* What is stored, what some room has and what is on its way is known; what comes
\* to a room that is not open yet may be known only by what that room will answer.
KnownAt(b) ==
    ~missed /\ Wired(b) =>
        /\ \A u \in stored : Known(b, u)
        /\ \A a \in Nodes : Wired(a) => \A u \in doc[a] : Known(b, u)
        /\ \A a \in Nodes, u \in Updates :
               Carried(net[a], u) => Known(b, u) \/ Answers(net[a], {}, u)

AgreeInv == \A n \in Nodes : LiveAt(n) /\ LoadAt(n) /\ KnownAt(n)

LEMMA QueueOf ==
    ASSUME TypeOK, NEW n \in Nodes
    PROVE  net[n] \in Seq(Message) /\ queue[n] \in Seq(Entry) /\ doc[n] \subseteq Updates
  BY DEF TypeOK

\* Queues that grow and documents that grow lose nothing that was known.
LEMMA KnownGrows ==
    ASSUME TypeOK, NEW b \in Nodes, NEW u, Known(b, u),
           \A c \in Nodes : Wired(c) \/ c = b =>
               /\ (Wired(c) => Wired(c)') /\ doc[c] \subseteq doc'[c]
               /\ net'[c] = net[c] \/ \E m \in Message : net'[c] = net[c] \o <<m>>
    PROVE  Known(b, u)'
  <1>1. CASE u \in doc[b]
    BY <1>1 DEF Known
  <1>2. CASE Carried(net[b], u)
    <2>1. Carried(net'[b], u)
      BY <1>2, CarriedLonger, QueueOf
    <2> QED  BY <2>1 DEF Known
  <1>3. ASSUME NEW c \in Nodes, Wired(c), Answers(net[c], doc[c], u)
        PROVE  Known(b, u)'
    <2>1. net[c] \in Seq(Message) /\ doc[c] \subseteq doc'[c] /\ Wired(c)'
      BY <1>3, QueueOf
    <2>2. \A m \in Message : Answers(net[c], doc'[c], u) /\ Answers(net[c] \o <<m>>, doc'[c], u)
      BY <1>3, <2>1, AnswersLonger
    <2>3. StateRequest \in Message
      BY MessageTypes
    <2>4. Answers(net'[c], doc'[c], u)
      BY <1>3, <2>2, <2>3
    <2> QED  BY <2>1, <2>4 DEF Known
  <1> QED  BY <1>1, <1>2, <1>3 DEF Known

\* What a step adds to the log, some room that stays has.
Backed == ~missed' => \A u \in stored' : u \in stored \/ \E a \in Nodes : Wired(a) /\ u \in doc[a]

\* A room that is loaded keeps what is said of it when the other rooms grow.
LEMMA LoadKept ==
    ASSUME NEW b \in Nodes, LoadAt(b), missed => missed', stored \subseteq stored', Backed,
           phase'[b] = "loaded" => phase[b] = "loaded" /\ doc'[b] = doc[b],
           \A a \in Nodes : Wired(a) => Wired(a)' /\ doc[a] \subseteq doc'[a]
    PROVE  LoadAt(b)'
  BY DEF LoadAt, Backed

\* A step that changes no room's document and sends no update.
LEMMA KnownCalm ==
    ASSUME TypeOK, AgreeInv, NEW b \in Nodes, missed => missed', Backed,
           \A c \in Nodes : /\ Wired(c)' <=> Wired(c)
                            /\ Wired(c) => doc'[c] = doc[c]
                            /\ net'[c] = net[c] \/ \E m \in SavedMessage : net'[c] = net[c] \o <<m>>
    PROVE  KnownAt(b)'
  <1> SUFFICES ASSUME ~missed', Wired(b)'
               PROVE  /\ \A u \in stored' : Known(b, u)'
                      /\ \A a \in Nodes : Wired(a)' => \A u \in doc'[a] : Known(b, u)'
                      /\ \A a \in Nodes, u \in Updates :
                             Carried(net'[a], u) => Known(b, u)' \/ Answers(net'[a], {}, u)
    BY DEF KnownAt
  <1>1. KnownAt(b) /\ ~missed /\ Wired(b)
    BY DEF AgreeInv
  <1>2. \A u : Known(b, u) => Known(b, u)'
    <2>1. SavedMessage \subseteq Message
      BY DEF Message
    <2> SUFFICES ASSUME NEW u, Known(b, u) PROVE Known(b, u)'
      OBVIOUS
    <2>2. \A c \in Nodes : Wired(c) \/ c = b =>
               /\ (Wired(c) => Wired(c)') /\ doc[c] \subseteq doc'[c]
               /\ net'[c] = net[c] \/ \E m \in Message : net'[c] = net[c] \o <<m>>
      BY <1>1, <2>1
    <2> QED  BY <2>2, KnownGrows
  <1>3. \A u \in stored' : Known(b, u)
    BY <1>1 DEF KnownAt, Backed
  <1>4. \A a \in Nodes : Wired(a)' => \A u \in doc'[a] : Known(b, u)
    BY <1>1 DEF KnownAt
  <1>5. ASSUME NEW a \in Nodes, NEW u \in Updates, Carried(net'[a], u)
        PROVE  Known(b, u) \/ Answers(net'[a], {}, u)
    <2>1. CASE net'[a] = net[a]
      BY <1>1, <1>5, <2>1 DEF KnownAt
    <2>2. ASSUME NEW m \in SavedMessage, net'[a] = net[a] \o <<m>>
          PROVE  Known(b, u) \/ Answers(net'[a], {}, u)
      <3>1. m \in Message /\ ~Brings(m, u) /\ net[a] \in Seq(Message)
        BY QueueOf DEF Message, SavedMessage, Brings
      <3>2. Carried(net[a], u)
        BY <1>5, <2>2, <3>1, CarriedLonger
      <3>3. Known(b, u) \/ Answers(net[a], {}, u)
        BY <1>1, <3>2 DEF KnownAt
      <3> QED  BY <2>2, <3>1, <3>3, AnswersLonger
    <2> QED  BY <2>1, <2>2
  <1> QED  BY <1>2, <1>3, <1>4, <1>5

LEMMA LiveKept ==
    ASSUME NEW n \in Nodes, LiveAt(n), phase'[n] = "closed" => net'[n] = <<>>,
           Wired(n) => Wired(n)' /\ doc[n] \subseteq doc'[n],
           \A i \in DOMAIN queue'[n] : queue'[n][i].live =>
               \/ Wired(n)' /\ queue'[n][i].updates \subseteq doc'[n]
               \/ \E j \in DOMAIN queue[n] : /\ queue[n][j].live
                                             /\ queue[n][j].updates = queue'[n][i].updates
    PROVE  LiveAt(n)'
  BY DEF LiveAt

LEMMA AgreeCalm ==
    ASSUME TypeOK, AgreeInv, missed => missed', stored \subseteq stored', Backed,
           \A c \in Nodes :
               /\ Wired(c)' <=> Wired(c)
               /\ Wired(c) => doc'[c] = doc[c]
               /\ net'[c] = net[c] \/ \E m \in SavedMessage : net'[c] = net[c] \o <<m>>
               /\ LoadAt(c)' \/ (phase'[c] = "loaded" => phase[c] = "loaded" /\ doc'[c] = doc[c])
               /\ LiveAt(c)'
    PROVE  AgreeInv'
  <1> SUFFICES ASSUME NEW b \in Nodes PROVE LiveAt(b)' /\ LoadAt(b)' /\ KnownAt(b)'
    BY DEF AgreeInv
  <1>1. KnownAt(b)'
    BY KnownCalm
  <1>2. LoadAt(b)'
    BY LoadKept DEF AgreeInv
  <1> QED  BY <1>1, <1>2

\* A message that is published comes to the rooms that are not closed.
LEMMA Published ==
    ASSUME TypeOK, NEW n \in Nodes, NEW m, Publish(n, <<m>>)
    PROVE  /\ \A c \in Nodes : net'[c] = net[c] \/ net'[c] = net[c] \o <<m>>
           /\ \A c \in Nodes : c = n \/ phase[c] = "closed" => net'[c] = net[c]
           /\ \A c \in Nodes \ {n} : phase[c] # "closed" => net'[c] = net[c] \o <<m>>
  BY DEF Publish, Receivers, Subscribed, TypeOK

LEMMA AgreeBeginOpen ==
    ASSUME TypeOK, AgreeInv, NEW n \in Nodes, BeginOpen(n)
    PROVE  AgreeInv'
  <1>1. /\ UNCHANGED <<stored, net, doc, queue, missed>>
        /\ phase[n] = "closed" /\ phase'[n] = "subscribed"
        /\ \A c \in Nodes \ {n} : phase'[c] = phase[c]
    BY DEF BeginOpen, durable, history, TypeOK
  <1>2. \A c \in Nodes : LiveAt(c)'
    BY <1>1 DEF AgreeInv, LiveAt, Wired
  <1>3. \A c \in Nodes : /\ Wired(c)' <=> Wired(c)
                         /\ phase'[c] = "loaded" => phase[c] = "loaded"
    BY <1>1 DEF Wired
  <1> QED  BY <1>1, <1>2, <1>3, AgreeCalm DEF Backed

LEMMA AgreeLoadBoard ==
    ASSUME TypeOK, AgreeInv, NEW n \in Nodes, LoadBoard(n)
    PROVE  AgreeInv'
  <1>1. /\ UNCHANGED <<stored, net, queue, missed>> /\ doc'[n] = stored
        /\ phase[n] = "subscribed" /\ phase'[n] = "loaded"
        /\ \A c \in Nodes \ {n} : phase'[c] = phase[c] /\ doc'[c] = doc[c]
    BY DEF LoadBoard, durable, history, TypeOK
  <1>2. \A c \in Nodes : LiveAt(c)'
    BY <1>1 DEF AgreeInv, LiveAt, Wired
  <1>3. \A c \in Nodes : /\ Wired(c)' <=> Wired(c)
                         /\ Wired(c) => doc'[c] = doc[c]
    BY <1>1 DEF Wired
  <1>4. LoadAt(n)'
    BY <1>1 DEF LoadAt
  <1> QED  BY <1>1, <1>2, <1>3, <1>4, AgreeCalm DEF Backed

LEMMA AgreeQuiet ==
    ASSUME TypeOK, AgreeInv, Expire \/ UNCHANGED vars \/ \E n \in Nodes : LockCall(n)
    PROVE  AgreeInv'
  <1>1. UNCHANGED <<stored, net, phase, doc, queue, missed>>
    BY DEF Expire, LockCall, durable, room, vars
  <1>2. \A c \in Nodes : LiveAt(c)' /\ (Wired(c)' <=> Wired(c))
    BY <1>1 DEF AgreeInv, LiveAt, Wired
  <1> QED  BY <1>1, <1>2, AgreeCalm DEF Backed

\* A lock answer comes to a room that asked, and that room writes what it has.
LEMMA AgreeLockReply ==
    ASSUME TypeOK, RoomsInv, AgreeInv, NEW n \in Nodes, LockReply(n)
    PROVE  AgreeInv'
  <1>1. /\ UNCHANGED <<stored, net, doc, missed>>
        /\ \A c \in Nodes \ {n} : queue'[c] = queue[c]
    BY DEF LockReply, durable, TypeOK
  <1>2. /\ call[n].live => Wired(n) /\ phase'[n] = "open"
        /\ ~call[n].live => phase'[n] = phase[n]
        /\ \A c \in Nodes \ {n} : phase'[c] = phase[c]
    BY DEF LockReply, RoomsInv, CallInv, Wired, TypeOK
  <1>3. \A c \in Nodes : /\ Wired(c)' <=> Wired(c)
                         /\ phase'[c] = "loaded" => phase[c] = "loaded"
                         /\ phase'[c] = "closed" => phase[c] = "closed"
    BY <1>2 DEF Wired
  <1> DEFINE written == [Entered(IF call[n].live THEN doc[n] ELSE call[n].doc)
                             EXCEPT !.live = call[n].live]
  <1>4. /\ written \in Entry /\ written.live = call[n].live
        /\ call[n].live => written.updates = doc[n]
    <2>1. call[n].doc \in SUBSET Updates /\ call[n].live \in BOOLEAN /\ doc[n] \in SUBSET Updates
      BY DEF TypeOK, Call
    <2> QED  BY <2>1 DEF Entered, Entry
  <1> HIDE DEF written
  <1>5. /\ CatchUp(n) => queue' = [queue EXCEPT ![n] = Append(@, written)]
        /\ ~CatchUp(n) => queue'[n] = queue[n]
    BY DEF LockReply, TypeOK, written
  <1>6. \A i \in DOMAIN queue'[n] :
            (i \in DOMAIN queue[n] /\ queue'[n][i] = queue[n][i]) \/ queue'[n][i] = written
    BY <1>4, <1>5, Appended
  <1>7. LiveAt(n)'
    BY <1>1, <1>2, <1>3, <1>4, <1>6, LiveKept DEF AgreeInv, LiveAt
  <1>8. \A c \in Nodes : LiveAt(c)'
    BY <1>1, <1>2, <1>7 DEF AgreeInv, LiveAt, Wired
  <1> QED  BY <1>1, <1>3, <1>8, AgreeCalm DEF Backed

LEMMA AgreeWriting ==
    ASSUME TypeOK, AgreeInv, NEW n \in Nodes, Writing(n)
    PROVE  AgreeInv'
  <1>1. /\ UNCHANGED <<phase, doc>> /\ stored \subseteq stored' /\ queue[n] # <<>>
        /\ missed => missed'
        /\ \A c \in Nodes \ {n} : queue'[c] = queue[c]
    BY DEF Writing, AppendInsert, AppendReturn, AppendFails, durable, room, history, TypeOK
  <1>2. /\ \A c \in Nodes : Wired(c)' <=> Wired(c)
        /\ LiveAt(n)
    BY <1>1 DEF Wired, AgreeInv
  <1>3. /\ \A c \in Nodes : net'[c] = net[c] \/ \E m \in SavedMessage : net'[c] = net[c] \o <<m>>
        /\ \A c \in Nodes : phase[c] = "closed" => net'[c] = net[c]
    <2>1. CASE AppendReturn(n)
      <3> DEFINE saved == IF Head(queue[n]).live THEN SeqAfterAppend(n) ELSE Head(queue[n]).seq
                 m == [kind |-> "saved", seq |-> saved]
      <3>1. saved \in Nat
        BY <1>1, HeadTypes DEF SeqAfterAppend, Newer, Entry, TypeOK
      <3>2. m \in SavedMessage
        BY <3>1 DEF SavedMessage
      <3>3. Publish(n, <<m>>)
        BY <2>1 DEF AppendReturn
      <3> HIDE DEF m
      <3> QED  BY <3>2, <3>3, Published
    <2>2. CASE AppendInsert(n) \/ AppendFails(n)
      BY <2>2 DEF AppendInsert, AppendFails
    <2> QED  BY <2>1, <2>2 DEF Writing
  <1>4. Backed /\ LiveAt(n)'
    <2>1. CASE AppendInsert(n)
      <3>1. /\ DOMAIN queue'[n] = DOMAIN queue[n]
            /\ \A i \in DOMAIN queue[n] :
                   /\ queue'[n][i].updates = queue[n][i].updates
                   /\ queue'[n][i].live = queue[n][i].live
        <4>1. queue'[n] = [queue[n] EXCEPT ![1] = [queue[n][1] EXCEPT !.seq = lastSeq + 1]]
          BY <2>1 DEF AppendInsert, TypeOK
        <4>2. queue[n][1] \in Entry
          BY <1>1, HeadTypes
        <4>3. DOMAIN queue[n] = 1 .. Len(queue[n])
          BY LenProperties DEF TypeOK
        <4> QED  BY <4>1, <4>2, <4>3 DEF Entry
      <3>2. LiveAt(n)'
        BY <1>1, <1>2, <1>3, <3>1, LiveKept DEF LiveAt
      <3>3. /\ stored' = stored \cup queue[n][1].updates /\ 1 \in DOMAIN queue[n]
            /\ ~missed' => queue[n][1].live
        BY <1>1, <2>1, HeadTypes DEF AppendInsert
      <3>4. Backed
        BY <1>2, <3>3 DEF Backed, LiveAt
      <3> QED  BY <3>2, <3>4
    <2>2. CASE AppendReturn(n) \/ AppendFails(n)
      <3>1. queue' = [queue EXCEPT ![n] = Tail(@)] /\ stored' = stored
        BY <2>2 DEF AppendReturn, AppendFails, durable
      <3>2. \A i \in DOMAIN queue'[n] : i + 1 \in DOMAIN queue[n] /\ queue'[n][i] = queue[n][i + 1]
        BY <1>1, <3>1, Dequeued
      <3>3. LiveAt(n)'
        BY <1>1, <1>2, <1>3, <3>2, LiveKept DEF LiveAt
      <3> QED  BY <3>1, <3>3 DEF Backed
    <2> QED  BY <2>1, <2>2 DEF Writing
  <1>5. \A c \in Nodes : LiveAt(c)'
    BY <1>1, <1>2, <1>3, <1>4 DEF AgreeInv, LiveAt
  <1> QED  BY <1>1, <1>2, <1>3, <1>4, <1>5, AgreeCalm

\* A room that lost what was for it cannot be believed any more.
LEMMA AgreeLoseMessage ==
    ASSUME TypeOK, AgreeInv, NEW n \in Nodes, LoseMessage(n)
    PROVE  AgreeInv'
  <1>1. /\ UNCHANGED <<stored, phase, doc, queue>> /\ missed' /\ net[n] # <<>>
        /\ \A c \in Nodes \ {n} : net'[c] = net[c]
    BY DEF LoseMessage, durable, room, TypeOK
  <1> QED  BY <1>1 DEF AgreeInv, LiveAt, LoadAt, KnownAt, Wired

\* A room that opens has what was stored, or asks a room that has it.
LEMMA AgreeOpenRoom ==
    ASSUME TypeOK, AgreeInv, NEW n \in Nodes, OpenRoom(n)
    PROVE  AgreeInv'
  <1>1. /\ UNCHANGED <<stored, doc, queue, missed>>
        /\ phase[n] = "loaded" /\ phase'[n] = "claiming"
        /\ \A c \in Nodes \ {n} : phase'[c] = phase[c]
        /\ Publish(n, <<StateRequest>>)
    BY DEF OpenRoom, Asks, durable, history, TypeOK
  <1>2. /\ \A c \in Nodes : net'[c] = net[c] \/ net'[c] = net[c] \o <<StateRequest>>
        /\ \A c \in Nodes : c = n \/ phase[c] = "closed" => net'[c] = net[c]
        /\ \A c \in Nodes \ {n} : phase[c] # "closed" => net'[c] = net[c] \o <<StateRequest>>
    BY <1>1, Published
  <1>3. /\ StateRequest \in Message /\ \A u : ~Brings(StateRequest, u)
    BY MessageTypes DEF StateRequest, Brings
  <1>4. /\ ~Wired(n) /\ Wired(n)'
        /\ \A c \in Nodes : Wired(c) => Wired(c)'
        /\ \A c \in Nodes \ {n} : Wired(c)' => Wired(c)
    BY <1>1 DEF Wired
  <1>5. \A b \in Nodes : \A u : Known(b, u) => Known(b, u)'
    <2> SUFFICES ASSUME NEW b \in Nodes, NEW u, Known(b, u) PROVE Known(b, u)'
      OBVIOUS
    <2>1. \A c \in Nodes : /\ (Wired(c) => Wired(c)') /\ doc[c] \subseteq doc'[c]
                           /\ net'[c] = net[c] \/ \E m \in Message : net'[c] = net[c] \o <<m>>
      BY <1>1, <1>2, <1>3, <1>4
    <2> QED  BY <2>1, KnownGrows
  <1>6. \A c \in Nodes, u \in Updates : Carried(net'[c], u) => Carried(net[c], u)
    <2> SUFFICES ASSUME NEW c \in Nodes, NEW u \in Updates, Carried(net'[c], u)
                 PROVE  Carried(net[c], u)
      OBVIOUS
    <2>1. net[c] \in Seq(Message)
      BY QueueOf
    <2>2. Carried(net[c] \o <<StateRequest>>, u) <=> Carried(net[c], u)
      BY <1>3, <2>1, CarriedLonger
    <2> QED  BY <1>2, <2>2
  <1>7. ASSUME NEW b \in Nodes
        PROVE  KnownAt(b)'
    <2> SUFFICES ASSUME ~missed, Wired(b)'
                 PROVE  /\ \A u \in stored : Known(b, u)'
                        /\ \A a \in Nodes : Wired(a)' => \A u \in doc[a] : Known(b, u)'
                        /\ \A a \in Nodes, u \in Updates :
                               Carried(net'[a], u) => Known(b, u)' \/ Answers(net'[a], {}, u)
      BY <1>1 DEF KnownAt
    <2>1. CASE b = n
      <3>1. ASSUME NEW a \in Nodes, Wired(a), NEW u \in doc[a]
            PROVE  Known(n, u)'
        <4>1. net'[a] = net[a] \o <<StateRequest>> /\ net[a] \in Seq(Message)
          BY <1>2, <1>4, <3>1, QueueOf DEF Wired
        <4>2. Answers(net'[a], doc'[a], u)
          BY <1>1, <3>1, <4>1, AnswersRequest
        <4> QED  BY <1>4, <3>1, <4>2 DEF Known
      <3>2. \A u \in doc[n] : Known(n, u)'
        BY <1>1 DEF Known
      <3>3. \A u \in stored : Known(n, u)'
        BY <1>1, <3>1, <3>2 DEF AgreeInv, LoadAt
      <3>4. \A a \in Nodes : Wired(a)' => \A u \in doc[a] : Known(n, u)'
        BY <1>4, <3>1, <3>2
      <3>5. ASSUME NEW a \in Nodes, NEW u \in Updates, Carried(net'[a], u)
            PROVE  Known(n, u)' \/ Answers(net'[a], {}, u)
        <4>1. CASE a = n
          BY <3>5, <4>1 DEF Known
        <4>2. CASE a # n /\ phase[a] # "closed"
          BY <1>2, <1>6, <3>5, <4>2, AnswersRequest, QueueOf
        <4>3. CASE phase[a] = "closed"
          BY <1>2, <3>5, <4>3 DEF AgreeInv, LiveAt, Carried
        <4> QED  BY <4>1, <4>2, <4>3
      <3> QED  BY <2>1, <3>3, <3>4, <3>5
    <2>2. CASE b # n
      <3>1. Wired(b) /\ KnownAt(b)
        BY <1>4, <2>2 DEF AgreeInv
      <3>2. \A u \in stored : Known(b, u)'
        BY <1>5, <3>1 DEF KnownAt
      <3>3. \A a \in Nodes : Wired(a)' => \A u \in doc[a] : Known(b, u)'
        BY <1>1, <1>4, <1>5, <3>1, <3>2 DEF KnownAt, AgreeInv, LoadAt
      <3>4. ASSUME NEW a \in Nodes, NEW u \in Updates, Carried(net'[a], u)
            PROVE  Known(b, u)' \/ Answers(net'[a], {}, u)
        <4>1. Known(b, u) \/ Answers(net[a], {}, u)
          BY <1>6, <3>1, <3>4 DEF KnownAt
        <4>2. Answers(net[a], {}, u) => Answers(net'[a], {}, u)
          <5>1. net[a] \in Seq(Message)
            BY QueueOf
          <5>2. Answers(net[a], {}, u) => Answers(net[a] \o <<StateRequest>>, {}, u)
            BY <1>3, <5>1, AnswersLonger
          <5> QED  BY <1>2, <5>2
        <4> QED  BY <1>5, <4>1, <4>2
      <3> QED  BY <3>2, <3>3, <3>4
    <2> QED  BY <2>1, <2>2
  <1>8. ASSUME NEW b \in Nodes
        PROVE  LoadAt(b)'
    BY <1>1, <1>4, LoadKept DEF AgreeInv, Backed
  <1>9. ASSUME NEW b \in Nodes
        PROVE  LiveAt(b)'
    BY <1>1, <1>2, <1>4 DEF AgreeInv, LiveAt
  <1> QED  BY <1>7, <1>8, <1>9 DEF AgreeInv

\* A room that others ask is open, so that one which ends while nobody asks it, or
\* before it was open, takes no answer with it.
LEMMA KnownWithout ==
    ASSUME TypeOK, AgreeInv, NEW n \in Nodes, missed => missed', stored' = stored,
           ~Wired(n)', net'[n] = <<>>,
           ~missed' => ~Wired(n) \/ ~Asked(n),
           \A c \in Nodes \ {n} : phase'[c] = phase[c] /\ doc'[c] = doc[c] /\ net'[c] = net[c],
           NEW b \in Nodes
    PROVE  KnownAt(b)'
  <1> SUFFICES ASSUME ~missed', Wired(b)'
               PROVE  /\ \A u \in stored' : Known(b, u)'
                      /\ \A a \in Nodes : Wired(a)' => \A u \in doc'[a] : Known(b, u)'
                      /\ \A a \in Nodes, u \in Updates :
                             Carried(net'[a], u) => Known(b, u)' \/ Answers(net'[a], {}, u)
    BY DEF KnownAt
  <1>1. /\ b # n /\ ~missed /\ Wired(b) /\ KnownAt(b)
        /\ \A c \in Nodes \ {n} : Wired(c)' <=> Wired(c)
    BY DEF AgreeInv, Wired
  <1>2. \A u : Known(b, u) => Known(b, u)'
    <2>1. \A u : Answers(net[n], doc[n], u) => Asked(n)
      BY DEF Answers, Asked
    <2> QED  BY <1>1, <2>1 DEF Known
  <1>3. \A u : ~Carried(net'[n], u)
    BY DEF Carried
  <1> QED  BY <1>1, <1>2, <1>3 DEF KnownAt

LEMMA AgreeOpenFails ==
    ASSUME TypeOK, AgreeInv, NEW n \in Nodes, OpenFails(n)
    PROVE  AgreeInv'
  <1>1. /\ UNCHANGED <<stored, queue, missed>> /\ net'[n] = <<>> /\ doc'[n] = {}
        /\ phase[n] \in {"subscribed", "loaded"} /\ phase'[n] = "closed"
        /\ \A c \in Nodes \ {n} : phase'[c] = phase[c] /\ doc'[c] = doc[c] /\ net'[c] = net[c]
    BY DEF OpenFails, durable, history, TypeOK
  <1>2. ~Wired(n) /\ ~Wired(n)' /\ \A c \in Nodes \ {n} : Wired(c)' <=> Wired(c)
    BY <1>1 DEF Wired
  <1>3. \A b \in Nodes : KnownAt(b)'
    BY <1>1, <1>2, KnownWithout
  <1>4. \A b \in Nodes : LiveAt(b)'
    BY <1>1, <1>2 DEF AgreeInv, LiveAt
  <1>5. \A b \in Nodes : LoadAt(b)'
    BY <1>1, <1>2, LoadKept DEF AgreeInv, Backed
  <1> QED  BY <1>3, <1>4, <1>5 DEF AgreeInv

LEMMA AgreeEnding ==
    ASSUME TypeOK, AgreeInv, NEW n \in Nodes, Ending(n)
    PROVE  AgreeInv'
  <1>1. stored' = stored /\ Forget(n)
    BY DEF Ending, Evict, Crash, durable
  <1>2. /\ phase'[n] = "closed" /\ net'[n] = <<>>
        /\ missed' <=> missed \/ Asked(n) \/ \E m \in Nodes : phase[m] = "loaded"
        /\ \A c \in Nodes \ {n} : phase'[c] = phase[c] /\ doc'[c] = doc[c] /\ net'[c] = net[c]
        /\ \A c \in Nodes \ {n} : queue'[c] = queue[c]
    <2>1. \A c \in Nodes \ {n} : queue'[c] = queue[c]
      BY DEF Ending, Evict, Crash, TypeOK
    <2> QED  BY <1>1, <2>1 DEF Forget, TypeOK
  <1>3. ~Wired(n)' /\ \A c \in Nodes \ {n} : Wired(c)' <=> Wired(c)
    BY <1>2 DEF Wired
  <1>4. \A b \in Nodes : KnownAt(b)'
    BY <1>1, <1>2, <1>3, KnownWithout
  <1>5. \A b \in Nodes : LoadAt(b)'
    BY <1>1, <1>2 DEF AgreeInv, LoadAt
  <1>6. \A i \in DOMAIN queue'[n] : ~queue'[n][i].live
    <2>1. CASE Evict(n)
      <3>1. queue'[n] = [i \in DOMAIN queue[n] |-> Orphaned(n, queue[n][i])]
        BY <2>1 DEF Evict, TypeOK
      <3>2. \A i \in DOMAIN queue[n] : queue[n][i] \in Entry
        BY QueueOf, ElementOfSeq, LenProperties
      <3>3. \A e \in Entry : ~Orphaned(n, e).live
        BY DEF Orphaned, Entry
      <3> QED  BY <3>1, <3>2, <3>3
    <2>2. CASE Crash(n)
      BY <2>2 DEF Crash, TypeOK
    <2> QED  BY <2>1, <2>2 DEF Ending
  <1>7. \A b \in Nodes : LiveAt(b)'
    BY <1>2, <1>3, <1>6 DEF AgreeInv, LiveAt
  <1> QED  BY <1>4, <1>5, <1>7 DEF AgreeInv

\* What is written came into the document before.
LEMMA WrittenLive ==
    ASSUME TypeOK, AgreeInv, NEW n \in Nodes, NEW new \in SUBSET Updates, Written(n, new),
           Wired(n), phase' = phase, doc[n] \subseteq doc'[n], new \subseteq doc'[n],
           \A c \in Nodes \ {n} : doc'[c] = doc[c],
           \A c \in Nodes : phase[c] = "closed" => net'[c] = net[c],
           NEW b \in Nodes
    PROVE  LiveAt(b)'
  <1>1. \A c \in Nodes : Wired(c)' <=> Wired(c)
    BY DEF Wired
  <1>2. CASE b = n
    <2> DEFINE e == Entered(new)
    <2>1. e \in Entry /\ e.updates = new
      BY EntryTypes, EnteredIsNew
    <2>2. queue' = queue \/ queue' = [queue EXCEPT ![n] = Append(@, e)]
      BY DEF Written
    <2> HIDE DEF e
    <2>3. \A i \in DOMAIN queue'[n] :
              (i \in DOMAIN queue[n] /\ queue'[n][i] = queue[n][i]) \/ queue'[n][i] = e
      BY <2>1, <2>2, Appended
    <2>4. LiveAt(n)
      BY DEF AgreeInv
    <2> QED  BY <1>1, <1>2, <2>1, <2>3, <2>4, LiveKept DEF LiveAt
  <1>3. CASE b # n
    <2>1. queue'[b] = queue[b]
      BY <1>3 DEF Written, TypeOK
    <2> QED  BY <1>1, <1>3, <2>1 DEF AgreeInv, LiveAt
  <1> QED  BY <1>2, <1>3

LEMMA AgreeClientUpdate ==
    ASSUME TypeOK, AgreeInv, NEW n \in Nodes, NEW new \in Updates, ClientUpdate(n, new)
    PROVE  AgreeInv'
  <1> DEFINE m == Carrying({new})
  <1>1. /\ UNCHANGED <<stored, phase, missed>> /\ Wired(n) /\ Written(n, {new})
        /\ doc'[n] = doc[n] \cup {new} /\ \A c \in Nodes \ {n} : doc'[c] = doc[c]
        /\ Publish(n, <<m>>)
    BY DEF ClientUpdate, Wired, durable, history, TypeOK
  <1>2. m \in Message /\ \A u : Brings(m, u) <=> u = new
    BY MessageTypes DEF Brings, Carrying
  <1> HIDE DEF m
  <1>3. /\ \A c \in Nodes : net'[c] = net[c] \/ net'[c] = net[c] \o <<m>>
        /\ \A c \in Nodes : c = n \/ phase[c] = "closed" => net'[c] = net[c]
        /\ \A c \in Nodes \ {n} : phase[c] # "closed" => net'[c] = net[c] \o <<m>>
    BY <1>1, Published
  <1>4. \A c \in Nodes : (Wired(c)' <=> Wired(c)) /\ doc[c] \subseteq doc'[c]
    BY <1>1 DEF Wired
  <1>5. \A b \in Nodes : \A u : Known(b, u) => Known(b, u)'
    <2> SUFFICES ASSUME NEW b \in Nodes, NEW u, Known(b, u) PROVE Known(b, u)'
      OBVIOUS
    <2>1. \A c \in Nodes : /\ (Wired(c) => Wired(c)') /\ doc[c] \subseteq doc'[c]
                           /\ net'[c] = net[c] \/ \E k \in Message : net'[c] = net[c] \o <<k>>
      BY <1>2, <1>3, <1>4
    <2> QED  BY <2>1, KnownGrows
  <1>6. \A b \in Nodes : Wired(b) => Known(b, new)'
    <2> SUFFICES ASSUME NEW b \in Nodes, Wired(b) PROVE Known(b, new)'
      OBVIOUS
    <2>1. CASE b = n
      BY <1>1, <2>1 DEF Known
    <2>2. CASE b # n
      <3>1. net'[b] = net[b] \o <<m>> /\ net[b] \in Seq(Message)
        BY <1>3, <2>2, QueueOf DEF Wired
      <3>2. Carried(net'[b], new)
        BY <1>2, <3>1, CarriedLonger
      <3> QED  BY <3>2 DEF Known
    <2> QED  BY <2>1, <2>2
  <1>7. ASSUME NEW b \in Nodes
        PROVE  KnownAt(b)'
    <2> SUFFICES ASSUME ~missed, Wired(b)
                 PROVE  /\ \A u \in stored : Known(b, u)'
                        /\ \A a \in Nodes : Wired(a) => \A u \in doc'[a] : Known(b, u)'
                        /\ \A a \in Nodes, u \in Updates :
                               Carried(net'[a], u) => Known(b, u)' \/ Answers(net'[a], {}, u)
      BY <1>1, <1>4 DEF KnownAt
    <2>1. KnownAt(b)
      BY DEF AgreeInv
    <2>2. \A u \in stored : Known(b, u)'
      BY <1>5, <2>1 DEF KnownAt
    <2>3. \A a \in Nodes : Wired(a) => \A u \in doc'[a] : Known(b, u)'
      BY <1>1, <1>5, <1>6, <2>1 DEF KnownAt
    <2>4. ASSUME NEW a \in Nodes, NEW u \in Updates, Carried(net'[a], u)
          PROVE  Known(b, u)' \/ Answers(net'[a], {}, u)
      <3>0. net[a] \in Seq(Message)
        BY QueueOf
      <3>1. Carried(net[a] \o <<m>>, u) <=> Carried(net[a], u) \/ u = new
        BY <1>2, <3>0, CarriedLonger
      <3>2. Answers(net[a], {}, u) => Answers(net[a] \o <<m>>, {}, u)
        BY <1>2, <3>0, AnswersLonger
      <3>3. CASE u = new
        BY <1>6, <3>3
      <3>4. CASE Carried(net[a], u)
        <4>1. Known(b, u) \/ Answers(net[a], {}, u)
          BY <2>1, <3>4 DEF KnownAt
        <4> QED  BY <1>3, <1>5, <3>2, <4>1
      <3> QED  BY <1>3, <2>4, <3>1, <3>3, <3>4
    <2> QED  BY <2>2, <2>3, <2>4
  <1>8. ASSUME NEW b \in Nodes
        PROVE  LoadAt(b)'
    <2>1. phase[b] = "loaded" => doc'[b] = doc[b]
      BY <1>1 DEF Wired
    <2> QED  BY <1>1, <1>4, <2>1, LoadKept DEF AgreeInv, Backed
  <1>9. ASSUME NEW b \in Nodes
        PROVE  LiveAt(b)'
    <2>1. {new} \in SUBSET Updates
      OBVIOUS
    <2> QED  BY <1>1, <1>3, <1>4, <2>1, WrittenLive
  <1> QED  BY <1>7, <1>8, <1>9 DEF AgreeInv

\* A room takes what the first message brings, and answers it if it is a request.
LEMMA Handled ==
    ASSUME TypeOK, AgreeInv, NEW n \in Nodes, HandleBus(n)
    PROVE  /\ UNCHANGED <<stored, phase, missed>> /\ Wired(n) /\ net[n] # <<>>
           /\ net'[n] = Tail(net[n])
           /\ \A u : u \in doc'[n] <=> u \in doc[n] \/ Brings(Head(net[n]), u)
           /\ \A c \in Nodes \ {n} :
                  /\ doc'[c] = doc[c]
                  /\ net'[c] = net[c] \/ net'[c] = net[c] \o <<Carrying(doc[n])>>
                  /\ phase[c] # "closed" /\ Head(net[n]) = StateRequest =>
                         net'[c] = net[c] \o <<Carrying(doc[n])>>
           /\ \A b \in Nodes : LiveAt(b)'
  <1> DEFINE m == Head(net[n])
  <1>1. Wired(n) /\ net[n] # <<>>
    BY DEF HandleBus
  <1>2. \A c \in Nodes : net[c] \o <<>> = net[c]
    BY QueueOf, ConcatEmptySeq
  <1>3. CASE HandleUpdate(n, m)
    <2> DEFINE new == m.updates \ doc[n]
    <2>1. /\ UNCHANGED <<stored, phase, missed>> /\ Written(n, new) /\ m.kind = "update"
          /\ doc' = [doc EXCEPT ![n] = @ \cup new] /\ Exchange(n, <<>>)
      BY <1>3 DEF HandleUpdate, WrittenFromBus, durable
    <2>2. new \in SUBSET Updates /\ m # StateRequest
      BY <1>1, <2>1, BusHead DEF StateRequest
    <2>3. net'[n] = Tail(net[n]) /\ \A c \in Nodes \ {n} : net'[c] = net[c]
      BY <1>2, <2>1 DEF Exchange
    <2>4. /\ \A u : u \in doc'[n] <=> u \in doc[n] \/ Brings(m, u)
          /\ \A c \in Nodes \ {n} : doc'[c] = doc[c]
      BY <2>1 DEF Brings, TypeOK
    <2>5. doc[n] \subseteq doc'[n] /\ new \subseteq doc'[n]
      BY <2>1 DEF TypeOK
    <2>6. \A c \in Nodes : phase[c] = "closed" => net'[c] = net[c]
      BY <1>1, <2>3 DEF Wired
    <2> HIDE DEF new, m
    <2>7. \A b \in Nodes : LiveAt(b)'
      BY <1>1, <2>1, <2>2, <2>4, <2>5, <2>6, WrittenLive
    <2> QED  BY <1>1, <2>1, <2>2, <2>3, <2>4, <2>7 DEF m
  <1>4. CASE HandleSaved(n, m)
    <2>1. /\ UNCHANGED <<stored, phase, doc, queue, missed>> /\ m.kind = "saved"
          /\ Exchange(n, <<>>)
      BY <1>4 DEF HandleSaved, durable, history
    <2>2. m # StateRequest /\ \A u : ~Brings(m, u)
      BY <2>1 DEF StateRequest, Brings
    <2>3. net'[n] = Tail(net[n]) /\ \A c \in Nodes \ {n} : net'[c] = net[c]
      BY <1>2, <2>1 DEF Exchange
    <2>4. \A b \in Nodes : LiveAt(b)'
      BY <1>1, <2>1, <2>3 DEF AgreeInv, LiveAt, Wired
    <2> QED  BY <1>1, <2>1, <2>2, <2>3, <2>4
  <1>5. CASE HandleRequest(n, m)
    <2>1. /\ UNCHANGED <<stored, phase, doc, queue, missed>> /\ m.kind = "request"
          /\ Exchange(n, <<Carrying(doc[n])>>)
      BY <1>5 DEF HandleRequest, durable, room, history
    <2>2. \A u : ~Brings(m, u)
      BY <2>1 DEF Brings
    <2>3. /\ net'[n] = Tail(net[n])
          /\ \A c \in Nodes \ {n} : phase[c] = "closed" => net'[c] = net[c]
          /\ \A c \in Nodes \ {n} : phase[c] # "closed" => net'[c] = net[c] \o <<Carrying(doc[n])>>
      BY <2>1 DEF Exchange, Receivers, Subscribed
    <2>4. \A b \in Nodes : LiveAt(b)'
      BY <1>1, <2>1, <2>3 DEF AgreeInv, LiveAt, Wired
    <2> QED  BY <1>1, <2>1, <2>2, <2>3, <2>4
  <1> QED  BY <1>3, <1>4, <1>5 DEF HandleBus

LEMMA KnownHandled ==
    ASSUME TypeOK, AgreeInv, NEW n \in Nodes, HandleBus(n), NEW b \in Nodes, Wired(b),
           NEW u \in Updates, Known(b, u)
    PROVE  Known(b, u)'
  <1> DEFINE m == Head(net[n])
             answer == Carrying(doc[n])
  <1>1. /\ UNCHANGED phase /\ Wired(n) /\ net[n] # <<>> /\ net'[n] = Tail(net[n])
        /\ u \in doc'[n] <=> u \in doc[n] \/ Brings(m, u)
        /\ doc[n] \subseteq doc'[n]
        /\ \A c \in Nodes \ {n} :
               /\ doc'[c] = doc[c]
               /\ net'[c] = net[c] \/ net'[c] = net[c] \o <<answer>>
               /\ phase[c] # "closed" /\ m = StateRequest => net'[c] = net[c] \o <<answer>>
    BY Handled
  <1>2. /\ answer \in Message /\ (Brings(answer, u) <=> u \in doc[n])
        /\ \A c \in Nodes : net[c] \in Seq(Message)
    BY MessageTypes, QueueOf DEF Carrying, Brings
  <1> HIDE DEF m, answer
  <1>3. \A c \in Nodes : Wired(c)' <=> Wired(c)
    BY <1>1 DEF Wired
  <1>4. CASE u \in doc[b]
    BY <1>1, <1>4 DEF Known
  <1>5. CASE Carried(net[b], u)
    <2>1. CASE b = n
      <3>1. Brings(m, u) \/ Carried(Tail(net[n]), u)
        BY <1>1, <1>2, <1>5, <2>1, CarriedShorter DEF m
      <3> QED  BY <1>1, <2>1, <3>1 DEF Known
    <2>2. CASE b # n
      <3>1. Carried(net[b] \o <<answer>>, u)
        <4>1. net[b] \in Seq(Message) /\ answer \in Message
          BY <1>2
        <4> QED  BY <1>5, <4>1, CarriedLonger, Zenon
      <3> QED  BY <1>1, <1>5, <2>2, <3>1 DEF Known
    <2> QED  BY <2>1, <2>2
  <1>6. ASSUME NEW c \in Nodes, Wired(c), Answers(net[c], doc[c], u)
        PROVE  Known(b, u)'
    <2>1. CASE c # n
      <3>1. Answers(net[c] \o <<answer>>, doc[c], u)
        <4>1. net[c] \in Seq(Message) /\ answer \in Message /\ doc[c] \subseteq doc[c]
          BY <1>2
        <4> QED  BY <1>6, <4>1, AnswersLonger, Zenon
      <3>2. Answers(net'[c], doc'[c], u)
        BY <1>1, <1>6, <2>1, <3>1
      <3> QED  BY <1>3, <1>6, <3>2 DEF Known
    <2>2. CASE c = n
      <3>1. (m = StateRequest /\ u \in doc[n]) \/ Answers(Tail(net[n]), doc'[n], u)
        BY <1>1, <1>2, <1>6, <2>2, AnswersShorter DEF m
      <3>2. CASE m = StateRequest /\ u \in doc[n] /\ b # n
        <4>1. net'[b] = net[b] \o <<answer>>
          BY <1>1, <3>2 DEF Wired
        <4>2. Carried(net'[b], u)
          BY <1>2, <3>2, <4>1, CarriedLonger
        <4> QED  BY <4>2 DEF Known
      <3>3. CASE u \in doc[n] /\ b = n
        BY <1>1, <3>3 DEF Known
      <3>4. CASE Answers(Tail(net[n]), doc'[n], u)
        BY <1>1, <1>3, <3>4 DEF Known
      <3> QED  BY <3>1, <3>2, <3>3, <3>4
    <2> QED  BY <2>1, <2>2
  <1> QED  BY <1>4, <1>5, <1>6 DEF Known

LEMMA AgreeHandleBus ==
    ASSUME TypeOK, AgreeInv, NEW n \in Nodes, HandleBus(n)
    PROVE  AgreeInv'
  <1> DEFINE m == Head(net[n])
             answer == Carrying(doc[n])
  <1>1. /\ UNCHANGED <<stored, phase, missed>> /\ Wired(n) /\ net[n] # <<>>
        /\ net'[n] = Tail(net[n])
        /\ \A u : u \in doc'[n] <=> u \in doc[n] \/ Brings(m, u)
        /\ \A c \in Nodes \ {n} : /\ doc'[c] = doc[c]
                                  /\ net'[c] = net[c] \/ net'[c] = net[c] \o <<answer>>
        /\ \A b \in Nodes : LiveAt(b)'
    BY Handled
  <1>2. /\ answer \in Message /\ \A u : Brings(answer, u) <=> u \in doc[n]
        /\ \A c \in Nodes : net[c] \in Seq(Message) /\ doc[c] \subseteq Updates
        /\ \A u : Brings(m, u) => u \in Updates
    BY <1>1, MessageTypes, QueueOf, BusHead DEF Carrying, Brings
  <1>3. \A u : Brings(m, u) => Carried(net[n], u)
    BY <1>1, <1>2, CarriedShorter DEF m
  <1>4. \A u : Carried(net'[n], u) => Carried(net[n], u)
    BY <1>1, <1>2, CarriedShorter
  <1> HIDE DEF m, answer
  <1>5. \A c \in Nodes : (Wired(c)' <=> Wired(c)) /\ doc[c] \subseteq doc'[c]
    BY <1>1 DEF Wired
  <1>6. ASSUME NEW b \in Nodes
        PROVE  KnownAt(b)'
    <2> SUFFICES ASSUME ~missed, Wired(b)
                 PROVE  /\ \A u \in stored : Known(b, u)'
                        /\ \A a \in Nodes : Wired(a) => \A u \in doc'[a] : Known(b, u)'
                        /\ \A a \in Nodes, u \in Updates :
                               Carried(net'[a], u) => Known(b, u)' \/ Answers(net'[a], {}, u)
      BY <1>1, <1>5 DEF KnownAt
    <2>1. KnownAt(b) /\ stored \subseteq Updates
      BY DEF AgreeInv, TypeOK
    <2>2. \A u \in Updates : Known(b, u) => Known(b, u)'
      BY KnownHandled
    <2>3. ASSUME NEW u \in Updates, Carried(net[n], u)
          PROVE  Known(b, u)
      <3>1. CASE Answers(net[n], {}, u)
        <4>1. StateRequest \in Message
          BY MessageTypes
        <4>2. Answers(net[n], doc[n], u)
          BY <1>2, <3>1, <4>1, AnswersLonger
        <4> QED  BY <1>1, <4>2 DEF Known
      <3> QED  BY <2>1, <2>3, <3>1 DEF KnownAt
    <2>4. \A u \in stored : Known(b, u)'
      BY <2>1, <2>2 DEF KnownAt
    <2>5. \A a \in Nodes : Wired(a) => \A u \in doc[a] : Known(b, u)'
      BY <1>2, <2>1, <2>2 DEF KnownAt
    <2>6. \A a \in Nodes : Wired(a) => \A u \in doc'[a] : Known(b, u)'
      BY <1>1, <1>2, <1>3, <2>2, <2>3, <2>5
    <2>7. ASSUME NEW a \in Nodes, NEW u \in Updates, Carried(net'[a], u)
          PROVE  Known(b, u)' \/ Answers(net'[a], {}, u)
      <3>1. CASE a = n
        BY <1>4, <2>2, <2>3, <2>7, <3>1
      <3>2. CASE a # n
        <4>1. Carried(net[a] \o <<answer>>, u) <=> Carried(net[a], u) \/ u \in doc[n]
          BY <1>2, CarriedLonger
        <4>2. Answers(net[a], {}, u) => Answers(net[a] \o <<answer>>, {}, u)
          BY <1>2, AnswersLonger
        <4>3. CASE u \in doc[n]
          BY <1>1, <2>5, <4>3
        <4>4. CASE Carried(net[a], u)
          <5>1. Known(b, u) \/ Answers(net[a], {}, u)
            BY <2>1, <4>4 DEF KnownAt
          <5> QED  BY <1>1, <2>2, <3>2, <4>2, <5>1
        <4> QED  BY <1>1, <2>7, <3>2, <4>1, <4>3, <4>4
      <3> QED  BY <3>1, <3>2
    <2> QED  BY <2>4, <2>6, <2>7
  <1>7. ASSUME NEW b \in Nodes
        PROVE  LoadAt(b)'
    <2>1. phase[b] = "loaded" => doc'[b] = doc[b]
      BY <1>1 DEF Wired
    <2> QED  BY <1>1, <1>5, <2>1, LoadKept DEF AgreeInv, Backed
  <1> QED  BY <1>1, <1>6, <1>7 DEF AgreeInv

-----------------------------------------------------------------------------
\* The theorem

LEMMA AgreeNext ==
    ASSUME TypeOK, RoomsInv, AgreeInv, [Next]_vars
    PROVE  AgreeInv'
  <1>1. ASSUME NEW n \in Nodes, Opening(n)
        PROVE  AgreeInv'
    BY <1>1, AgreeBeginOpen, AgreeLoadBoard, AgreeOpenRoom, AgreeOpenFails DEF Opening
  <1>2. ASSUME NEW n \in Nodes, Ownership(n) \/ Writing(n) \/ Ending(n)
        PROVE  AgreeInv'
    BY <1>2, AgreeQuiet, AgreeLockReply, AgreeWriting, AgreeEnding DEF Ownership
  <1>3. ASSUME NEW n \in Nodes, HandleBus(n) \/ LoseMessage(n)
        PROVE  AgreeInv'
    BY <1>3, AgreeHandleBus, AgreeLoseMessage
  <1>4. ASSUME NEW n \in Nodes, NEW u \in Updates, ClientUpdate(n, u)
        PROVE  AgreeInv'
    BY <1>4, AgreeClientUpdate
  <1> QED  BY <1>1, <1>2, <1>3, <1>4, AgreeQuiet DEF Next

\* Once all messages have arrived, the open rooms of a board hold the same
\* updates, unless a message was lost or a room ended while another depended on it.
THEOREM RoomsAgree == Spec => []QuietRoomsAgree
  <1>1. Init => AgreeInv
    <2> SUFFICES ASSUME Init, NEW n \in Nodes PROVE LiveAt(n) /\ LoadAt(n) /\ KnownAt(n)
      BY DEF AgreeInv
    <2>1. phase[n] = "closed" /\ net[n] = <<>> /\ DOMAIN queue[n] = {}
      BY DEF Init
    <2> QED  BY <2>1 DEF LiveAt, LoadAt, KnownAt, Wired
  <1>2. ASSUME AgreeInv, Quiet, ~missed, NEW a \in Nodes, NEW b \in Nodes,
               phase[a] = "open", phase[b] = "open"
        PROVE  doc[a] \cup stored \subseteq doc[b]
    <2>1. \A u : ~Carried(net[b], u)
      BY <1>2 DEF Quiet, Carried, Brings
    <2>2. \A c \in Nodes : \A u : ~Answers(net[c], doc[c], u)
      BY <1>2 DEF Quiet, Answers, StateRequest
    <2>3. \A u \in doc[a] \cup stored : Known(b, u)
      BY <1>2 DEF AgreeInv, KnownAt, Wired
    <2> QED  BY <2>1, <2>2, <2>3 DEF Known
  <1>3. AgreeInv => QuietRoomsAgree
    <2>1. ASSUME AgreeInv, Quiet, ~missed, NEW a \in Nodes, NEW b \in Nodes,
                 phase[a] = "open", phase[b] = "open"
          PROVE  doc[a] = doc[b] /\ stored \subseteq doc[b]
      <3>1. doc[a] \cup stored \subseteq doc[b] /\ doc[b] \subseteq doc[a]
        BY <1>2, <2>1
      <3> QED  BY <3>1
    <2> QED  BY <2>1 DEF QuietRoomsAgree
  <1> QED  BY <1>1, <1>3, RoomsInit, ClusterTypeCorrect, RoomsNext, AgreeNext, PTL DEF Spec

\* When all messages have arrived and some room is the owner, whatever any open
\* room shows is stored or about to be, and what is stored each of them shows,
\* except for the owner's failed appends and what came before its first lock answer.
OwnerStoresAll ==
    \A m, n \in Nodes :
        Quiet /\ ~missed /\ owner[m] /\ phase[n] = "open" =>
            /\ stored \subseteq doc[n]
            /\ \A u \in doc[n] : Accounted(m, u)

\* One room writes for all (persistAndFanout, handleBus and refreshOwnership): also
\* what clients of other nodes made is in the log when the board comes to rest.
THEOREM OneWriterStoresAll == Spec => []OwnerStoresAll
  <1>1. TypeOK /\ RoomsInv /\ QuietRoomsAgree => OwnerStoresAll
    <2> SUFFICES ASSUME TypeOK, RoomsInv, QuietRoomsAgree, NEW m \in Nodes, NEW n \in Nodes,
                        Quiet, ~missed, owner[m], phase[n] = "open"
                 PROVE  stored \subseteq doc[n] /\ \A u \in doc[n] : Accounted(m, u)
      BY DEF OwnerStoresAll
    <2>1. phase[m] = "open"
      BY DEF RoomsInv, CallInv
    <2>2. doc[m] = doc[n] /\ stored \subseteq doc[n]
      BY <2>1 DEF QuietRoomsAgree
    <2> QED  BY <2>2 DEF RoomsInv, WriteInv
  <1> QED  BY <1>1, RoomsAgree, RoomsInit, ClusterTypeCorrect, RoomsNext, PTL DEF Spec
=============================================================================
