---------------------------- MODULE SharedBoard ----------------------------
(***************************************************************************)
(* What a room promises to those who share a board.  An update takes one   *)
(* way: its author makes it, the room takes it from its author while that  *)
(* client has a session that may write, and everybody else, the database   *)
(* too, has it from the room.  Nothing is forgotten on the way.            *)
(* Connections, messages, queues and denials do not appear here.           *)
(***************************************************************************)
EXTENDS Naturals

CONSTANTS
    Clients,
    Updates     \* pairs of a client and the number of its edit

VARIABLES
    docs,       \* each client's document
    writers,    \* clients with a session that may write
    room,       \* the document they share
    stored      \* what of it is in the database

vars == <<docs, writers, room, stored>>

Own(c) == {u \in docs[c] : u[1] = c}

Init ==
    /\ docs = [c \in Clients |-> {}] /\ writers = {}
    /\ room = {} /\ stored = {}

\* A client's edits follow one another.
Edit(c) ==
    /\ \E u \in Updates :
         /\ u[1] = c /\ u \notin docs[c]
         /\ \A k \in 1..(u[2] - 1) : <<c, k>> \in docs[c]
         /\ docs' = [docs EXCEPT ![c] = @ \cup {u}]
    /\ UNCHANGED <<writers, room, stored>>

\* Sessions come and go, and roles change.
Admit ==
    /\ writers' \in SUBSET Clients
    /\ UNCHANGED <<docs, room, stored>>

Accept(c) ==
    /\ c \in writers
    /\ \E set \in SUBSET Own(c) : room' = room \cup set
    /\ UNCHANGED <<docs, writers, stored>>

Deliver(c) ==
    /\ \E set \in SUBSET room : docs' = [docs EXCEPT ![c] = @ \cup set]
    /\ UNCHANGED <<writers, room, stored>>

Store ==
    /\ \E set \in SUBSET room : stored' = stored \cup set
    /\ UNCHANGED <<docs, writers, room>>

Next ==
    \/ \E c \in Clients : Edit(c) \/ Accept(c) \/ Deliver(c)
    \/ Admit \/ Store

Spec == Init /\ [][Next]_vars
=============================================================================
