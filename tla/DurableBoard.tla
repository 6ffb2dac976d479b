--------------------------- MODULE DurableBoard ---------------------------
(***************************************************************************)
(* What the persistence of one board promises to its clients: an update    *)
(* the server has called "saved" is stored, and what is stored is never    *)
(* lost.  Snapshots, pruning, garbage collection, crashes and restarts do  *)
(* not appear here at all: BoardPersistence must implement this            *)
(* specification although it does all of them.                             *)
(***************************************************************************)
CONSTANT Updates

VARIABLES
    stored,     \* the updates a fresh load of the board would deliver
    acked       \* the updates a client was told are saved

vars == <<stored, acked>>

Init ==
    /\ stored = {}
    /\ acked = {}

\* A write reaches the disk.  Its acknowledgement may be lost, so it is
\* optional, but there is no other way for an update to become acknowledged.
Write(u) ==
    /\ stored' = stored \cup {u}
    /\ acked' \in {acked, acked \cup {u}}

Next == \E u \in Updates : Write(u)

Spec == Init /\ [][Next]_vars
=============================================================================
