\* Two nodes, one update, and one thing that goes wrong.  No symmetry: OwnerReturns
\* is a liveness property.  A room whose lock calls tell it nothing new
\* and whose clients are idle stops, and so may the system.
CONSTANTS
    n1 = n1
    n2 = n2
    a = a
    Nobody = Nobody
    Nodes = {n1, n2}
    Updates = {a}
    Faults = {"load", "reply", "lapse", "append", "message", "evict", "crash"}
    MaxFaults = 1
SPECIFICATION FairSpec
CHECK_DEADLOCK FALSE
INVARIANT TypeOK
INVARIANT OwnerHoldsLease
INVARIANT OwnerWrites
INVARIANT SeqWasHandedOut
INVARIANT QuietRoomsAgree
PROPERTY SeqNeverFalls
PROPERTY OwnerReturns
