--------------------------- MODULE MCBoardClients ---------------------------
(* A writer c1 that comes to a board where a reader c2 is already. *)
EXTENDS BoardClients, TLC
CONSTANTS c1, c2

TwoEdits == [c \in Clients |-> IF c = c1 THEN 2 ELSE 0]
OneEdit == [c \in Clients |-> IF c = c1 THEN 1 ELSE 0]

\* The state after the first client's Connect, Verify, Join and what follows.
ReaderIsHere ==
    /\ link = [c \in Clients |-> IF c = c2 THEN 1 ELSE 0] /\ stopped = {}
    /\ doc = [c \in Clients |-> {}]
    /\ shown = [c \in Clients |-> IF c = c2 THEN "saved" ELSE "unsaved"]
    /\ access \in {[c \in Clients |-> IF c = c2 THEN "viewer" ELSE r] : r \in Roles}
    /\ role = [c \in Clients |-> IF c = c2 THEN "viewer" ELSE "editor"]
    /\ by = [s \in Sessions |-> IF s = 1 THEN c2 ELSE 0]
    /\ step = [s \in Sessions |-> IF s = 1 THEN "open" ELSE "none"]
    /\ srole = [s \in Sessions |-> "viewer"] /\ fresh = [s \in Sessions |-> "none"]
    /\ broken = {}
    /\ up = [s \in Sessions |-> <<>>] /\ down = [s \in Sessions |-> <<>>]
    /\ members = {1} /\ room = {} /\ log = {} /\ pend = <<>>
    /\ failed = {} /\ refused = {}
    /\ present = {c2} /\ owned = {1}
    /\ newest = [c \in Clients |-> IF c = c2 THEN 1 ELSE 0]
    /\ drops = 0 /\ faults = 0

ReaderSpec == ReaderIsHere /\ [][Next]_vars
ReaderFairSpec == ReaderSpec /\ Fairness
=============================================================================
