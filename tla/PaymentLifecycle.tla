-------------------------- MODULE PaymentLifecycle --------------------------
(***************************************************************************)
(* What billing promises: a payment is settled at most once and refunded   *)
(* at most once, a settlement gives the team its one live subscription,    *)
(* and a refund takes away the one it gave, or none.                       *)
(***************************************************************************)
CONSTANTS Payments, TeamOf, None
VARIABLES status, sub

Live(t) == {p \in Payments : TeamOf[p] = t /\ sub[p] = "active"}

Init ==
    /\ status = [p \in Payments |-> "none"]
    /\ sub = [p \in Payments |-> "none"]

Draft(p) ==
    /\ status[p] = "none"
    /\ status' = [status EXCEPT ![p] = "pending"]
    /\ UNCHANGED sub

GiveUp(p) ==
    /\ status[p] = "pending"
    /\ \E s \in {"failed", "canceled"} : status' = [status EXCEPT ![p] = s]
    /\ UNCHANGED sub

\* The paid subscription takes the place of the team's live one.
Settle(p) ==
    /\ status[p] = "pending"
    /\ status' = [status EXCEPT ![p] = "paid"]
    /\ sub' = [q \in Payments |->
                 IF q = p THEN "active"
                 ELSE IF q \in Live(TeamOf[p]) THEN "expired" ELSE sub[q]]

\* A subscription that is not live any more stays as it is.
RefundOld(p) ==
    /\ status[p] = "paid" /\ sub[p] # "active"
    /\ status' = [status EXCEPT ![p] = "refunded"]
    /\ UNCHANGED sub

\* The live one is cancelled, and one that the team still pays for may return.
RefundLive(p, back) ==
    /\ status[p] = "paid" /\ sub[p] = "active"
    /\ back # None =>
           TeamOf[back] = TeamOf[p] /\ sub[back] = "expired" /\ status[back] = "paid"
    /\ status' = [status EXCEPT ![p] = "refunded"]
    /\ sub' = [q \in Payments |->
                 IF q = p THEN "canceled" ELSE IF q = back THEN "active" ELSE sub[q]]

\* Periods that are over.
Finish(S) ==
    /\ \A p \in S : sub[p] = "active"
    /\ \E s \in [S -> {"expired", "canceled"}] :
           sub' = [p \in Payments |-> IF p \in S THEN s[p] ELSE sub[p]]
    /\ UNCHANGED status

Next ==
    \/ \E p \in Payments : Draft(p) \/ GiveUp(p) \/ Settle(p) \/ RefundOld(p)
    \/ \E p \in Payments, back \in Payments \cup {None} : RefundLive(p, back)
    \/ \E S \in SUBSET Payments : Finish(S)

Spec == Init /\ [][Next]_<<status, sub>>
=============================================================================
