------------------------ MODULE MCBillingSettlement ------------------------
EXTENDS BillingSettlement, TLC
CONSTANTS p1, p2, p3, t1, t2, w1, w2, a1, a2, a3, r1

OneTeam == [p \in Payments |-> t1]
TwoTeams == [p \in Payments |-> IF p = p3 THEN t2 ELSE t1]
SamePlan == [p \in Payments |-> "pro"]
SameAmount == [p \in Payments |-> 1]
Symmetry == Permutations({w1, w2})
=============================================================================
