--------------------------- MODULE MCTeamCapacity ---------------------------
EXTENDS TeamCapacity
CONSTANTS b1, b2, u0, u1, u2, i1, i2, w1, w2

\* Files 1 and 2 are one image, uploaded twice; file 3 is another.
SameImage == [f \in Files |-> IF f = 3 THEN 2 ELSE 1]

\* A free plan at its limit with little, and one without limits.
TwoPlans == [p \in Plans |->
    IF p = "free" THEN [boards |-> 1, members |-> 2, storage |-> 1]
    ELSE [boards |-> Unlimited, members |-> Unlimited, storage |-> 2]]

Mix(b, m, s) == [boards |-> b, members |-> m, storage |-> s]
Mixes == {Mix(3, 0, 0), Mix(0, 3, 0), Mix(0, 0, 4), Mix(2, 1, 0), Mix(1, 0, 2)}
=============================================================================
