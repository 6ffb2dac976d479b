CONSTANTS
    p1 = p1
    p2 = p2
    p3 = p3
    t1 = t1
    t2 = t2
    w1 = w1
    w2 = w2
    a1 = a1
    a2 = a2
    a3 = a3
    r1 = r1
    None = None
    Payments = {p1, p3}
    Authorities = {a1, a2}
    Workers = {w1, w2}
    Refs = {r1}
    TeamOf <- TwoTeams
    PlanOf <- SamePlan
    AmountOf <- SameAmount
    Discounted = {}
    MaxRedemptions = 1
    MaxFaults = 2
SPECIFICATION Spec
SYMMETRY Symmetry
CHECK_DEADLOCK FALSE
INVARIANT AdoptedIsOwn
