CONSTANTS
    b1 = b1
    b2 = b2
    u0 = u0
    u1 = u1
    u2 = u2
    i1 = i1
    i2 = i2
    w1 = w1
    w2 = w2
    None = None
    Boards = {b1, b2}
    Users = {u0, u1, u2}
    Invites = {i1, i2}
    Files = {1, 2, 3}
    Workers = {w1, w2}
    Owner = u0
    Content <- SameImage
    Plans = {"free", "pro"}
    Limits <- TwoPlans
    Budgets <- Mixes
    MaxFaults = 1
SPECIFICATION FairSpec
CHECK_DEADLOCK FALSE
INVARIANTS
    TypeOK
    
    
PROPERTIES
    GrowthFits
    
    RequestsEnd
