\* What the comments say of the next owner, against what the code does.
CONSTANTS
    n1 = n1
    n2 = n2
    a = a
    Nobody = Nobody
    Nodes = {n1, n2}
    Updates = {a}
    Faults = {"lapse"}
    MaxFaults = 1
SPECIFICATION Spec
CHECK_DEADLOCK FALSE
INVARIANT NextOwnerWrites
