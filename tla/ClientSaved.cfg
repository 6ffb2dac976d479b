\* Nothing needs to go wrong: a client comes, and another one writes.
CONSTANTS
    c1 = c1
    c2 = c2
    Clients = {c1, c2}
    Edits <- OneEdit
    MaxDrops = 0
    MaxFaults = 0
SPECIFICATION Spec
CHECK_DEADLOCK FALSE
INVARIANT SavedIsStored
