\* One compaction slot: compactions never overlap.
CONSTANTS
    a = a
    b = b
    c = c
    Updates <- MCUpdates
    Deps <- MCDeps
    Jobs = {j1}
    EveryUpdates = 2
    MaxRows = 3
    Truncates = TRUE
SPECIFICATION SerialSpec
INVARIANTS
    TypeOK
    AckedIsStored
    RoomIsComplete
    GapOnlyAfterDrop
PROPERTY
    ImplementsDurable
