\* Two compaction slots: what holds, and what ends, even when compactions overlap.
CONSTANTS
    a = a
    b = b
    c = c
    Updates <- MCTwo
    Deps <- MCTwoDeps
    Jobs = {j1, j2}
    EveryUpdates = 2
    MaxRows = 2
    Truncates = TRUE
SPECIFICATION FairSpec
INVARIANTS
    SeqWasHandedOut
    LatestIsReadable
    SnapshotsAreWhole
PROPERTIES
    SeqNeverReused
    CompactionEnds
    ShutdownEnds
