\* Two edits of the writer, and one break, failure or change of a role.  A board
\* where everything has arrived stops.
CONSTANTS
    c1 = c1
    c2 = c2
    Clients = {c1, c2}
    Edits <- TwoEdits
    MaxDrops = 1
    MaxFaults = 1
SPECIFICATION ReaderFairSpec
CHECK_DEADLOCK FALSE
INVARIANTS
    TypeOK
    QuietMeansSame
    ClientKnowsRole
    PresentIsHere
PROPERTIES
    EditsArrive
    PresenceReturns
