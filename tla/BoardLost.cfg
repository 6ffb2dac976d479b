CONSTANTS
    a = a
    b = b
    c = c
    Updates <- MCUpdates
    Deps <- MCDeps
    Jobs = {j1, j2}
    EveryUpdates = 2
    MaxRows = 2
    Truncates = FALSE
SPECIFICATION Spec
INVARIANT NothingSavedIsLost
