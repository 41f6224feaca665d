SPECIFICATION Spec
CONSTANTS
    Caller = {c1, c2}
    Config = {rw, ro}
    ReadOnly = {ro}
    Groups = 1
    Worker = {p1, p2}
    MaxPipe = 2
    MaxFaults = 1
    RacesAgain = TRUE
    None = None
INVARIANTS TypeOK AnswerIsOwn ActiveIsLoaded NoStrayWorker PreparedIsIndexed
PROPERTIES LoadingIsKept
SYMMETRY Identical
CHECK_DEADLOCK FALSE
