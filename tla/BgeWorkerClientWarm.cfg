SPECIFICATION FairSpec
CONSTANTS
    Caller = {c1, c2}
    Config = {ro}
    ReadOnly = {ro}
    Groups = 1
    Worker = {p1, p2}
    MaxPipe = 1
    MaxFaults = 0
    RacesAgain = FALSE
    None = None
PROPERTIES WarmsUp
CHECK_DEADLOCK FALSE
