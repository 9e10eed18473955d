SPECIFICATION RssacSpec
CONSTANTS
    Half = 8
    Window = 6
    MaxLength = 4
    NoMessage = NoMessage
    n1 = n1
    n2 = n2
    n3 = n3
    d4 = d4
    s = s
    t = t
INVARIANTS
    LatestFound LatenciesTrue ReportsTrue
PROPERTIES
    OthersKept InboxDrains
CHECK_DEADLOCK FALSE
