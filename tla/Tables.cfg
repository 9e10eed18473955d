SPECIFICATION TablesSpec
CONSTANTS
    Versions <- TwoVersions
    Reversible <- TwoVersions
    Operators = {o1, o2}
    Transactional = TRUE
    OldTable = FALSE
    SameSecond = FALSE
    MaxFaults = 1
    MaxCommands = 4
    NoName = NoName
    None = None
    o1 = o1
    c1 = c1
INVARIANTS
    TypeOK InStep FaultsStay TablesTrue
PROPERTIES
    UpdatesTrue OneImplementsLog TablesFollow
CHECK_DEADLOCK FALSE
