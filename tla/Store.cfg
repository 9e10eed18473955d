SPECIFICATION StoreSpec
CONSTANTS
    s1 = s1
    s2 = s2
    Servers = {s1, s2}
    Tables = {"raw", "extra"}
    Days = {0, 2, 3, 5}
    Today = 5
    Week = 2
    MaxAges = {2}
    Threshold = 2
    MaxImports = 1
    Global = Global
    NoText = NoText
    n1 = n1
    n2 = n2
INVARIANTS
    TypeOK ChoiceTrue NoneMissed
PROPERTIES
    OldestAged WhileShort NothingLeft Ends
CHECK_DEADLOCK FALSE
