\* One file and one fault of any kind, after which the queues may be loaded again.
SPECIFICATION RecoverySpec
CONSTANTS
    Files = {f1}
    ImportFiles = {f1}
    PcapFiles = {}
    PcapOnRequest = {f1}
    Importers = {i1}
    Workers = {w1, w2}
    MaxRetries = 0
    AtomicInsert = TRUE
    NoFile = NoFile
    Sources = {}
    MaxCommands = 0
    Faults = {"gearman", "worker", "import", "host", "answer"}
    MaxFaults = 1
SYMMETRY WorkerSymmetry
INVARIANTS
    RecoveryTypeOK
    DuplicatesBounded
PROPERTIES
    OriginalKept
\* Every file is handled and every worker may have quit: the system may stop.
CHECK_DEADLOCK FALSE
