\* One fault of any kind but a crash of the host, and the fairness of cron,
\* supervisor and the reload.
SPECIFICATION RecoveryFairSpec
CONSTANTS
    Files = {f1}
    ImportFiles = {f1}
    PcapFiles = {}
    PcapOnRequest = {f1}
    Importers = {i1}
    Workers = {w1}
    MaxRetries = 1
    AtomicInsert = TRUE
    NoFile = NoFile
    Sources = {}
    MaxCommands = 0
    Faults = {"gearman", "worker", "import", "answer"}
    MaxFaults = 1
PROPERTIES
    Drains
\* Every file is handled and every worker may have quit: the system may stop.
CHECK_DEADLOCK FALSE
