\* One file and one run of dsv-import for any source but pending, while cron and the workers go on; no faults.
SPECIFICATION RecoverySpec
CONSTANTS
    Files = {f1}
    ImportFiles = {f1}
    PcapFiles = {f1}
    PcapOnRequest = {f1}
    Importers = {i1}
    Workers = {w1, w2}
    MaxRetries = 1
    AtomicInsert = TRUE
    NoFile = NoFile
    Sources = {"cbor", "pcap", "error", "regen-error-tsv"}
    MaxCommands = 1
    Faults = {}
    MaxFaults = 0
SYMMETRY WorkerSymmetry
INVARIANTS
    CompleteImport
    CommandsKeepRecords
PROPERTIES
    RefillKeepsFile
\* Every file is handled and every worker may have quit: the system may stop.
CHECK_DEADLOCK FALSE
