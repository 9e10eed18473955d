\* TSV files that failed to import are regenerated while their import fails again.
SPECIFICATION RecoverySpec
CONSTANTS
    Files = {f1}
    ImportFiles = {f1}
    PcapFiles = {}
    PcapOnRequest = {f1}
    Importers = {i1}
    Workers = {w1}
    MaxRetries = 0
    AtomicInsert = TRUE
    NoFile = NoFile
    Sources = {"regen-error-tsv"}
    MaxCommands = 1
    Faults = {}
    MaxFaults = 0
INVARIANTS
    RecordsKept
\* Every file is handled and every worker may have quit: the system may stop.
CHECK_DEADLOCK FALSE
