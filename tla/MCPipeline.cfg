\* Two files to import, one of them to make a PCAP of as well; every step of
\* both interleaved between two workers and dsv-import, each import tried twice.
SPECIFICATION Spec
CONSTANTS
    Files = {f1, f2}
    ImportFiles = {f1, f2}
    PcapFiles = {f2}
    Importers = {i1}
    Workers = {w1, w2}
    MaxRetries = 1
    AtomicInsert = TRUE
    NoFile = NoFile
SYMMETRY WorkerSymmetry
INVARIANTS
    TypeOK
    NothingLost
    InSync
    OneJob
    NoDuplicates
    CompleteImport
    Inductive
PROPERTIES
    ImplementsLifecycle
\* Every file is handled and every worker may have quit: the system may stop.
CHECK_DEADLOCK FALSE
