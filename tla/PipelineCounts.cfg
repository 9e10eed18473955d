\* The packet counts of a file whose second INSERT failed once.
SPECIFICATION FairSpec
CONSTANTS
    Files = {f1, f2}
    ImportFiles = {f1}
    PcapFiles = {f2}
    Importers = {i1}
    Workers = {w1, w2}
    MaxRetries = 1
    AtomicInsert = TRUE
    NoFile = NoFile
PROPERTIES
    CountsLoaded
\* Every file is handled and every worker may have quit: the system may stop.
CHECK_DEADLOCK FALSE
