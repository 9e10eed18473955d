\* Two processes run dsv-import.
SPECIFICATION Spec
CONSTANTS
    j1 = j1
    j2 = j2
    w1 = w1
    w2 = w2
    Queues = {"cdns-to-tsv", "import-tsv"}
    Jobs = {j1, j2}
    Delayed = {j2}
    QueueOf <- MCQueueOf
    Importers = {i1, i2}
    Workers = {w1, w2}
    Ignored <- MCIgnored
    NoJob = NoJob
INVARIANTS
    OneImport
CHECK_DEADLOCK FALSE
