\* A job of one queue and a delayed job of another, two workers, one of which
\* ignores the first queue, and dsv-import; locks are frozen and thawed at any time.
SPECIFICATION FairSpec
CONSTANTS
    j1 = j1
    j2 = j2
    w1 = w1
    w2 = w2
    Queues = {"cdns-to-tsv", "import-tsv"}
    Jobs = {j1, j2}
    Delayed = {j2}
    QueueOf <- MCQueueOf
    Importers = {i1}
    Workers = {w1, w2}
    Ignored <- MCIgnored
    NoJob = NoJob
INVARIANTS
    TypeOK
    OneLateJob
    NotEarly
    JobsKept
PROPERTIES
    JobsRun
    FreezeTakesHold
\* Both workers may be gone and all jobs run: the system may stop.
CHECK_DEADLOCK FALSE
