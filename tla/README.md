# DNS-STATS Visualizer: a TLA+ model

Visualizer collects C-DNS files from name servers, converts them with the help of a
Gearman job server and its workers, and loads the records into ClickHouse. Around this
pipeline are commands that keep tables in Postgres and ClickHouse, a daemon that measures
how fast name servers serve a new zone, reports for RSSAC, and Grafana dashboards. This
directory models the pipeline, in which processes meet, and every one of these commands
that changes something.

## 1. Inventory

| Component | State it keeps | Operations | Interacts through |
|---|---|---|---|
| `dsv-import` (`commands/import.py`) | none of its own but its listing | `-s incoming, cbor, pcap, error, regen-error-tsv, pending` | links and renames files, submits jobs, holds the import lock |
| directories of a node (`common/Path.py`) | `incoming`, `cbor`, `<dir>/pending`, `error-<queue>`, `pcap` | link, rename, unlink | shared by all processes |
| Gearman queues (`common/Queue.py`) | `cdns-to-tsv`, `cdns-to-pcap`, `import-tsv`; not persistent | add, take, complete, fail | jobs name a file; a retry count and a not-before time travel in the argument |
| `dsv-worker` (`commands/worker.py`) | the job in hand, a list of delayed jobs, the queues it has registered for | take a job, run its script, act on the exit code | queues, directories, queue locks |
| `dsv-cdns-to-tsv`, `dsv-cdns-to-pcap`, `dsv-import-tsv` (`bin/`) | files being written | convert, submit, query, insert | directories, queues, ClickHouse |
| locks (`common/Lock.py`, `import_freeze`, `queue_freeze`, ...) | a lock file each: its mode and an flock | lock, freeze, thaw, is_frozen | `dsv-import` and the workers |
| filter and order of files (`class Filter`, `FileList`, `do_import`) | sets of nodes and servers, dates; whose turn it is | which files to import, which to make a PCAP of, in which order | read by `dsv-import`, edited by operators |
| schema updates (`common/DDL.py`, `clickhouse_update`, `postgres_update`) | numbered DDL files, a history table | apply, rollback, status | databases |
| zone latency (`rssac_daemon.py`, `rssac_notify.py`) | serials, queries outstanding, the latency table | NOTIFY, query, time out, store | UDP, Postgres, ClickHouse |
| RSSAC reports (`rssac_reports.py`, the reporting dashboard) | a directory of files by month | five reports, their plots | ClickHouse, Grafana |
| pruning (`prune.py`) | partitions of tables on all servers | check disc usage, drop | ClickHouse, the user |
| node list (`nodes_update.py`, `find_node_id.py`) | the node tables | merge a CSV file, look up | Postgres |
| geo and TLD tables (`geo_update.py`, `tld_update.py`) | a table each | follow an archive, or IANA's list | Postgres, the web |
| queue reports (`queue_details.py`) | `ImportQueueSizes` | count, print, store | directories, ClickHouse |
| dashboards | values chosen of each variable | choose, plot | the view `node_text` |

The behaviours that are hard here: many processes work on the same directory entries with
no lock (a `link`, an `exists` and an `unlink` are steps of their own); jobs are delivered
again when a worker dies while its script runs on; queues vanish with Gearman; a failed
INSERT may have stored its rows; the exit code is the only message from a script to its
worker, and it is looked at after the script's work is done; DDL is applied and then
recorded; answers come late, twice or never; partitions are listed and dropped later; a
transaction does not see what another has not committed. The `hazards` of `PROJECT.json`
list them with the lines where they bite.

What makes the components correct: no file is lost between two directories or between the
last of them and the database; no record is stored twice or in part; queues and pending
directories agree; what is queued is worked on in the end; a freeze takes hold and a thaw
does; after a crash, a reload brings back what was lost; the history tells what the schema
is; what is measured is of the node that answered; the latest serial is found; reports
agree with each other and with their plots; what is pruned is what was to be pruned, oldest
first; a table is what its file says, as a whole, or unchanged.

## 2. Modules

* `FileLifecycle` is the abstract specification of the import: a file is received,
  archived or queued, and then loaded or rejected.
* `Pipeline` is one datastore with `dsv-import -s incoming`, the workers and their
  scripts. It implements `FileLifecycle` (`ImplementsLifecycle`, by the mapping `StageOf`).
* `PipelineInvariant` states the inductive invariant of `Pipeline`; `PipelineProofs`
  proves the types, the invariant and what follows from it.
* `Recovery` extends `Pipeline` with the other sources of `dsv-import`, run by an
  operator while everything else goes on, and with faults; `RecoveryInvariant` is an
  invariant of it with one command, and `RecoveryProofs` is about both.
* `Scheduling` models when `dsv-import` and the workers get to work at all;
  `SchedulingProofs` proves that freezing takes hold and that no job is lost or run early.
* `ImportChoice`: which files `dsv-import` takes and in which order.
* `SchemaLog` is the abstract specification of schema updates, and `SchemaHistory` the two
  commands, which implement it; `SchemaProofs` is about Postgres with any number of
  operators, and about both databases with one.
* `Serials`: the arithmetic of zone serials and the loop that finds the latest.
  `ZoneLatency`: the daemons, the notifier, the nodes and the network. `RssacFigures`: the
  queries behind the reports and their plots. `RssacReports`: the files and the exit
  status. `RssacProofs` is about all four.
* `Prune`, with `PruneProofs`; `QueueReport`, which `QueueProofs` is about, as about
  `ImportChoice`.
* `NodeList`; `GeoUpdate`; `TldUpdate`; and `NodeSelection`, the drop-downs above the
  dashboards and the nodes that are plotted. `Tables` has what they share of tables, and
  `TablesProofs` is about all of them.
* `MCPipeline`, `MCRecovery`, `MCScheduling` instantiate the modules of the import for TLC,
  `MCTables`, `MCRssac` and `MCStore` those of the commands.

### Pipeline

A file is its name. The variables are the directories (`incoming`, `archive` for
`cbor`, `pending[d]`, `tsv[d]`, `sidecar[d]` for `*.tsv.info`, `failed[q]` for
`error-<q>`, `pcaps`), Gearman's `queue` (how many of each job), the tables (`head`,
`tail`, `counts`: how often a file's first record, its other records and its packet
counts are stored) and the place where each process is (`ipc`, `wpc`). One action is one
call that another process can see: `LinkIncoming` is `link()`, `AddCdnsToTsv` is
`writer.add()`, `Rename` the move to the archive. For a worker, `Take` is `getJob`, then
the script's steps follow up to its exit code (`exit0`, `exit1`, `exit2`), then
`Unlink`, `MoveToError`, `Answer`, `FailTransient` and `Resubmit` are the branches of
`execute_job`. Whatever can fail is a choice: the node is unknown, the conversion fails,
the query, the INSERT or the packet counts fail with or without effect, the worker quits
for a missing program (`InfraExit`).

A TSV is `none`, `part` or `whole`, because an import of a TSV that is being written is
the case to be afraid of; the first record is apart from the others because the script
looks for it. What a file holds is left out. The priority of jobs is a free choice of the
next job. `--dry-run`, dates and node names are left out; `dsv.filter` is
the three sets `ImportFiles`, `PcapFiles` and `PcapOnRequest`.

Two calls are one step here where the system has two: `exists()` and `os.link()` of
`dsv-import`, and `exists()` and `unlink()` or `rename()` of the worker. Between them could
come only another `dsv-import -s incoming`, or another worker with a job for the same file;
the lock is there against the one (the run `import_lock` shows that it does not last: an
uncaught `FileExistsError` of the second import is then possible, and not modelled), and
`OneJob` says that the other does not happen. Where jobs are delivered twice it does, and
`Recovery` has the worker's two calls as two steps. A submission by a script whose
acknowledgement is lost is in `Recovery` too.

### Recovery

`Listings(s)` is what each loop of a source lists when it starts, as the jobs that are to
be submitted; `LinkCdns`, `LinkTsv`, `AddTarget`, `UnlinkError` are the steps for one of
them. A worker whose job Gearman has forgotten is `cut`, a script whose worker died is
`dead`: it goes on and nobody looks at its exit code. `Reload` is `dsv-import -s
pending` after a fault, as the administrator's guide recommends.

The worker's `exists()` is `Look`, which puts it into `seen`, and `Removal` is what it does
next: `Unlink`, `MoveToError`, or `RenameNothing`, if the two names are links to one file.
If another worker has removed the file in between (`Vanished`), the `FileNotFoundError` is an
`OSError`, and the worker quits as for an infrastructure error (`Quits`), its job unanswered.

`SubmitUnanswered` is a submission by `dsv-cdns-to-tsv` that Gearman has queued while
`dsv-queue` has no answer: the script removes the TSV and fails, and the job is there. The
same loss seen by `dsv-import` ends it after its job is queued, which is `ImportDies` after
`AddCdnsToTsv`; seen by the worker that submits a retry, it is `WorkerDies` after `Resubmit`.

Workers are processes. Supervisor restarts one that died at once, and its script runs on
beside the new one. In the model a dead worker takes no job before its script has ended
(`OrphanEnds`), and the second worker is the one that runs beside it. `Reload.cfg` has one
worker, so nothing runs beside an orphan there: it is the run about what happens in the end,
and `Recovery.cfg` the one about what happens meanwhile. The number of workers in
`DuplicatesBounded` is therefore that of the scripts that run at once, orphans included, and not
that of the workers that supervisor keeps.

### Scheduling

A lock is `frozen` when its file has no write bit; `holder` is whose flock is in force.
`LockReturns` ends the flock, because the file object is local to `DSVLock.lock` and is
closed when it is collected. A queue, and a worker's list of delayed jobs, is a bag: how
often it holds each job. The worker goes `top` (`queue_delayed_jobs`), `assess` (one
lock after the other), `get` (wait, ended every second by `StopWaiting`), `execute`,
`done`. A worker that is started again is another worker. What a script does is one step.
A worker ends in one of three ways (`Leave`): an infrastructure error, after which what was on
its list is `lost`; `KeyboardInterrupt`, which puts the list back into the queues; and a signal
(`Kill`), such as supervisor's SIGTERM, which is no `KeyboardInterrupt` and loses the list. In
the last two it may be in the middle of `queue_delayed_jobs` (`Halfway`), so that an interrupted
worker may queue a job twice. `JobsKept` and `JobsRun` except the jobs that are in `lost`,
and no other, however many workers have ended.
Gearman's client library is modelled by how `Queue.py` uses it: `get` returns a job of a
registered queue or nothing.

### ImportChoice

A command has one listing or more (`Listings`): a single one for `incoming`, `cbor` and
`pcap`, three for `error` and five for `pending`, each with its directory and its queues.
`NextListing` goes from one to the next, with the filters that were read so far; the files of
the earlier ones have been submitted by then, so that a filter with an error stops a command of
these two sources in the middle of its work: `BadFilterStops` says that it has decided nothing
of the listing in which it meets the filter. `error` and `pending` queue whatever they list
(`Wanted`); the range of dates is for `cbor` and `pcap` only (`InRange`). `Afterwards` is what
becomes of the file: from `incoming` it goes to the archive, from a directory of errors away,
unless it cannot be linked. `regen-error-tsv` is in `Recovery`.

`Filter(text)` is `Filter.__init__`: the lines of a filter file, one after another, into
sets to include and to exclude, dates and switches, or an error. `List` is
`files_to_process`: a node's directory is listed, and the filter of its server is read when
its first file is met, so that an edit in between changes what later servers get and not
what this one does. `Take` takes a file from each node in turn. `since` records what each
text was while the command ran, which is what the properties compare with: `ImportMeant`
and `PcapMeant` say what the manual says of a filter, in a different form from the code's
sets. `DoneAsMeant` asks for one text of the server's filter and one of the global filter that
together explain all that was decided for the files of that server; a text that was never
there, the empty one included, is not among them.

### SchemaHistory

One action per request: `ReadHistory` with its creation of the table, `AlterTable` and
`CreateNew`, `CopyRows`, `DropOld`, `RenameNew` for the upgrade of the history table of
Visualizer 1, `RunDdl`, `Record`. `Transactional` tells Postgres (DDL and row are one
transaction) from ClickHouse (a client runs the statements, then a row is inserted).
`DdlFails` and `Crash` may come at any step; a version whose statements were run in part
is `part`, and so is one of ClickHouse whose work was done and is begun again by a retry that
fails.

The time of a row is that of its insertion in ClickHouse, and in Postgres that of the start
of the transaction (`CURRENT_TIMESTAMP`). `began` is when that was: when the history was read,
for the first DDL of a command, as nothing ends the transaction that the `SELECT` opens
(`Opened`); later for the others (`Begin`). With two operators, rows are therefore inserted in
an order that need not be that of their times, and `ORDER BY applied` may tell of a version
what is not so (section 4). `Ordered` has every order in which the rows may be read: that of
their times, and any order of those of one time. It is worked out by permuting the rows that
are `Loose`, which are those that another may change places with. `InStep` says that history
and schema agree, and that every reading tells so but of versions that are `Overtaken`: that
have a row with a time not before that of a later row of the same version.

### Serials and ZoneLatency

`cmp_serial` is the code's comparison on numbers below `2 * Half`; `RFC1982` the
reference. The state is that of the loop in `find_latest_serial`. `ZoneLatency` takes
serials as plain numbers, which is what the theorem about `Serials` allows for.

A daemon that waits takes a datagram in `Handle` and runs the notifier to its end:
`CheckLatest`, then passes (`BeginPass`, `SendQuery`, an answer in `Receive`, `Ignore` or
`Obsolete`, `EndPass`) until all nodes have answered or the passes are over, then `Store`.
The network delays and loses answers; with `Duplicates` it repeats them, and with `IdClash`
an answer to an earlier pass may have an ID of this one.

### RssacFigures and RssacReports

The figures are the SQL of `rssac_reports.py` and of the reporting dashboard's panels as
operators on the tables; the state is the tables, which grow in any order. `RssacReports`
is `main`, `make_report`, `make_yaml` and `make_report_panels`: what files they write under
which names, what fails, and which of `and`-ed calls are made.

### Prune

A part is a server, a table and its last day; a partition is of `Week` days. `Check` asks
one server after the other, `ReadPartitions` asks each server for the partitions of each table,
`Ask` is the user or `--force`, `Drop` drops from one server. `Import` adds parts at any time, `Fail` is a request
that fails. Disc usage is the number of parts.

### NodeList, GeoUpdate, TldUpdate, QueueReport, NodeSelection

A transaction of Postgres is `own` (or `written`, `inserted` and `deleted`): what it has
changed, seen by itself and by others after the commit. `NodeList` has one action per
statement that another command can come between; `GeoUpdate` reads row by row; `TldUpdate`
asks for a page for each new internationalised name. `QueueReport` counts one directory
after another while the import moves files; a report has rows for the nodes whose directory
`incoming` the first count meets (`dirs`, `listed`). `NodeSelection` re-runs the queries of all
variables that depend on a changed one, as Grafana does, one after the other
(`AfterChoice`); the SQL conditions are operators.

## 3. Runs

| Run | Instance | Question |
|---|---|---|
| `pipeline` | 2 files, 1 PCAP, 2 workers, 1 retry | Is a file lost, worked on twice, loaded twice or in part; are queues and directories in sync; does it implement `FileLifecycle`? |
| `recovery` | 1 file, 2 workers, 1 fault of 5 kinds | What holds across a crash and the reload after it? |
| `operator` | 1 file, 2 workers, 1 retry, 1 command of 4 | Do the commands lose or tear a file the workers are at? |
| `reload` | 1 file, 1 worker, 1 retry, 1 fault of 4 kinds, fairness | Does the reload bring every job back; do the queues run empty? |
| `scheduling` | 2 jobs, 1 delayed, 2 workers, 2 queues, fairness | Freezing, thawing, delayed jobs, workers that quit, are interrupted or killed. |
| `tables` | see below | Do the commands that maintain tables keep them right, whatever fails? |
| `rssac` | see below, fairness | Is RSSAC data right from the NOTIFY to the report? |
| `store` | see below, fairness | Is what is stored pruned, chosen and counted as asked for? |
| `counts` (violation) | as `pipeline`, fairness not needed | Are the packet counts loaded when their first import fails? |
| `restart` (violation) | 1 file, 2 workers, restart of Gearman | Is a file imported completely after a reload? |
| `regen` (violation) | 1 file, 1 worker, `regen-error-tsv` | Does regeneration keep the records? |
| `import_lock` (violation) | 2 processes | Does the lock keep two imports apart? |

`tables`, `rssac` and `store` are each a choice between commands that share no state: the
variable `running` is chosen in the initial state and says which instance takes its steps
while the variables of the others stay as they are. Exploring each of them for itself is
exploring their sum and not their product; it loses nothing, as no step of one reads what
another writes. A property's conjuncts are the component's properties, for the instance
that is running.

* `tables` has: Postgres with two operators, two versions, a fault and four commands, in
  different seconds but with transactions that overlap; one operator with three versions, two
  faults and up to four commands,
  on Postgres with the old table, on ClickHouse and on ClickHouse with the old table; all
  node files of one or two rows over three names of a node, or of a server, one command
  after another; archives of two locations and two blocks; five domains of which three
  come and go; a table of five nodes in two servers, on the main and on the test site.
* `rssac` has: all lists of up to four serials of four bits, within 6 of each other (half
  the range is 8); three nodes, one inactive, two versions of the zone, two datagrams, two
  passes, answers late or lost; one node with IDs that clash (for liveness); three DNS
  messages with lengths on both sides of each boundary (ranges are 2 wide, where the code
  has 16); the latencies of two serials on three nodes; three reports on three days.
* `store` has: two servers and one table, or one server and two tables, with parts on up to
  four days in partitions of two, one part imported meanwhile; two nodes and all filters of
  up to two of twelve lines for the server and one for all; three nodes and two servers
  whose filters are edited while files arrive; two nodes of two servers whose files are listed
  again, by `error` and `pending`, under filters with and without an error; one file that moves
  while it is counted
  (files are counted independently of each other).

Bounds. In the import, two files and two workers let a worker be at one step for a file
while the importer and the other worker are at any step for the same or for another file;
nothing in the code relates three. One retry has a first try, a last try and the step
between them. With faults and commands there is one file: they act on each file alone, and
the second actor on it is the other worker, the second job or the orphaned script. A fault
or command is bounded by `MaxFaults` and `MaxCommands`; with two commands on the same file
more can go wrong than is documented (a `cbor` run while the file is being imported rewrites
its TSV), which is why one is what the run claims. `Reload` leaves out the crash of the
host, which `recovery` has: it adds nothing to what a restart of Gearman and of the workers
lose together, and costs the time. Workers are symmetric where no liveness is checked. Three
versions are the least with one below and one above another; two faults and four commands
let a fault come while another is repaired. Two rows of a file are the least that can rename
back and forth or clash, and the second command finds what the first left.

Fairness. Cron starts `dsv-import` every five minutes and each run ends: `WF` of each
importer. A worker loops for ever and its scripts end: `WF` of each worker's next step,
not of any particular outcome, so that retries end only because they are counted.
Supervisor starts a worker that died; it does not start one that quit for an
infrastructure error (it exits with 0), so the liveness properties except the case that
every worker has stopped. In `Scheduling` a job that is there is handed over before the
worker's waiting is ended for ever (`SF` of `Get`): Gearman answers within the second.
Nothing is assumed about freezing, submitting or quitting. A notifier goes on, as each of
its waits has a time-out: `WF` of `Proceed(d)` and of `Finish(d)`, the end of its time,
which cannot be put off by answers. `dsv-prune` goes on and its user answers: `WF` of its
next step, whatever it is.

Every property of a passing run has a mutant, a faulty form of an action or of a helper,
marked `Faulty:` above what it replaces, with which TLC finds the property violated; most of
the conjunctions have several, for different parts.

## 4. Divergences

Four disagreements are shown by runs (`findings` of `PROJECT.json`): packet counts are
dropped on a retry (`counts`); a reload can import half of a TSV for good (`restart`);
regeneration can delete the TSV it regenerated (`regen`); the import lock does not last
(`import_lock`).

Modelling the commands met more of them. The models have them, at the lines below (paths
under `src/src/python3/dsv` unless given); the properties that are checked leave the case
out, by the constant or the condition that is named.

| Where | What the code does | What is said of it | How the properties leave it out |
|---|---|---|---|
| `commands/rssac_notify.py:49` | compares with 2^31 - 1, where RFC 1982 has 2^31 | `rssac_notify.py:44` "Do comparison using RFC1982." | `LatestFound`: `Window < Half - 1` |
| `commands/rssac_notify.py:57` | `if not res` holds of serial 0 too, which is then lost | `:54` "Find latest zone serial" | `Nonzero` |
| `commands/rssac_notify.py:146` | each pass draws its IDs anew: a late answer may count for another node | `:96-98` "when we get a response with an ID in our range, we can update that node's information" | `IdClash` is FALSE, but for liveness |
| `commands/rssac_notify.py:158` | a second copy of an answer is counted as one more node | `:238-239` "collect responses to all nodes" | `Duplicates` is FALSE |
| `commands/rssac_notify.py:301` | the latest serial is read minutes before rows are stored: two daemons store a serial twice | `:11-14` "If not, and the serial is later than the last one seen" | one daemon |
| `commands/rssac_reports.py:120` | rows are selected by date: a serial measured across midnight is missing in one report or the other | `configuring.adoc:264-266` | `OneDay` in `LoadTimeTrue` |
| `commands/rssac_reports.py:517` | after a report with missing data, `and` skips the others | `dsv-rssac-reports.adoc:35` "`all`, which generates all available reports" | `ExitTells` speaks of exit 0 |
| `commands/rssac_reports.py:423` | `with_suffix` cuts a prefix with a dot: files replace each other | `dsv-rssac-reports.adoc:45` | `Dotted` is FALSE |
| `commands/rssac_reports.py:427` | plots are of a day of local time, files of a day of UTC | `dsv-rssac-reports.adoc:17` | `Offset` is 0 |
| `commands/clickhouse_update.py:94` | a version applied and not recorded is applied again by every retry | `dsv-clickhouse-update.adoc:34` "Apply all DDL files that are not currently applied" | `FaultsContained` counts it |
| `commands/clickhouse_update.py:58` | rows of one second are read in any order | `dsv-clickhouse-update.adoc:37-39` "the highest DDL currently applied" | `SameSecond` is FALSE; `InStep`, which excepts versions that are `Overtaken`, is proved with it TRUE too |
| `commands/postgres_update.py:32`, `:44` | `applied` is the start of the transaction, which the `SELECT` of the history opens, and rows are read in the order of it: with two operators a rollback may be read before the apply that it undid, so that a version counts as applied that is not, or the other way round, or every later command ends with a `KeyError` | `dsv-postgres-update.adoc:37` "Find version number of the highest DDL currently applied" | `InStep` excepts versions that are `Overtaken`; `HistoryReadable` and the others are for one operator |
| `commands/worker.py:162` | the locks are read before a worker registers and waits: frozen meanwhile, a queue still gives it a job | `operations.adoc:69-70` "Current jobs will complete, but no further jobs from the queue will be processed until the queue is thawed." | `OneLateJob` allows each worker one, and no second |
| `common/DDL.py:60` | a version below the highest is applied when its file comes later | `dsv-clickhouse-update.adoc:27-29` | `SchemaLog` allows it |
| `commands/nodes_update.py:192` | names are checked without a lock: two commands commit clashing names | `:183` "Ensure no name and altname clashes." | one command at a time |
| `commands/nodes_update.py:293` | nodes that another command adds meanwhile stay active | `:320-322` | one command at a time |
| `commands/nodes_update.py:265` | a node whose server a later row renames is inserted without a server | `dsv-nodes-update.adoc:22` "The server name(s). Mandatory." | `NamesUnique` is about nodes with a server |
| `commands/prune.py:40` | a partition with one aged part is dropped with all of its parts | `:238-240` "where all the data is over the specified age" | `OldestAged` is about the first day of the partition |
| `commands/prune.py:42` | `--max-age 0` is taken as no age | `dsv-prune.adoc:73-74` | 0 is not in `MaxAges` |
| `commands/prune.py:237` | with `--report-only` nothing is reported | `dsv-prune.adoc:60` | no property |
| `commands/geo_update.py:68` | `id` is the built-in function: locations after blocks lose their positions | `operations.adoc:290-291` | archives with locations first, as MaxMind packs them |
| `commands/geo_update.py:99` | Blocks-IPv4 is named twice, Blocks-IPv6 never read | `operations.adoc:290-291` | `LastBlock` is of IPv4 |
| `commands/tld_update.py:72` | two commands leave a name of an older list | `dsv-tld-update.adoc:20` | one command at a time |
| `commands/queue_details.py:161` | the error directories' names lack their prefix: errors are 0 | `operations.adoc:257-258` | `NoneMissed` is about queues |
| `commands/queue_details.py:158` | `cbor/pending` is not counted | `dsv-queue-details.adoc:17` | `Reprocessing` is FALSE |
| `src/grafana/common/grafanacommon.py:22` | `HIDDEN & INACTIVE` is 0: hidden and inactive nodes are plotted | `dsv-nodes-update.adoc:47-48` | no node is hidden |
| `src/grafana/common/grafanacommon.py:25` | nodes are selected by name in several servers | `developing.adoc:423-424` | `World("n5")` on the test site: names are those of one node |

## 5. Proofs

`PipelineProofs` proves for any files, importers, workers and retries:

* `TypeCorrect`: `Spec => []TypeOK`. The lemmas go action by action; `Working` (a worker
  at a step has a job) is what every script's step needs.

and, for any files, workers and retries and one `dsv-import` (`OneImporter`):

* `Invariance`: `Spec => []Inductive`;
* `KeepsFiles`, `OneAtATime`, `StaysInSync`, `LoadsOnce`, `LoadsAll`: `NothingLost`,
  `OneJob`, `InSync`, `NoDuplicates` and `CompleteImport` hold in every state;
* `Refinement`: `Spec => ImplementsLifecycle`.

None of the five is inductive alone. That no file is lost when a conversion fails and its
TSV is removed needs that the C-DNS link is still there, which needs that no other job of
the queue is for that file, which needs that `dsv-import` links a file only once, which
needs that a file leaves `incoming` before it can be listed again. `Inductive` says all of
it: where files are (`FilesInv`), that no two jobs or workers have the same queue and file
(`JobsInv`), that nothing is there for a file not yet reached (`FreshInv`), what a job that
is about to be submitted, waiting or in hand finds (`LinkedInv`, `WaitingInv`, `HeldInv`, a
clause per step), what the database holds, that a link has a job, and what has been kept.
The run `pipeline` checks `Inductive` on its instance.

The proof first settles the jobs: `TakeJobs`, `ReturnJobs`, `AddJobs` and `AnswerJobs` say
what taking, giving back, submitting and answering a job do to `JobsInv` and to which files
are `Idle`; nothing after them looks into the queue. Then there is a lemma per action, or
per group of actions that touch the same things (`ConvertKeeps`: a converting worker
touches only the TSV of its own file), with a step per part of the invariant. The
refinement uses it again: `Advances` lists what a step may do to a file's stage,
`OneFile` turns it into a step of `FileLifecycle`.

Assumptions: `PipelineAssumption`, and where they say so `OneImporter`: one
`dsv-import -s incoming` at a time. The code means its import lock to ensure it; the run
`import_lock` shows that the lock does not, so the theorems hold as long as a run ends
before cron starts the next.

`RecoveryProofs` proves of `RecoverySpec`: `RecoveryTypes` (`RecoveryTypeOK`),
`OriginalsStay` (`OriginalKept`) and `FewDuplicates` (`DuplicatesBounded`, for any finite set
of workers), for any files, importers, workers and retries and any number of faults and
commands. The lemmas of `PipelineProofs` are used again for the steps that `Recovery` takes
over; `BondType` is what they need beside: only a worker with a job is cut off from Gearman,
or dead with its script still running. `Bounded`, behind `FewDuplicates`, counts together the
copies of the first record that are stored and the scripts that have found none and are about
to insert one (`Inserting`): no more of both than there are workers, as no script gets there
once there is a copy.

`CommandsLoseNothing` (`CommandsKeepRecords`) and `RefillIsSafe` (`RefillKeepsFile`) are about one
run of `dsv-import` for `cbor`, `pcap` or `error`, beside one `dsv-import -s incoming` and
any workers and files, when nothing fails (`OneCommand`). What a run for `regen-error-tsv`
does is not in it, as that one does lose files (section 4), nor one for `pending`, which
queues again whatever is pending, nor two commands one after the other. The invariant is
`Spares` of `RecoveryInvariant`. `Pipeline`'s does not hold here: a file can have links, TSVs
and jobs in `incoming` and in `cbor`, and be in an error directory and pending at once. What
takes its place is about an entry, a link or TSV of a file in one directory: it has one job at
most (`OneJobInv`), waiting or in hand, or about to be submitted by either `dsv-import`
(`SubmitInv`, `TargetInv`); what that job finds at each step is `Converts`, `Links` or
`Imports`. The point is `Links` in `incoming`: a link for a PCAP has the same name as one for a
TSV, and whoever removes it must not remove the last trace of the file, so the file has to be
`Spared`. It is, because `dsv-import -s error` has put back every conversion to TSV before it
comes to PCAPs (`PcapInv`), and because a file in `error-cdns-to-tsv` has no TSV
(`FailedInv`) unless it is just being put back (`Targeted`). The lemmas go step by step:
`Finds` says that a step leaves a job what it finds, and `AsideSteps` and `GoOnSafe` that this
is all that the jobs of others need to know of it. `MCRecovery` extends `RecoveryInvariant`:
with `Spares` as one more invariant in `Operator.cfg`, TLC finds that it holds in all 483863
states of that instance.

`SchedulingProofs` proves `SchedulingTypes` (`TypeOK`), `FreezesSoon` (`OneLateJob`),
`RunInTime` (`NotEarly`) and `NoJobLost` (`JobsKept`), for any queues, workers and jobs. For
`OneLateJob` the invariant adds that the worker is not registered for a queue of which it has
taken its late job, while the queue is frozen: what ends the loop's step with the queue in
`functions` is that `assess` does not add it. For the others, `InTime` says that an entry that
has lost its time is of a job whose time has come, and `Kept` that each job is queued, with
a worker or `lost`; `LeaveJInv` is what a worker's end does to both, and `HalfwayQueued` what
one does that comes in the middle of `queue_delayed_jobs`. The
worker's list of delayed jobs is a bag here, as a queue has no order either: the recursion of
a filter over a list would have been out of the prover's reach.

`SchemaProofs`, for any number of operators, versions, faults and commands: `SchemaTypes`
(`TypeOK`) and `HistoryTells` (`Spec => []InStep`). `Whole` says that nothing is there in part
and that history and schema agree; `Prepared` what a command needs to find, so that with
`Transactional` no command ever comes to the steps of ClickHouse. `ActiveAppend` is the lemma
it rests on: what a row appended to a history of any length changes in the versions that are
active, though `ActiveDdls` quantifies over all later rows. `LowestIn`, that `Lowest` of a set
that is not empty is one of it, comes from the library's well-foundedness of `<`. That a command
is told what is so is `Told`: by `ReadOrder` and `OrderedMeans` every order in which rows may be
read is a permutation that keeps the rows of a version apart and in order if they are `InTime`,
which is what not being `Overtaken` means; nothing is assumed of when transactions begin.

For one operator (`OneOperator`) whose commands are given in different seconds
(`~SameSecond`), whatever fails or is killed: `HistoryCanBeRead` (`HistoryReadable`),
`FaultsDoNotSpread` (`FaultsContained`), `RecordsAreKept` (`RecordsSurvive`); for Postgres
also `SuccessMeansCurrent` (`CurrentAfterSuccess`); and `ImplementsLog`, the refinement of
`SchemaLog` by the mapping `Active`, for Postgres and for ClickHouse but for the upgrade of
the history table of Visualizer 1, during which the records are in another table. Without the
hypotheses these do not hold (section 4). The invariant is `OneInv`: rows are `Sound`, so that
every order in which they may be read tells the same (`AnyOrder`, from `SameOrder`: a
permutation that keeps seconds keeps the rows of each version in order); a command that has
yet to decide finds rows of earlier seconds only; where the rows are at each step of the
upgrade; and what a command has still to do is not done, nor touched in its second, and is the
highest version if it is a rollback. `StrayInv` counts for `FaultsDoNotSpread`: it has to know
what the rows of the new table will tell once it is renamed. These theorems are about
`FaultsStay`, `UpdatesTrue` and `OneImplementsLog` of the run `tables`, which name the
instances of one operator.

`RssacProofs` proves of `Serials` `FindsLatest`: `Spec => []LatestFound`, for any width of serials and
lists of any length. `Furthest` is the invariant: the loop's result is a serial that has
grown furthest from the oldest one; `ComparesGrowth` shows that `cmp_serial` compares how far
serials have grown as long as `Window < Half - 1`, on both sides of the point where numbers
wrap around; `FollowsRFC1982` that it is then the comparison of RFC 1982.

Of `ZoneLatency` it proves, for any finite set of nodes and any daemons, serials, datagrams and
passes: `LatencyTypes` (`TypeOK`), also if IDs clash and answers come twice; `AnswersAreOwn`
(`OwnAnswer`), if no ID is used by two passes; `SharesAreTrue` (`ShareTrue` and
`OutstandingTrue`), if in addition no answer comes twice; and for one daemon `StoredOnce`
(`MeasuredOnce`) and `LaterIsStored` (`NewestIsStored`). Each hypothesis is needed: section 4
has what happens without. The share of a latency is right because a node of which a query, an
answer or a measurement is under way is of the nodes asked, and in one of these states only
(`Fresh`), and because what is outstanding and what is measured make up the total (`Counted`),
at every step of every pass. `Newer` is what lets one daemon store nothing twice: what it
found in the table when it began is older than what it measures, and stays all there is.

Of `RssacReports`, for any sequence of commands, any reports, panels and queries, and whatever
fails, it proves `ReportsExitTells` (`ExitTells`) and `ReportsKept` (`OthersKept`).
`ReportsFormat` is what they take for granted: a prefix without a dot (section 4), and that the
load-time report needs a query. The invariant, `ReportInv`, follows the two loops: of the
reports that are done all files are there unless the data is incomplete (`InLoop`), and so are
those of the report in hand as far as it has come (`InReport`); and as a file is about the day
and the label of its name (`NamedFiles`), a later report cannot have replaced an earlier one.

Of `RssacFigures` it proves, for any messages and days, `PlotsShowReports` (`PlotsAgree`) and
`CountedInRange` (`InItsRange`), provided that the last range is a whole number of widths, as
288 and 4096 are of 16 (`SizesFormat`); and for any nodes, serials and latencies
`SerialsHaveALine` (`OneLine`) and `LoadTimesTrue` (`LoadTimeTrue`), for a server that has a
node and a threshold of 1 to 100 (`TimesFormat`). The plots need a lemma about rounding (`BucketParts`): the
range the panels round a length to, short of the last one, is the range the file counts it in,
because the last range starts at a multiple of the width. The load times rest on `LatencyRows`: the rows of a serial are
those of its first `n` answers in the order of their latencies, so that the percentage of a row
is that of the nodes that had the zone by then, and the first row to reach the threshold has
the least latency to do so.

`TablesProofs`, for any files, archives, lists, nodes and choices:

* `TldUpdate`: `DomainTypesTrue` (`TypesTrue`) and `AllLabelsSet` (`LabelsSet`), for any number
  of commands at once, from `PendingNames` and `PendingLabels`, which say what of the table each
  command has still to change; and for one at a time (`OneAtATime`) `DomainsFollowList`
  (`TableIsList`), as then what a command has found in the table is still there when it commits
  (`ListInv`).
* `GeoUpdate`: `LocationsAtOnce` (`AllAtOnce`) for any archives; and `LocationsTrue`
  (`PositionsKept`, `NarrowestName`) for archives that have locations first (`LocationsFirst`;
  section 4) and each of them once (`LocationsOnce`), both as MaxMind packs them. By
  `PositionsCollected` what is collected has, for each location, the position of the last of
  the blocks the command has come past, and by `NamesCollected` its name.
* `NodeList`: `NodeListTypes` (`TypeOK`) for any number of commands at once and files that have
  a row (`FilesHaveRows`); and for one at a time `NamesStayUnique` (`NamesUnique`),
  `ListedAreActive` (`OnlyListedActive`), `LastRowIsFound` (`LastRowFound`) and
  `RenamingKeepsIds` (`RenameKeepsId`). Uniqueness is not inductive: `NamesInv` has to say it of
  what the command sees, its own changes over the tables (`Over`), and that what it is about to
  write meets the names of no other row, which is what its check has found and nobody has
  changed since. `RowsInv` says of an active node which row it is of. `RenameKeepsId` is about
  files whose rows are about different servers or nodes (`RowsApart`): a file in which two
  rows take each other's names can swap two nodes, as rows are dealt with one by one. `KeptInv`
  says that, of such a file, only the row that meets a node's old names can change it.
* `NodeSelection`: `ChosenArePlotted` (`OnlyChosen`), on the test site if names are those of one
  node (`NamesApart`; section 4); `OptionsHaveData` (`NoEmptyOption`), on the main site if
  cities are in one country and countries in one region (`PlacesNested`), because the city's
  query refers to the server and the country only, and the instance's to the server and the
  city; the tables do not enforce that, so a city of the same name in two countries is outside
  the theorem; and `ServersArePlotted` (`WholeServers`), without any condition. `SelectionInv`
  is the invariant: what is chosen are options, all of them if All is chosen, of what is chosen
  of the variables before. `OneMore` shows it variable by variable, as each variable's options
  depend only on those before it (`OptionsFollow`).

`PruneProofs` proves `TypeCorrect` (`TypeOK`), `DropsOldest` (`Spec => OldestAged`, if 0 is
not among the ages), `DropsAll` (`Spec => NothingLeft`) and `DropsWhileShort`
(`BegunWhileShort`, for finite sets of servers and tables). The invariant says that all that
was found begins before the date (`Aged`), that what is being dropped is of the oldest
partition found (`Facing`), and that whatever is over the age and was not imported since is on
the list or on a server that is still to be asked (`Complete`), which `Import` keeps as it
counts what it adds, and `Drop` as it takes off the list just what it takes off the server.
`Shortage` is what `DropsWhileShort` needs: with one table, the command asks all servers again
once a partition is dropped from all of them, before it begins the next.

`QueueProofs` proves of `dsv-queue-details`, for any files of which each has a node, and
any number of reports: `QueuedAreCounted` (`Spec => []NoneMissed`), unless an operator queues
files again; and `CountedAreFound`, with such commands too, for the directories that the
command counts. `Seen` is the invariant: what stays queued and is now in a directory that has
been counted was found there or in one counted before. It is kept because the one step that
takes a file from a queue to a queue (`QueuedMove`) leads from `incoming`, which is counted
first; the order of the counts is all that it rests on. `Homes` says that the node of a
file that is anywhere has a directory `incoming`, since files come from there (`ComesFrom`), and that
of one that stays was met by the first count, so that it has a row; `RowOfFound` adds that the file has a share in
it, and `Reported` that this is the row that is stored.

Of `ImportChoice` it proves, for any nodes, files and filters, while files arrive and filters are
edited: `NoNodeStarves` (`InTurn`), `MostRecentFirst` (`NewestFirst`) and
`BadFilterDecidesNothing` (`BadFilterStops`), for all sources and each of their listings.
`NextListingKeepsChoice` is the step from one listing to the next, after which what was decided
(`Decisions`) is of earlier listings; `ListingsAre` says of the listings of each source that
they are of a directory and for some queues (`Fit`). `InTurn` is not inductive, since it says nothing of
nodes that have no file left: `Rounds` says that there is a round `r` such that nodes before the
one whose turn it is have had `r + 1` files taken and the others `r`, or fewer if they have none
left; `TurnOver` goes from one turn, or round, to the next. `Ordered` says that what is left of a
node is older than all that was taken of it. `ChoiceFormat` has what is needed of the arguments:
that dates are numbers, and that `NewestFirstOf` returns a list of the files of a node with the
most recent first, as Python's `sorted` does: that it can be chosen for any finite set would need
induction.

Every theorem rests on its module's assumption about the constants and on the hypotheses that
are named above, and on nothing else.

Only model-checked are:

* the liveness properties (`Drains`, `Ends`, `InboxDrains`, ...), which are out of the prover's
  reach;
* what `operator` shows of the run for `regen-error-tsv`, and `CompleteImport` beside a
  command: its proof is about `Pipeline` alone;
* `DoneAsMeant` (of `ChoiceTrue`) and `FiguresAgree` (of `ReportsTrue`): what a fold over the
  lines of a filter, or a sum over ranges, comes to is induction over data, which the prover
  cannot do.

The theorems about the commands that `MCTables`, `MCRssac` and `MCStore` explore are about the
modules themselves, of which `TablesTrue`, `TablesFollow`, `LatenciesTrue`, `ReportsTrue`,
`OthersKept`, `FaultsStay`, `UpdatesTrue`, `ChoiceTrue` and `NoneMissed` are conjunctions for
the instances that are explored.

## 6. Not modelled

* The other dashboards: panels of one query each, with no state between them. The RSSAC
  reporting dashboard is, since files and plots must agree.
* `dsv-status`, `dsv-config`, `dsv-log`, `dsv-clickhouse-sys-info` and the listings of other
  commands: they print what a query returns and change nothing.
* `dsv-import-mirror`, `dsv` and the scripts that only start another command with arguments.
* Packaging, the demonstration server, the text of the SQL schemas, and the Python of
  templates that renders dashboards as JSON.
* Within what is modelled: dry runs, where they change nothing; the parsing of options; the
  wording of logs and reports; the estimates ClickHouse makes of unique sources (counts are
  exact here); Grafana's time filter, which is taken as the day; priorities of jobs (the
  next job is chosen freely).
