------------------------------ MODULE Pipeline ------------------------------
(***************************************************************************)
(* The import pipeline of one datastore.  The cron job "dsv-import -s      *)
(* incoming" links each new C-DNS file into a pending directory, submits   *)
(* Gearman jobs for it and moves it to the archive; the workers take jobs  *)
(* and run the script named after the queue: dsv-cdns-to-tsv writes a TSV  *)
(* beside the C-DNS link and submits it, dsv-import-tsv loads it into      *)
(* ClickHouse, dsv-cdns-to-pcap writes a PCAP.                             *)
(*                                                                         *)
(* A file is its name.  What tells one directory entry from another is the *)
(* directory and, for a TSV, how much of the file has been written; what   *)
(* tells one database state from another is whether a file's first record  *)
(* (the one the script looks for), its remaining records and its packet    *)
(* counts are there, and how often.  Job precedence is abstracted: a       *)
(* worker may take any job of the queues.                                  *)
(***************************************************************************)
EXTENDS Naturals

CONSTANTS
    Files,          \* names of C-DNS files
    ImportFiles,    \* those dsv.filter lets into the database (do_import)
    PcapFiles,      \* those dsv.filter wants a PCAP of (generate_pcap_import)
    Importers,      \* dsv-import processes
    Workers,        \* dsv-worker processes
    MaxRetries,     \* --max-retries
    AtomicInsert,   \* a failed INSERT leaves all of its rows or none
    NoFile

ASSUME PipelineAssumption ==
    /\ ImportFiles \subseteq Files
    /\ PcapFiles \subseteq Files
    /\ NoFile \notin Files
    /\ MaxRetries \in Nat
    /\ AtomicInsert \in BOOLEAN

\* The directories that hold C-DNS links for pending jobs: <dir>/pending.
PendingDirs == {"incoming", "cbor", "pcap"}

\* TSV files are found beside the C-DNS links and in error-import-tsv.
TsvDirs == PendingDirs \cup {"error"}

ConvertQueues == {"cdns-to-tsv", "cdns-to-pcap"}

Queues == ConvertQueues \cup {"import-tsv"}

Contents == {"none", "part", "whole"}

Jobs == [queue : Queues, dir : PendingDirs, file : Files, retry : 0..MaxRetries]

NoJob == [queue |-> "none", dir |-> "none", file |-> NoFile, retry |-> 0]

NewJob(q, d, f) == [queue |-> q, dir |-> d, file |-> f, retry |-> 0]

VARIABLES
    incoming,   \* the files in <node>/incoming
    archive,    \* the files in <node>/cbor
    pending,    \* the C-DNS links in <node>/<dir>/pending
    tsv,        \* the TSV made of each file, in each directory
    sidecar,    \* the .tsv.info files (packet counts) in <node>/<dir>/pending
    failed,     \* the C-DNS files in <node>/error-<queue>
    pcaps,      \* the files a PCAP has been written of
    queue,      \* jobs waiting in Gearman: how many of each
    head,       \* how often a file's first record is in the query table
    tail,       \* how often its remaining records are
    counts,     \* how often its packet counts are in their table
    ipc,        \* where each dsv-import process is
    todo,       \* the files its listing has still to yield
    cur,        \* the file it is working on
    wpc,        \* where each worker, or the script it runs, is
    wjob        \* the job it has taken

cdnsFiles == <<incoming, archive, pending, failed, pcaps>>
tsvFiles == <<tsv, sidecar>>
disk == <<cdnsFiles, tsvFiles>>
database == <<head, tail, counts>>
importer == <<ipc, todo, cur>>
worker == <<wpc, wjob>>
vars == <<disk, queue, database, importer, worker>>

ImporterSteps == {"idle", "next", "add-tsv", "pcap", "add-pcap", "rename"}

WorkerSteps == {"idle", "start", "test", "convert", "submit", "query", "insert",
                "counts", "exit0", "exit1", "exit2", "finish", "resubmit", "stopped"}

Init ==
    /\ incoming = {}
    /\ archive = {}
    /\ pending = [d \in PendingDirs |-> {}]
    /\ tsv = [d \in TsvDirs |-> [f \in Files |-> "none"]]
    /\ sidecar = [d \in PendingDirs |-> {}]
    /\ failed = [q \in ConvertQueues |-> {}]
    /\ pcaps = {}
    /\ queue = [j \in Jobs |-> 0]
    /\ head = [f \in Files |-> 0]
    /\ tail = [f \in Files |-> 0]
    /\ counts = [f \in Files |-> 0]
    /\ ipc = [i \in Importers |-> "idle"]
    /\ todo = [i \in Importers |-> {}]
    /\ cur = [i \in Importers |-> NoFile]
    /\ wpc = [w \in Workers |-> "idle"]
    /\ wjob = [w \in Workers |-> NoJob]

-----------------------------------------------------------------------------
(* dsv-import -s incoming                                                  *)

\* A name server's collector moves a finished file into incoming.  A file's
\* name holds its time stamp: it arrives once.
Arrive(f) ==
    /\ f \notin incoming \cup archive
    /\ incoming' = incoming \cup {f}
    /\ UNCHANGED <<archive, pending, failed, pcaps, tsvFiles, queue,
                   database, importer, worker>>

\* link() gives TRUE: the target is not there and the origin still is.  It looks first
\* and links then; nobody else makes the same link in between, as long as there is one
\* dsv-import.  (os.link would fail, and dsv-import end with an error that nobody catches.)
Linkable(origin, d, f) == f \in origin /\ f \notin pending[d]

\* writer.add
Add(j) == queue' = [queue EXCEPT ![j] = @ + 1]

\* files_to_process lists the directories once, before the first file is
\* handled.  A run that lists nothing changes nothing.
List(i) ==
    /\ ipc[i] = "idle"
    /\ incoming # {}
    /\ todo' = [todo EXCEPT ![i] = incoming]
    /\ ipc' = [ipc EXCEPT ![i] = "next"]
    /\ UNCHANGED <<disk, queue, database, cur, worker>>

\* The next file of the listing is linked to incoming/pending, if it is wanted.
LinkIncoming(i) ==
    \E f \in todo[i] :
        /\ ipc[i] = "next"
        /\ todo' = [todo EXCEPT ![i] = @ \ {f}]
        /\ cur' = [cur EXCEPT ![i] = f]
        /\ \/ /\ f \in ImportFiles /\ Linkable(incoming, "incoming", f)
              /\ pending' = [pending EXCEPT !["incoming"] = @ \cup {f}]
              /\ ipc' = [ipc EXCEPT ![i] = "add-tsv"]
           \/ /\ ~(f \in ImportFiles /\ Linkable(incoming, "incoming", f))
              /\ ipc' = [ipc EXCEPT ![i] = "pcap"]
              /\ UNCHANGED pending
        /\ UNCHANGED <<incoming, archive, failed, pcaps, tsvFiles, queue,
                       database, worker>>

AddCdnsToTsv(i) ==
    /\ ipc[i] = "add-tsv"
    /\ Add(NewJob("cdns-to-tsv", "incoming", cur[i]))
    /\ ipc' = [ipc EXCEPT ![i] = "pcap"]
    /\ UNCHANGED <<disk, database, todo, cur, worker>>

LinkPcap(i) ==
    /\ ipc[i] = "pcap"
    /\ \/ /\ cur[i] \in PcapFiles /\ Linkable(incoming, "pcap", cur[i])
          /\ pending' = [pending EXCEPT !["pcap"] = @ \cup {cur[i]}]
          /\ ipc' = [ipc EXCEPT ![i] = "add-pcap"]
       \/ /\ ~(cur[i] \in PcapFiles /\ Linkable(incoming, "pcap", cur[i]))
          /\ ipc' = [ipc EXCEPT ![i] = "rename"]
          /\ UNCHANGED pending
    /\ UNCHANGED <<incoming, archive, failed, pcaps, tsvFiles, queue,
                   database, todo, cur, worker>>

AddCdnsToPcap(i) ==
    /\ ipc[i] = "add-pcap"
    /\ Add(NewJob("cdns-to-pcap", "pcap", cur[i]))
    /\ ipc' = [ipc EXCEPT ![i] = "rename"]
    /\ UNCHANGED <<disk, database, todo, cur, worker>>

\* Faulty: the file is copied to the archive, and stays in incoming.
RenameCopies(i) ==
    /\ ipc[i] = "rename"
    /\ archive' = archive \cup {cur[i]}
    /\ ipc' = [ipc EXCEPT ![i] = "next"]
    /\ cur' = [cur EXCEPT ![i] = NoFile]
    /\ UNCHANGED <<incoming, pending, failed, pcaps, tsvFiles, queue, database, todo,
                   worker>>

\* Faulty: a file that has a pending link is not kept in the archive as well.
RenameOrUnlink(i) ==
    /\ ipc[i] = "rename"
    /\ incoming' = incoming \ {cur[i]}
    /\ archive' = IF cur[i] \in pending["incoming"] THEN archive
                  ELSE archive \cup {cur[i]}
    /\ ipc' = [ipc EXCEPT ![i] = "next"]
    /\ cur' = [cur EXCEPT ![i] = NoFile]
    /\ UNCHANGED <<pending, failed, pcaps, tsvFiles, queue, database, todo, worker>>

\* The file moves to the archive; one that is no longer there is passed over.
Rename(i) ==
    /\ ipc[i] = "rename"
    /\ incoming' = incoming \ {cur[i]}
    /\ archive' = IF cur[i] \in incoming THEN archive \cup {cur[i]} ELSE archive
    /\ ipc' = [ipc EXCEPT ![i] = "next"]
    /\ cur' = [cur EXCEPT ![i] = NoFile]
    /\ UNCHANGED <<pending, failed, pcaps, tsvFiles, queue, database, todo,
                   worker>>

Finish(i) ==
    /\ ipc[i] = "next"
    /\ todo[i] = {}
    /\ ipc' = [ipc EXCEPT ![i] = "idle"]
    /\ UNCHANGED <<disk, queue, database, todo, cur, worker>>

ImporterNext(i) ==
    \/ List(i) \/ LinkIncoming(i) \/ AddCdnsToTsv(i) \/ LinkPcap(i)
    \/ AddCdnsToPcap(i) \/ Rename(i) \/ Finish(i)

-----------------------------------------------------------------------------
(* dsv-worker: taking a job                                                *)

Goto(w, step) == wpc' = [wpc EXCEPT ![w] = step]

\* Worker w is at a step of the script of queue q.
At(w, step, q) == wpc[w] = step /\ wjob[w].queue = q

Take(w) ==
    \E j \in Jobs :
        /\ wpc[w] = "idle"
        /\ queue[j] > 0
        /\ queue' = [queue EXCEPT ![j] = @ - 1]
        /\ wjob' = [wjob EXCEPT ![w] = j]
        /\ Goto(w, "start")
        /\ UNCHANGED <<disk, database, importer>>

\* Exit code 99: a program, a template or a configuration item is missing.
\* The worker quits without an answer, so Gearman queues the job again.
InfraExit(w) ==
    /\ wpc[w] = "start"
    /\ Add(wjob[w])
    /\ Goto(w, "stopped")
    /\ wjob' = [wjob EXCEPT ![w] = NoJob]
    /\ UNCHANGED <<disk, database, importer>>

-----------------------------------------------------------------------------
(* The script dsv-cdns-to-tsv                                              *)

\* rm -f $basename.tsv* in the directory of the job's file.
RemoveTsv(j) ==
    /\ tsv' = [tsv EXCEPT ![j.dir][j.file] = "none"]
    /\ sidecar' = [sidecar EXCEPT ![j.dir] = @ \ {j.file}]

\* The node is looked up before the script looks at its file.
FindNode(w) ==
    /\ At(w, "start", "cdns-to-tsv")
    /\ Goto(w, "test")
    /\ UNCHANGED <<disk, queue, database, importer, wjob>>

\* A C-DNS link that is gone has been dealt with.  Else the inspector opens its
\* output: a TSV that is there already is either overwritten or kept, the output
\* then going to a file of another name.
BeginConvert(w) ==
    LET d == wjob[w].dir  f == wjob[w].file IN
    /\ At(w, "test", "cdns-to-tsv")
    /\ IF f \in pending[d]
       THEN /\ \/ tsv' = [tsv EXCEPT ![d][f] = "part"]
               \/ tsv[d][f] # "none" /\ UNCHANGED tsv
            /\ Goto(w, "convert")
       ELSE UNCHANGED tsv /\ Goto(w, "exit0")
    /\ UNCHANGED <<cdnsFiles, sidecar, queue, database, importer, wjob>>

\* Another worker's inspector is writing the same TSV.
SharedOutput(w) ==
    \E v \in Workers \ {w} :
        /\ At(v, "convert", "cdns-to-tsv")
        /\ wjob[v].dir = wjob[w].dir
        /\ wjob[v].file = wjob[w].file

\* Faulty: the TSV is submitted while it is still being compressed.
EndConvertEarly(w) ==
    /\ At(w, "convert", "cdns-to-tsv")
    /\ sidecar' = [sidecar EXCEPT ![wjob[w].dir] = @ \cup {wjob[w].file}]
    /\ Goto(w, "submit")
    /\ UNCHANGED <<cdnsFiles, tsv, queue, database, importer, wjob>>

\* The TSV is complete, unless someone removed it or is writing it too.  The
\* packet counts are extracted, or their file removed if that fails.
EndConvert(w) ==
    LET d == wjob[w].dir  f == wjob[w].file IN
    /\ At(w, "convert", "cdns-to-tsv")
    /\ IF tsv[d][f] = "none" \/ SharedOutput(w)
       THEN UNCHANGED tsv
       ELSE tsv' = [tsv EXCEPT ![d][f] = "whole"]
    /\ \/ sidecar' = [sidecar EXCEPT ![d] = @ \cup {f}]
       \/ sidecar' = [sidecar EXCEPT ![d] = @ \ {f}]
    /\ Goto(w, "submit")
    /\ UNCHANGED <<cdnsFiles, queue, database, importer, wjob>>

\* dsv-queue -q import-tsv.  (Recovery has submissions whose answer is lost.)
SubmitTsv(w) ==
    /\ At(w, "submit", "cdns-to-tsv")
    /\ Add(NewJob("import-tsv", wjob[w].dir, wjob[w].file))
    /\ Goto(w, "exit0")
    /\ UNCHANGED <<disk, database, importer, wjob>>

\* Faulty: the script ends well after an error.
ConvertErrorIgnored(w) ==
    /\ \E step \in {"start", "convert", "submit"} : At(w, step, "cdns-to-tsv")
    /\ RemoveTsv(wjob[w])
    /\ Goto(w, "exit0")
    /\ UNCHANGED <<cdnsFiles, queue, database, importer, wjob>>

\* error(): the node is unknown, the conversion or the submission failed.
ConvertError(w) ==
    /\ \E step \in {"start", "convert", "submit"} : At(w, step, "cdns-to-tsv")
    /\ RemoveTsv(wjob[w])
    /\ Goto(w, "exit1")
    /\ UNCHANGED <<cdnsFiles, queue, database, importer, wjob>>

-----------------------------------------------------------------------------
(* The script dsv-cdns-to-pcap                                             *)

ConvertPcap(w) ==
    LET f == wjob[w].file IN
    /\ At(w, "start", "cdns-to-pcap")
    /\ IF f \in pending[wjob[w].dir]
       THEN \/ pcaps' = pcaps \cup {f} /\ Goto(w, "exit0")
            \/ pcaps' = pcaps \ {f} /\ Goto(w, "exit1")
       ELSE UNCHANGED pcaps /\ Goto(w, "exit0")
    /\ UNCHANGED <<incoming, archive, pending, failed, tsvFiles, queue,
                   database, importer, wjob>>

-----------------------------------------------------------------------------
(* The script dsv-import-tsv                                               *)

TsvOf(w) == tsv[wjob[w].dir][wjob[w].file]

TestTsv(w) ==
    /\ At(w, "start", "import-tsv")
    /\ Goto(w, IF TsvOf(w) = "none" THEN "exit0" ELSE "query")
    /\ UNCHANGED <<disk, queue, database, importer, wjob>>

\* The file's first record is already there: the file is taken as imported.
AlreadyPresent(w) ==
    /\ At(w, "query", "import-tsv")
    /\ head[wjob[w].file] > 0
    /\ sidecar' = [sidecar EXCEPT ![wjob[w].dir] = @ \ {wjob[w].file}]
    /\ Goto(w, "exit0")
    /\ UNCHANGED <<cdnsFiles, tsv, queue, database, importer, wjob>>

\* Faulty: the file is imported whatever the database holds.
NotPresentUnasked(w) ==
    /\ At(w, "query", "import-tsv")
    /\ Goto(w, "insert")
    /\ UNCHANGED <<disk, queue, database, importer, wjob>>

NotPresent(w) ==
    /\ At(w, "query", "import-tsv")
    /\ head[wjob[w].file] = 0
    /\ Goto(w, "insert")
    /\ UNCHANGED <<disk, queue, database, importer, wjob>>

QueryFails(w) ==
    /\ At(w, "query", "import-tsv")
    /\ Goto(w, "exit2")
    /\ UNCHANGED <<disk, queue, database, importer, wjob>>

InsertHead(w) == head' = [head EXCEPT ![wjob[w].file] = @ + 1]

\* ClickHouse has stored every record that the file holds.
InsertRows(w) ==
    /\ TsvOf(w) # "none"
    /\ InsertHead(w)
    /\ tail' = IF TsvOf(w) = "whole"
               THEN [tail EXCEPT ![wjob[w].file] = @ + 1] ELSE tail

Insert(w) ==
    /\ At(w, "insert", "import-tsv")
    /\ InsertRows(w)
    /\ Goto(w, "counts")
    /\ UNCHANGED <<disk, queue, counts, importer, wjob>>

\* The client reports a failure; nothing, everything (the acknowledgement is
\* lost) or, unless AtomicInsert, only the first block may have been stored.
InsertFails(w) ==
    /\ At(w, "insert", "import-tsv")
    /\ \/ UNCHANGED <<head, tail>>
       \/ InsertRows(w)
       \/ /\ ~AtomicInsert /\ TsvOf(w) # "none"
          /\ InsertHead(w)
          /\ UNCHANGED tail
    /\ Goto(w, "exit2")
    /\ UNCHANGED <<disk, queue, counts, importer, wjob>>

\* The packet counts are imported last, if there are any.
NoCounts(w) ==
    /\ At(w, "counts", "import-tsv")
    /\ wjob[w].file \notin sidecar[wjob[w].dir]
    /\ Goto(w, "exit0")
    /\ UNCHANGED <<disk, queue, database, importer, wjob>>

InsertCounts(w) ==
    /\ At(w, "counts", "import-tsv")
    /\ wjob[w].file \in sidecar[wjob[w].dir]
    /\ counts' = [counts EXCEPT ![wjob[w].file] = @ + 1]
    /\ sidecar' = [sidecar EXCEPT ![wjob[w].dir] = @ \ {wjob[w].file}]
    /\ Goto(w, "exit0")
    /\ UNCHANGED <<cdnsFiles, tsv, queue, head, tail, importer, wjob>>

InsertCountsFails(w) ==
    /\ At(w, "counts", "import-tsv")
    /\ wjob[w].file \in sidecar[wjob[w].dir]
    /\ \/ UNCHANGED counts
       \/ counts' = [counts EXCEPT ![wjob[w].file] = @ + 1]
    /\ Goto(w, "exit2")
    /\ UNCHANGED <<disk, queue, head, tail, importer, wjob>>

-----------------------------------------------------------------------------
(* dsv-worker: the script's exit code                                      *)

\* Exit code 0: the job's file is deleted, if it is there.  Nobody else removes it between
\* the worker's look and its unlink(), since no other job is for the file (OneJob); where
\* jobs may be queued twice, in Recovery, they are two steps.
Unlink(w) ==
    LET j == wjob[w] IN
    /\ wpc[w] = "exit0"
    /\ \/ /\ j.queue = "import-tsv"
          /\ tsv' = [tsv EXCEPT ![j.dir][j.file] = "none"]
          /\ UNCHANGED pending
       \/ /\ j.queue \in ConvertQueues
          /\ pending' = [pending EXCEPT ![j.dir] = @ \ {j.file}]
          /\ UNCHANGED tsv
    /\ Goto(w, "finish")
    /\ UNCHANGED <<incoming, archive, failed, pcaps, sidecar, queue,
                   database, importer, wjob>>

\* Faulty: a file that failed is deleted.
MoveToErrorDeletes(w) ==
    LET j == wjob[w] IN
    /\ wpc[w] = "exit1" \/ (wpc[w] = "exit2" /\ j.retry >= MaxRetries)
    /\ IF j.queue = "import-tsv"
       THEN tsv' = [tsv EXCEPT ![j.dir][j.file] = "none"] /\ UNCHANGED pending
       ELSE pending' = [pending EXCEPT ![j.dir] = @ \ {j.file}] /\ UNCHANGED tsv
    /\ Goto(w, "finish")
    /\ UNCHANGED <<incoming, archive, failed, pcaps, sidecar, queue, database,
                   importer, wjob>>

\* Exit code 1, or 2 once too often: the job's file, if it is there, moves to
\* the queue's error directory.  A TSV there is replaced; a C-DNS file there is
\* another hard link to the same file, and rename(2) then does nothing.  (Recovery has
\* the look at the file, and the rename, as two steps.)
MoveToError(w) ==
    LET j == wjob[w] IN
    /\ wpc[w] = "exit1" \/ (wpc[w] = "exit2" /\ j.retry >= MaxRetries)
    /\ \/ /\ j.queue = "import-tsv"
          /\ tsv' = IF TsvOf(w) = "none" THEN tsv
                    ELSE [tsv EXCEPT !["error"][j.file] = TsvOf(w),
                                     ![j.dir][j.file] = "none"]
          /\ UNCHANGED <<pending, failed>>
       \/ /\ j.queue \in ConvertQueues
          /\ IF j.file \in pending[j.dir] \ failed[j.queue]
             THEN /\ pending' = [pending EXCEPT ![j.dir] = @ \ {j.file}]
                  /\ failed' = [failed EXCEPT ![j.queue] = @ \cup {j.file}]
             ELSE UNCHANGED <<pending, failed>>
          /\ UNCHANGED tsv
    /\ Goto(w, "finish")
    /\ UNCHANGED <<incoming, archive, pcaps, sidecar, queue, database,
                   importer, wjob>>

\* job.done() or job.failed(): Gearman forgets the job.
Answer(w) ==
    /\ wpc[w] = "finish"
    /\ Goto(w, "idle")
    /\ wjob' = [wjob EXCEPT ![w] = NoJob]
    /\ UNCHANGED <<disk, queue, database, importer>>

\* Faulty: one try too many.
FailTransientOnceMore(w) ==
    /\ wpc[w] = "exit2"
    /\ wjob[w].retry <= MaxRetries
    /\ Goto(w, "resubmit")
    /\ UNCHANGED <<disk, queue, database, importer, wjob>>

\* Exit code 2: Gearman is told that the job failed ...
FailTransient(w) ==
    /\ wpc[w] = "exit2"
    /\ wjob[w].retry < MaxRetries
    /\ Goto(w, "resubmit")
    /\ UNCHANGED <<disk, queue, database, importer, wjob>>

\* Faulty: the tries are not counted.
ResubmitUncounted(w) ==
    /\ wpc[w] = "resubmit"
    /\ Add(wjob[w])
    /\ Goto(w, "idle")
    /\ wjob' = [wjob EXCEPT ![w] = NoJob]
    /\ UNCHANGED <<disk, database, importer>>

\* ... and then a new job is submitted for the next try.
Resubmit(w) ==
    /\ wpc[w] = "resubmit"
    /\ Add([wjob[w] EXCEPT !.retry = @ + 1])
    /\ Goto(w, "idle")
    /\ wjob' = [wjob EXCEPT ![w] = NoJob]
    /\ UNCHANGED <<disk, database, importer>>

ScriptNext(w) ==
    \/ FindNode(w) \/ BeginConvert(w) \/ EndConvert(w)
    \/ SubmitTsv(w) \/ ConvertError(w)
    \/ ConvertPcap(w)
    \/ TestTsv(w) \/ AlreadyPresent(w) \/ NotPresent(w) \/ QueryFails(w)
    \/ Insert(w) \/ InsertFails(w) \/ NoCounts(w) \/ InsertCounts(w)
    \/ InsertCountsFails(w)

ExitNext(w) ==
    \/ Unlink(w) \/ MoveToError(w) \/ Answer(w) \/ FailTransient(w) \/ Resubmit(w)

WorkerNext(w) == Take(w) \/ InfraExit(w) \/ ScriptNext(w) \/ ExitNext(w)

Next ==
    \/ \E f \in Files : Arrive(f)
    \/ \E i \in Importers : ImporterNext(i)
    \/ \E w \in Workers : WorkerNext(w)

Spec == Init /\ [][Next]_vars

\* Cron starts dsv-import every five minutes and it runs to its end; a worker
\* keeps taking jobs and a script it runs comes to an end.
Fairness ==
    /\ \A i \in Importers : WF_vars(ImporterNext(i))
    /\ \A w \in Workers : WF_vars(WorkerNext(w))

FairSpec == Spec /\ Fairness

-----------------------------------------------------------------------------
(* Properties                                                              *)

\* Every variable has its type; a worker has a job exactly while it works on it,
\* and tries no job more than MaxRetries times again.
TypeOK ==
    /\ incoming \subseteq Files /\ archive \subseteq Files /\ pcaps \subseteq Files
    /\ pending \in [PendingDirs -> SUBSET Files]
    /\ sidecar \in [PendingDirs -> SUBSET Files]
    /\ failed \in [ConvertQueues -> SUBSET Files]
    /\ tsv \in [TsvDirs -> [Files -> Contents]]
    /\ queue \in [Jobs -> Nat]
    /\ head \in [Files -> Nat] /\ tail \in [Files -> Nat] /\ counts \in [Files -> Nat]
    /\ ipc \in [Importers -> ImporterSteps]
    /\ todo \in [Importers -> SUBSET Files]
    /\ \A i \in Importers :
        cur[i] \in (IF ipc[i] \in {"idle", "next"} THEN {NoFile} ELSE Files)
    /\ cur \in [Importers -> Files \cup {NoFile}]
    /\ wpc \in [Workers -> WorkerSteps]
    /\ wjob \in [Workers -> Jobs \cup {NoJob}]
    /\ \A w \in Workers :
        /\ wjob[w] = NoJob <=> wpc[w] \in {"idle", "stopped"}
        /\ wpc[w] = "resubmit" => wjob[w].retry < MaxRetries

\* Job j works on entry f of directory d for queue q.
IsFor(j, q, d, f) == j.queue = q /\ j.dir = d /\ j.file = f

Waiting(q, d, f) ==
    \E r \in 0..MaxRetries :
        queue[[queue |-> q, dir |-> d, file |-> f, retry |-> r]] > 0

Held(q, d, f) == \E w \in Workers : IsFor(wjob[w], q, d, f)

\* dsv-import has made the link and is about to submit the job for it.
Linked(q, f) ==
    \E i \in Importers :
        /\ cur[i] = f
        /\ ipc[i] = IF q = "cdns-to-tsv" THEN "add-tsv" ELSE "add-pcap"

\* A file that was received for the database is somewhere on its way, set aside
\* in an error directory, or its first record is in the database.
RecordsKept ==
    \A f \in ImportFiles \cap archive :
        \/ f \in pending["incoming"] \cup failed["cdns-to-tsv"]
        \/ tsv["incoming"][f] = "whole"
        \/ tsv["error"][f] = "whole"
        \/ head[f] > 0

\* Likewise for one that a PCAP is wanted of.
PcapsKept ==
    \A f \in PcapFiles \cap archive :
        f \in pending["pcap"] \cup failed["cdns-to-pcap"] \cup pcaps

\* No interleaving of dsv-import, the workers and their retries makes a file
\* vanish between two directories, or between the last of them and the database.
NothingLost == RecordsKept /\ PcapsKept

\* The pending directories and the queues are in sync (admin.adoc: "in a running
\* system the pending directory contents and the Gearman queues should always be
\* in sync"): a C-DNS link has a job, queued, with a worker or about to be
\* submitted; a queued job has its file, and a TSV queued is complete.
InSync ==
    /\ \A q \in ConvertQueues, d \in PendingDirs, f \in Files :
        Waiting(q, d, f) => f \in pending[d]
    /\ \A d \in PendingDirs, f \in Files :
        Waiting("import-tsv", d, f) => tsv[d][f] = "whole"
    /\ \A d \in PendingDirs, f \in Files : f \in pending[d] =>
        \E q \in ConvertQueues : Waiting(q, d, f) \/ Held(q, d, f) \/ Linked(q, f)

\* No file is worked on for two jobs of a queue: a job is not queued twice, nor
\* queued while a worker has it or dsv-import is about to submit it, nor with two
\* workers, so no two scripts write, load or delete the same file.
OneJob ==
    /\ \A j \in Jobs : queue[j] <= 1
    /\ \A j \in Jobs : queue[j] > 0 =>
        \A r \in 0..MaxRetries \ {j.retry} : queue[[j EXCEPT !.retry = r]] = 0
    /\ \A w \in Workers : wjob[w] # NoJob =>
        ~Waiting(wjob[w].queue, wjob[w].dir, wjob[w].file)
    /\ \A q \in ConvertQueues, f \in Files : Linked(q, f) =>
        \A d \in {"incoming", "pcap"} : ~Waiting(q, d, f) /\ ~Held(q, d, f)
    /\ \A v, w \in Workers :
        wjob[v] # NoJob /\ IsFor(wjob[v], wjob[w].queue, wjob[w].dir, wjob[w].file)
            => v = w

\* No record of a file is in the database twice, although an INSERT whose
\* acknowledgement is lost is retried: dsv-import-tsv asks for the first record.
NoDuplicates == \A f \in Files : head[f] <= 1 /\ tail[f] <= 1 /\ counts[f] <= 1

\* A file whose first record is in the database is there completely, provided
\* that a failed INSERT leaves all or nothing.  That first record makes every
\* later attempt skip the file, so one import of an incomplete TSV is final.
CompleteImport == AtomicInsert => \A f \in Files : head[f] = tail[f]

\* The packet counts of a loaded file are loaded before their file is deleted.
\* (dsv-worker: "2 = Transient failure. Re-enter job in queue": the retry is to
\* do what the failed attempt did not.)
CountsLoaded ==
    [][\A d \in PendingDirs : \A f \in sidecar[d] :
        f \notin sidecar'[d] /\ head'[f] > 0 => counts'[f] > 0]_vars

AllStopped == \A w \in Workers : wpc[w] = "stopped"

\* The stage of FileLifecycle that a file is in.
StageOf(f) ==
    IF head[f] > 0 THEN "loaded"
    ELSE IF f \in failed["cdns-to-tsv"] \/ tsv["error"][f] # "none" THEN "rejected"
    ELSE IF f \in pending["incoming"] \/ tsv["incoming"][f] # "none" THEN "queued"
    ELSE IF f \in incoming THEN "received"
    ELSE IF f \in archive THEN "archived" ELSE "absent"

Lifecycle == INSTANCE FileLifecycle
    WITH Wanted <- ImportFiles, stage <- [f \in Files |-> StageOf(f)]

\* The pipeline implements FileLifecycle: every step of an importer or a worker
\* moves at most one file one stage on, or none.
ImplementsLifecycle == Lifecycle!Spec
=============================================================================
