------------------------------ MODULE Recovery ------------------------------
(***************************************************************************)
(* The pipeline with what goes wrong around it, and what an operator does  *)
(* about it.  Gearman restarts and forgets its queues, a worker dies while *)
(* its script runs on, dsv-import is killed, the host goes down.  The      *)
(* operator runs dsv-import with the other sources: cbor and pcap work     *)
(* through the archive, error and regen-error-tsv through the error        *)
(* directories, pending queues again what the pending directories hold.    *)
(*                                                                         *)
(* Workers are processes: the one that supervisor starts in place of one   *)
(* that is gone is another of them, and works while the other's script may *)
(* still be running.                                                       *)
(***************************************************************************)
EXTENDS Pipeline, Sequences, FiniteSets

CONSTANTS
    PcapOnRequest,  \* files dsv.filter allows a PCAP of (generate_pcap_manual)
    Sources,        \* the sources the operator runs dsv-import for
    MaxCommands,    \* bound: how many such runs
    Faults,         \* the faults that happen
    MaxFaults       \* bound: how many of them

ASSUME RecoveryAssumption ==
    /\ PcapOnRequest \subseteq Files
    /\ Sources \subseteq {"cbor", "pcap", "error", "regen-error-tsv", "pending"}
    /\ Faults \subseteq {"gearman", "worker", "import", "host", "answer"}
    /\ MaxCommands \in Nat /\ MaxFaults \in Nat

VARIABLES
    oppc,       \* where the operator's dsv-import is
    source,     \* its --source
    loop,       \* which of its loops over directories it is in
    listing,    \* the jobs its listing has still to yield
    target,     \* the job it is submitting
    bond,       \* what is left between Gearman, each worker and its script
    seen,       \* the workers that have found their job's file, to remove or move it
    commands,   \* the sources the operator has run it for, each at most once
    faults,     \* how many faults there have been
    reload      \* the queues are to be loaded again since the last fault

operator == <<oppc, source, loop, listing, target, commands>>
rvars == <<vars, operator, bond, seen, faults, reload>>

RecoveryInit ==
    /\ Init
    /\ oppc = "idle" /\ source = "none" /\ loop = 0
    /\ listing = {} /\ target = NoJob
    /\ bond = [w \in Workers |-> "ok"] /\ seen = {}
    /\ commands = {} /\ faults = 0 /\ reload = FALSE

-----------------------------------------------------------------------------
(* dsv-import with another source.  A target is the job that a listed file *)
(* is to get: its queue and its place in a pending directory.              *)

Targets(q, d, S) == {NewJob(q, d, f) : f \in S}

TsvIn(d) == {f \in Files : tsv[d][f] # "none"}

\* Faulty: only TSV files are looked for in the pending directories.
ListingsTsvOnly(s) == <<Targets("import-tsv", "incoming", TsvIn("incoming"))>>

\* What each loop of the command lists, when it starts.
Listings(s) ==
    CASE s = "cbor" -> <<Targets("cdns-to-tsv", "cbor", archive \cap ImportFiles)>>
      [] s = "pcap" -> <<Targets("cdns-to-pcap", "pcap", archive \cap PcapOnRequest)>>
      [] s = "error" ->
            <<Targets("cdns-to-tsv", "incoming", failed["cdns-to-tsv"]),
              Targets("cdns-to-pcap", "incoming", failed["cdns-to-pcap"]),
              Targets("import-tsv", "incoming", TsvIn("error"))>>
      [] s = "regen-error-tsv" -> <<Targets("cdns-to-tsv", "incoming", TsvIn("error"))>>
      [] s = "pending" ->
            <<Targets("cdns-to-tsv", "incoming", pending["incoming"]),
              Targets("cdns-to-tsv", "cbor", pending["cbor"]),
              Targets("import-tsv", "incoming", TsvIn("incoming")),
              Targets("import-tsv", "cbor", TsvIn("cbor")),
              Targets("cdns-to-pcap", "pcap", pending["pcap"])>>

Run(s) ==
    /\ oppc = "idle"
    /\ oppc' = "next"
    /\ source' = s
    /\ loop' = 1
    /\ listing' = Listings(s)[1]
    /\ UNCHANGED <<vars, target, bond, seen, faults>>

RunCommand ==
    /\ Cardinality(commands) < MaxCommands
    /\ \E s \in Sources \ commands :
        /\ Run(s)
        /\ commands' = commands \cup {s}
    /\ UNCHANGED reload

\* After a fault the queues are loaded again from the pending directories, as
\* the Gearman service may be set up to do whenever it starts.
Reload ==
    /\ reload
    /\ reload' = FALSE
    /\ Run("pending")
    /\ UNCHANGED commands

StopCommand ==
    /\ oppc' = "idle" /\ source' = "none" /\ loop' = 0
    /\ listing' = {} /\ target' = NoJob

NextLoop ==
    /\ oppc = "next" /\ listing = {}
    /\ IF loop < Len(Listings(source))
       THEN /\ loop' = loop + 1
            /\ listing' = Listings(source)[loop + 1]
            /\ UNCHANGED <<oppc, source, target>>
       ELSE StopCommand
    /\ UNCHANGED <<vars, commands, bond, seen, faults, reload>>

\* The listed file is taken on: its job is next to be submitted.
Yield(j) ==
    /\ oppc = "next"
    /\ j \in listing
    /\ listing' = listing \ {j}
    /\ UNCHANGED <<source, loop, commands, bond, seen, faults, reload>>

Chosen(j) == oppc' = "add" /\ target' = j

\* -s pending adds a job for every file, whatever the queues hold.
TakePending ==
    \E j \in listing :
        /\ source = "pending"
        /\ Yield(j) /\ Chosen(j)
        /\ UNCHANGED vars

\* Where the command links a C-DNS file from.
Origin(j) == IF source = "error" THEN failed[j.queue] ELSE archive

\* Faulty: the job is submitted although the link was not made.
LinkCdnsForgotten ==
    \E j \in listing :
        /\ source # "pending" /\ j.queue \in ConvertQueues
        /\ Yield(j) /\ Chosen(j)
        /\ UNCHANGED vars

LinkCdns ==
    \E j \in listing :
        /\ source # "pending" /\ j.queue \in ConvertQueues
        /\ Linkable(Origin(j), j.dir, j.file)
        /\ Yield(j) /\ Chosen(j)
        /\ pending' = [pending EXCEPT ![j.dir] = @ \cup {j.file}]
        /\ UNCHANGED <<incoming, archive, failed, pcaps, tsvFiles, queue, database,
                       importer, worker>>

\* A TSV in error-import-tsv is linked back to incoming/pending.
LinkTsv ==
    \E j \in listing :
        /\ source = "error" /\ j.queue = "import-tsv"
        /\ tsv[j.dir][j.file] = "none" /\ tsv["error"][j.file] # "none"
        /\ Yield(j) /\ Chosen(j)
        /\ tsv' = [tsv EXCEPT ![j.dir][j.file] = tsv["error"][j.file]]
        /\ UNCHANGED <<cdnsFiles, sidecar, queue, database, importer, worker>>

\* link() gives FALSE: the file is passed over.
LinkFails ==
    \E j \in listing :
        /\ source \in {"cbor", "pcap", "error"}
        /\ IF j.queue = "import-tsv"
           THEN tsv[j.dir][j.file] # "none" \/ tsv["error"][j.file] = "none"
           ELSE ~Linkable(Origin(j), j.dir, j.file)
        /\ Yield(j)
        /\ UNCHANGED <<vars, oppc, target>>

\* Regeneration finds the conversion already pending: the TSV is all to remove.
RegenPending ==
    \E j \in listing :
        /\ source = "regen-error-tsv"
        /\ j.file \in archive \cap pending[j.dir]
        /\ Yield(j)
        /\ tsv' = [tsv EXCEPT !["error"][j.file] = "none"]
        /\ UNCHANGED <<cdnsFiles, sidecar, queue, database, importer, worker, oppc,
                       target>>

\* The archive does not hold the C-DNS file: next() raises StopIteration, which
\* ends the run.
RegenAborts ==
    \E j \in listing :
        /\ source = "regen-error-tsv"
        /\ j.file \notin archive
        /\ oppc = "next"
        /\ StopCommand
        /\ UNCHANGED <<vars, commands, bond, seen, faults, reload>>

AddTarget ==
    /\ oppc = "add"
    /\ Add(target)
    /\ IF source \in {"error", "regen-error-tsv"}
       THEN oppc' = "unlink" /\ UNCHANGED target
       ELSE oppc' = "next" /\ target' = NoJob
    /\ UNCHANGED <<disk, database, importer, worker, source, loop, listing, commands,
                   bond, seen, faults, reload>>

\* The file in the error directory goes when its job has been submitted.
UnlinkError ==
    /\ oppc = "unlink"
    /\ IF source = "error" /\ target.queue \in ConvertQueues
       THEN /\ failed' = [failed EXCEPT ![target.queue] = @ \ {target.file}]
            /\ UNCHANGED tsv
       ELSE /\ tsv' = [tsv EXCEPT !["error"][target.file] = "none"]
            /\ UNCHANGED failed
    /\ oppc' = "next" /\ target' = NoJob
    /\ UNCHANGED <<incoming, archive, pending, pcaps, sidecar, queue, database,
                   importer, worker, source, loop, listing, commands, bond, seen,
                   faults, reload>>

OperatorNext ==
    \/ RunCommand \/ Reload \/ NextLoop \/ TakePending \/ LinkCdns \/ LinkTsv
    \/ LinkFails \/ RegenPending \/ RegenAborts \/ AddTarget \/ UnlinkError

-----------------------------------------------------------------------------
(* Workers, when Gearman may have forgotten their job ("cut") or they have *)
(* died and left a script behind ("dead").                                 *)

\* The TSV that is being put back from error-import-tsv is one file with two
\* names: renaming one to the other does nothing.
Refilling(j) ==
    /\ oppc \in {"add", "unlink"} /\ source = "error"
    /\ target.queue = "import-tsv" /\ j = [target EXCEPT !.retry = j.retry]

RenameNothing(w) ==
    /\ wpc[w] = "exit1" \/ (wpc[w] = "exit2" /\ wjob[w].retry >= MaxRetries)
    /\ Refilling(wjob[w])
    /\ Goto(w, "finish")
    /\ UNCHANGED <<disk, queue, database, importer, wjob>>

\* The exit code asks for the job's file to be removed, or to be moved.
Removes(w) ==
    wpc[w] \in {"exit0", "exit1"} \/ (wpc[w] = "exit2" /\ wjob[w].retry >= MaxRetries)

FileThere(w) ==
    IF wjob[w].queue = "import-tsv" THEN TsvOf(w) # "none"
    ELSE wjob[w].file \in pending[wjob[w].dir]

\* exists(): when the file is there, the worker goes on to remove or move it.
Look(w) ==
    /\ Removes(w) /\ FileThere(w) /\ w \notin seen
    /\ seen' = seen \cup {w}
    /\ UNCHANGED vars

\* What it found is what it finds; or the file was not there at all.
Removal(w) ==
    /\ Removes(w) /\ (w \in seen <=> FileThere(w))
    /\ Unlink(w) \/ (MoveToError(w) /\ ~Refilling(wjob[w])) \/ RenameNothing(w)

LiveExit(w) == Removal(w) \/ Answer(w) \/ FailTransient(w) \/ Resubmit(w)

BondNext(w) ==
    \/ /\ bond[w] = "ok"
       /\ Take(w) \/ InfraExit(w) \/ ScriptNext(w) \/ LiveExit(w)
       /\ seen' = seen \ {w}
       /\ UNCHANGED bond
    \/ /\ bond[w] = "cut"
       /\ ScriptNext(w) \/ LiveExit(w)
       /\ bond' = IF wpc'[w] = "idle" THEN [bond EXCEPT ![w] = "ok"] ELSE bond
       /\ seen' = seen \ {w}
    \/ /\ bond[w] = "dead"
       /\ ScriptNext(w)
       /\ UNCHANGED <<bond, seen>>
    \/ /\ bond[w] # "dead"
       /\ Look(w)
       /\ UNCHANGED bond

\* The worker quits without an answer, and Gearman queues the job again if it has it.
Quits(w) ==
    /\ IF bond[w] = "ok" THEN Add(wjob[w]) ELSE UNCHANGED queue
    /\ Goto(w, "stopped")
    /\ wjob' = [wjob EXCEPT ![w] = NoJob]
    /\ bond' = [bond EXCEPT ![w] = "ok"]
    /\ seen' = seen \ {w}
    /\ UNCHANGED <<disk, database, importer>>

\* An infrastructure exit when Gearman no longer has the job to queue again.
CutExit(w) ==
    /\ bond[w] = "cut" /\ wpc[w] = "start"
    /\ Quits(w)

\* Another worker, with another job for the file, has removed what was found: the
\* FileNotFoundError is an OSError, as an infrastructure error is.
Vanished(w) ==
    /\ w \in seen /\ ~FileThere(w)
    /\ Quits(w)

\* A script that outlives its worker ends, and nobody looks at its exit code.
OrphanEnds(w) ==
    /\ bond[w] = "dead" /\ wpc[w] \in {"start", "exit0", "exit1", "exit2"}
    /\ Goto(w, "idle")
    /\ wjob' = [wjob EXCEPT ![w] = NoJob]
    /\ bond' = [bond EXCEPT ![w] = "ok"]
    /\ UNCHANGED <<disk, queue, database, importer, seen>>

LoopNext(w) == BondNext(w) \/ CutExit(w) \/ Vanished(w) \/ OrphanEnds(w)

WorkersNext ==
    /\ \E w \in Workers : LoopNext(w)
    /\ UNCHANGED <<operator, faults, reload>>

-----------------------------------------------------------------------------
(* Faults.  The directories survive all of them.                           *)

Fault(kind) ==
    /\ kind \in Faults
    /\ faults < MaxFaults
    /\ faults' = faults + 1

\* Gearman's queues are not persistent.
GearmanRestarts ==
    /\ Fault("gearman")
    /\ queue' = [j \in Jobs |-> 0]
    /\ bond' = [w \in Workers |-> IF bond[w] = "ok" /\ wjob[w] # NoJob
                                  THEN "cut" ELSE bond[w]]
    /\ reload' = TRUE
    /\ UNCHANGED <<disk, database, importer, worker, operator, seen>>

ScriptSteps == {"start", "test", "convert", "submit", "query", "insert", "counts"}

\* A worker dies: Gearman queues its job again, unless it has been told that the
\* job failed.  The script the worker was running goes on.
WorkerDies(w) ==
    /\ Fault("worker")
    /\ wjob[w] # NoJob /\ bond[w] # "dead"
    /\ IF bond[w] = "ok" /\ wpc[w] # "resubmit" THEN Add(wjob[w]) ELSE UNCHANGED queue
    /\ IF wpc[w] \in ScriptSteps
       THEN bond' = [bond EXCEPT ![w] = "dead"] /\ UNCHANGED worker
       ELSE /\ bond' = [bond EXCEPT ![w] = "ok"]
            /\ Goto(w, "idle")
            /\ wjob' = [wjob EXCEPT ![w] = NoJob]
    /\ seen' = seen \ {w}
    /\ reload' = TRUE
    /\ UNCHANGED <<disk, database, importer, operator>>

ImportDies(i) ==
    /\ Fault("import")
    /\ ipc[i] # "idle"
    /\ ipc' = [ipc EXCEPT ![i] = "idle"]
    /\ todo' = [todo EXCEPT ![i] = {}]
    /\ cur' = [cur EXCEPT ![i] = NoFile]
    /\ reload' = TRUE
    /\ UNCHANGED <<disk, queue, database, worker, operator, bond, seen>>

HostCrashes ==
    /\ Fault("host")
    /\ queue' = [j \in Jobs |-> 0]
    /\ ipc' = [i \in Importers |-> "idle"]
    /\ todo' = [i \in Importers |-> {}]
    /\ cur' = [i \in Importers |-> NoFile]
    /\ wpc' = [w \in Workers |-> "idle"]
    /\ wjob' = [w \in Workers |-> NoJob]
    /\ bond' = [w \in Workers |-> "ok"] /\ seen' = {}
    /\ StopCommand
    /\ reload' = TRUE
    /\ UNCHANGED <<disk, database, commands>>

\* Gearman queues the job for a TSV, but its answer does not reach dsv-queue: the script
\* takes the submission for failed, and removes the TSV.
SubmitUnanswered(w) ==
    /\ Fault("answer")
    /\ At(w, "submit", "cdns-to-tsv")
    /\ Add(NewJob("import-tsv", wjob[w].dir, wjob[w].file))
    /\ RemoveTsv(wjob[w])
    /\ Goto(w, "exit1")
    /\ UNCHANGED <<cdnsFiles, database, importer, wjob, operator, bond, seen, reload>>

FaultNext ==
    \/ GearmanRestarts \/ HostCrashes
    \/ \E w \in Workers : WorkerDies(w) \/ SubmitUnanswered(w)
    \/ \E i \in Importers : ImportDies(i)

RecoveryNext ==
    \/ /\ (\E f \in Files : Arrive(f)) \/ (\E i \in Importers : ImporterNext(i))
       /\ UNCHANGED <<operator, bond, seen, faults, reload>>
    \/ WorkersNext
    \/ OperatorNext
    \/ FaultNext

RecoverySpec == RecoveryInit /\ [][RecoveryNext]_rvars

\* The fairness of Pipeline; a command that was started runs to its end; and
\* after a fault the queues are loaded again in the end.
RecoveryFairness ==
    /\ \A i \in Importers :
        WF_rvars(ImporterNext(i) /\ UNCHANGED <<operator, bond, seen, faults, reload>>)
    /\ \A w \in Workers :
        WF_rvars(LoopNext(w) /\ UNCHANGED <<operator, faults, reload>>)
    /\ WF_rvars(OperatorNext /\ UNCHANGED commands)

RecoveryFairSpec == RecoverySpec /\ RecoveryFairness

-----------------------------------------------------------------------------
(* Properties                                                              *)

\* Every variable has its type.
RecoveryTypeOK ==
    /\ TypeOK
    /\ oppc \in {"idle", "next", "add", "unlink"}
    /\ source \in Sources \cup {"pending", "none"} /\ loop \in 0..5
    /\ listing \subseteq Jobs
    /\ target \in Jobs \cup {NoJob} /\ (target # NoJob <=> oppc \in {"add", "unlink"})
    /\ bond \in [Workers -> {"ok", "cut", "dead"}]
    /\ \A w \in Workers : bond[w] # "ok" => wjob[w] # NoJob
    /\ seen \subseteq {w \in Workers : Removes(w) /\ bond[w] # "dead"}
    /\ commands \subseteq Sources /\ faults \in 0..MaxFaults
    /\ reload \in BOOLEAN

\* Whatever fails and however often a file is queued again, its first record is
\* stored at most once by each script that was running at the time: the question
\* dsv-import-tsv asks first stops every later one.
DuplicatesBounded ==
    \A f \in Files : tail[f] <= head[f] /\ head[f] <= Cardinality(Workers)

\* A file the pipeline has received can always be imported again: it is in
\* incoming or in the archive, across every crash and every command.
OriginalKept == [][incoming \cup archive \subseteq incoming' \cup archive']_rvars

\* The commands other than regeneration let no file received for the database
\* vanish, while the workers go on with the same files.
CommandsKeepRecords == "regen-error-tsv" \notin commands => RecordsKept

\* A file leaves an error directory only for a pending directory, or when it has
\* come further than that: dsv-import -s error removes it last.
RefillKeepsFile ==
    [][/\ \A f \in failed["cdns-to-tsv"] \ failed'["cdns-to-tsv"] :
            \/ f \in pending'["incoming"] \/ tsv'["incoming"][f] # "none"
            \/ tsv'["error"][f] # "none" \/ head'[f] > 0]_rvars

\* The queues run empty once faults and commands end, however jobs were
\* duplicated and retried, unless every worker has quit.
QueuesDrain == <>[](AllStopped \/ \A j \in Jobs : queue[j] = 0)

\* A C-DNS link does not stay in a pending directory: after a fault, loading the
\* queues from the pending directories brings back every job that was lost.
\* (Except that a file that is in the error directory already stays: the worker
\* moves it there with rename(2), which does nothing for two names of one file.)
PendingDrains ==
    \A d \in PendingDirs, f \in Files : f \in pending[d] ~>
        f \notin pending[d] \/ f \in failed["cdns-to-tsv"] \/ AllStopped

\* Without faults, and unless infrastructure errors have stopped every worker,
\* each file received for the database is loaded or set aside in the end: retries
\* end, and no job waits for ever.
Settles ==
    \A f \in ImportFiles : f \in incoming ~>
        \/ head[f] > 0 \/ f \in failed["cdns-to-tsv"] \/ tsv["error"][f] # "none"
        \/ faults > 0 \/ AllStopped

\* No job waits for ever, no file waits for a job for ever, and without faults each
\* file is dealt with in the end.
Drains == QueuesDrain /\ PendingDrains /\ Settles
=============================================================================
