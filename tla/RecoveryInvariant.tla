------------------------- MODULE RecoveryInvariant --------------------------
(***************************************************************************)
(* The inductive invariant of Recovery for one command of an operator that *)
(* does not regenerate TSV files, beside dsv-import -s incoming and the    *)
(* workers, when nothing fails.  An entry is a link or a TSV in a pending  *)
(* directory; at any time it has one job at most.                          *)
(***************************************************************************)
EXTENDS Recovery, PipelineInvariant

OneCommand ==
    /\ OneImporter
    /\ MaxCommands <= 1 /\ MaxFaults = 0
    /\ "pending" \notin Sources

\* Job j is for file f in directory d, for the TSV or the link as queue q is.
OfEntry(j, q, d, f) ==
    (j.queue = "import-tsv" <=> q = "import-tsv") /\ j.dir = d /\ j.file = f

Rivals(j, k) == OfEntry(j, k.queue, k.dir, k.file)

\* The worker is not done with its job's file.
Works(w) == wpc[w] # "finish"

\* No job for the entry is waiting or worked on.
Clear(q, d, f) ==
    /\ \A j \in Jobs : queue[j] > 0 => ~OfEntry(j, q, d, f)
    /\ \A w \in Workers : Works(w) => ~OfEntry(wjob[w], q, d, f)

OneJobInv ==
    /\ \A j \in Jobs : queue[j] <= 1
    /\ \A j, k \in Jobs : queue[j] > 0 /\ queue[k] > 0 /\ Rivals(j, k) => j = k
    /\ \A w \in Workers, j \in Jobs : Works(w) /\ queue[j] > 0 => ~Rivals(wjob[w], j)
    /\ \A v, w \in Workers :
        Works(v) /\ Works(w) /\ wjob[v] # NoJob /\ Rivals(wjob[v], wjob[w]) => v = w

\* dsv-import -s error is putting file f back for queue q.
Targeted(q, f) ==
    oppc \in {"add", "unlink"} /\ source = "error" /\ target.queue = q /\ target.file = f

\* The records of a file would be kept if it lost its link.
Spared(f) == f \in ImportFiles => f \in failed["cdns-to-tsv"] \/ TsvKept(f)

\* A conversion to TSV is to come, or going on: there is no other TSV of the file, but for
\* those that the source cbor brings about.
Converts(d, f, content) ==
    /\ f \in pending[d] /\ tsv[d][f] = content /\ Clear("import-tsv", d, f)
    /\ "cbor" \notin commands =>
        /\ d = "incoming" /\ tsv["error"][f] = "none"
        /\ f \in failed["cdns-to-tsv"] => Targeted("cdns-to-tsv", f)

\* A link for a PCAP in incoming/pending takes the place of one for a TSV.
Links(d, f) == f \in pending[d] /\ (d = "incoming" => Spared(f))

Imports(d, f) == tsv[d][f] = "whole" /\ ("cbor" \notin commands => d = "incoming")

\* What a job finds that is submitted or waiting.
Ready(j) ==
    /\ j.queue = "cdns-to-tsv" => Converts(j.dir, j.file, "none")
    /\ j.queue = "cdns-to-pcap" => Links(j.dir, j.file)
    /\ j.queue = "import-tsv" => Imports(j.dir, j.file)

\* What a worker finds at each step.
Step(w) ==
    LET d == wjob[w].dir  f == wjob[w].file IN
    /\ wjob[w].queue = "cdns-to-tsv" =>
        /\ wpc[w] \in {"start", "test", "convert", "submit", "exit0", "exit1", "finish"}
        /\ wpc[w] \in {"start", "test", "exit1"} => Converts(d, f, "none")
        /\ wpc[w] = "convert" => Converts(d, f, "part")
        /\ wpc[w] = "submit" => Converts(d, f, "whole")
        /\ wpc[w] = "exit0" => f \in pending[d] /\ (d = "incoming" => TsvKept(f))
    /\ wjob[w].queue = "cdns-to-pcap" =>
        /\ wpc[w] \in {"start", "exit0", "exit1", "finish"}
        /\ Works(w) => Links(d, f)
    /\ wjob[w].queue = "import-tsv" =>
        /\ wpc[w] \in {"start", "query", "insert", "counts", "exit0", "exit2", "finish",
                       "resubmit"}
        /\ Works(w) => Imports(d, f)
        /\ wpc[w] \in {"counts", "exit0"} => head[f] > 0

StepsInv == \A w \in Workers : Step(w)

ReadyInv == \A j \in Jobs : queue[j] > 0 => Ready(j)

\* What the cron job's dsv-import is about to submit.
SubmitInv ==
    \A i \in Importers :
        /\ ipc[i] = "add-tsv" =>
            /\ Clear("cdns-to-tsv", "incoming", cur[i])
            /\ Converts("incoming", cur[i], "none")
            /\ oppc = "add" => ~OfEntry(target, "cdns-to-tsv", "incoming", cur[i])
        /\ ipc[i] = "add-pcap" =>
            /\ Clear("cdns-to-pcap", "pcap", cur[i]) /\ Links("pcap", cur[i])
            /\ oppc = "add" => ~OfEntry(target, "cdns-to-pcap", "pcap", cur[i])

\* What the command is about to submit, or to remove from an error directory.
TargetInv ==
    /\ oppc = "add" => Ready(target) /\ Clear(target.queue, target.dir, target.file)
    /\ \A f \in Files :
        /\ Targeted("cdns-to-tsv", f) =>
            f \in failed["cdns-to-tsv"] /\ (f \in pending["incoming"] \/ TsvKept(f))
        /\ Targeted("import-tsv", f) =>
            /\ tsv["error"][f] # "none"
            /\ tsv["incoming"][f] = "whole" \/ head[f] > 0

\* The error directories: a file that could not be converted has no TSV.
FailedInv ==
    \A f \in Files :
        /\ tsv["error"][f] # "part"
        /\ "cbor" \notin commands /\ f \in failed["cdns-to-tsv"]
           /\ ~Targeted("cdns-to-tsv", f) =>
                /\ tsv["incoming"][f] = "none" /\ tsv["error"][f] = "none"
                /\ Clear("import-tsv", "incoming", f)

\* There is nothing of a file but itself.
Unseen(f) ==
    /\ \A d \in PendingDirs : f \notin pending[d]
    /\ \A q \in Queues, d \in PendingDirs : Clear(q, d, f)
    /\ \A d \in TsvDirs : tsv[d][f] = "none"
    /\ \A q \in ConvertQueues : f \notin failed[q]

\* Nor is there, in cbor/pending.
Untouched(f) ==
    /\ f \notin pending["cbor"] /\ tsv["cbor"][f] = "none"
    /\ Clear("import-tsv", "cbor", f) /\ Clear("cdns-to-tsv", "cbor", f)

UnseenInv ==
    \A f \in Files :
        /\ ~Reached(f) => Unseen(f)
        /\ "cbor" \notin commands \/ (source = "cbor" /\ \E j \in listing : j.file = f) =>
            Untouched(f)

RecordsInv ==
    \A f \in ImportFiles : Reached(f) => f \in pending["incoming"] \/ Spared(f)

\* There is one command at most, and nothing has gone wrong.
OneSource ==
    /\ source = "none" <=> oppc = "idle"
    /\ source # "none" => commands = {source} /\ loop >= 1
    /\ \A s, t \in commands : s = t
    /\ reload = FALSE /\ bond = [w \in Workers |-> "ok"]

\* What the command lists, and submits.
ListedInv ==
    /\ \A j \in listing \cup ({target} \ {NoJob}) :
        /\ source \in {"cbor", "pcap", "error"} /\ j.retry = 0
        /\ source = "cbor" => j.queue = "cdns-to-tsv" /\ j.dir = "cbor"
        /\ source = "pcap" => j.queue = "cdns-to-pcap" /\ j.dir = "pcap"
        /\ source = "error" => j.dir = "incoming" /\ (loop = 1 <=> j.queue = "cdns-to-tsv")
    /\ oppc = "unlink" => source = "error"

\* Links for PCAPs come into incoming/pending when those for TSVs are all put back.
PcapInv ==
    "error" \notin commands \/ (source = "error" /\ loop = 1) =>
        /\ \A j \in Jobs : queue[j] > 0 /\ j.queue = "cdns-to-pcap" => j.dir # "incoming"
        /\ \A w \in Workers : wjob[w].queue = "cdns-to-pcap" => wjob[w].dir # "incoming"

SafeInv ==
    /\ FilesInv /\ OneJobInv /\ StepsInv /\ ReadyInv /\ SubmitInv /\ TargetInv
    /\ FailedInv /\ UnseenInv /\ RecordsInv /\ ListedInv /\ PcapInv

Spares == OneSource /\ ("regen-error-tsv" \notin commands => SafeInv)
=============================================================================
