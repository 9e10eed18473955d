------------------------- MODULE PipelineInvariant -------------------------
(***************************************************************************)
(* The inductive invariant of Pipeline when one dsv-import runs at a time. *)
(* It says what each file has around it at each step of the process that   *)
(* works on it, and that no two processes work on it for the same queue.   *)
(***************************************************************************)
EXTENDS Pipeline

\* Its lock is meant to ensure it; where the theorems take it to be so, they say so.
OneImporter == \A h, i \in Importers : h = i

\* Jobs for a queue lie in one directory, unless an operator runs dsv-import.
DirOf(q) == IF q = "cdns-to-pcap" THEN "pcap" ELSE "incoming"

Same(j, k) == j.queue = k.queue /\ j.file = k.file

\* No job of queue q for file f is waiting or in a worker's hands.
Idle(q, f) ==
    /\ \A j \in Jobs : queue[j] > 0 => ~(j.queue = q /\ j.file = f)
    /\ \A w \in Workers : ~(wjob[w].queue = q /\ wjob[w].file = f)

\* dsv-import has begun with file f, or with its PCAP.
Reached(f) == f \in archive \/ \E i \in Importers : cur[i] = f

PcapReached(f) ==
    f \in archive \/ \E i \in Importers : cur[i] = f /\ ipc[i] \in {"add-pcap", "rename"}

\* The file is in neither error directory.
NotFailed(f) == f \notin failed["cdns-to-tsv"] /\ tsv["error"][f] = "none"

\* What is there for a file while its conversion to TSV is to come, or going on.
Converting(f, content) ==
    /\ f \in pending["incoming"] /\ NotFailed(f)
    /\ tsv["incoming"][f] = content
    /\ head[f] = 0
    /\ Idle("import-tsv", f)

ToPcap(f) == f \in pending["pcap"] \ failed["cdns-to-pcap"]

\* The file's records are in a complete TSV, or in the database.
TsvKept(f) ==
    tsv["incoming"][f] = "whole" \/ tsv["error"][f] = "whole" \/ head[f] > 0

FilesInv ==
    /\ incoming \cap archive = {}
    /\ \A i \in Importers : todo[i] \subseteq incoming
    /\ \A i \in Importers : cur[i] # NoFile => cur[i] \in incoming \ todo[i]

JobsInv ==
    /\ \A j \in Jobs : queue[j] > 0 => queue[j] = 1 /\ j.dir = DirOf(j.queue)
    /\ \A j, k \in Jobs : queue[j] > 0 /\ queue[k] > 0 /\ Same(j, k) => j = k
    /\ \A w \in Workers : wjob[w] # NoJob => wjob[w].dir = DirOf(wjob[w].queue)
    /\ \A w \in Workers, j \in Jobs : queue[j] > 0 => ~Same(wjob[w], j)
    /\ \A v, w \in Workers : wjob[v] # NoJob /\ Same(wjob[v], wjob[w]) => v = w

FreshInv ==
    \A f \in Files :
        /\ ~Reached(f) =>
            /\ Idle("cdns-to-tsv", f) /\ Idle("import-tsv", f)
            /\ f \notin pending["incoming"] /\ NotFailed(f)
            /\ tsv["incoming"][f] = "none" /\ head[f] = 0
        /\ ~PcapReached(f) =>
            /\ Idle("cdns-to-pcap", f)
            /\ f \notin pending["pcap"] \cup failed["cdns-to-pcap"]

LinkedInv ==
    \A i \in Importers :
        /\ ipc[i] = "add-tsv" => Idle("cdns-to-tsv", cur[i]) /\ Converting(cur[i], "none")
        /\ ipc[i] = "add-pcap" => Idle("cdns-to-pcap", cur[i]) /\ ToPcap(cur[i])

WaitingInv ==
    \A j \in Jobs : queue[j] > 0 =>
        /\ j.queue = "cdns-to-tsv" => Converting(j.file, "none")
        /\ j.queue = "cdns-to-pcap" => ToPcap(j.file)
        /\ j.queue = "import-tsv" =>
            tsv["incoming"][j.file] = "whole" /\ NotFailed(j.file)

ConvertStep(w) ==
    LET f == wjob[w].file IN
    /\ wpc[w] \in {"start", "test", "convert", "submit", "exit0", "exit1", "finish"}
    /\ wpc[w] \in {"start", "test", "exit1"} => Converting(f, "none")
    /\ wpc[w] = "convert" => Converting(f, "part")
    /\ wpc[w] = "submit" => Converting(f, "whole")
    /\ wpc[w] = "exit0" => f \in pending["incoming"] /\ TsvKept(f)
    /\ wpc[w] = "finish" => f \notin pending["incoming"]

PcapStep(w) ==
    LET f == wjob[w].file IN
    /\ wpc[w] \in {"start", "exit0", "exit1", "finish"}
    /\ wpc[w] # "finish" => ToPcap(f)
    /\ wpc[w] = "exit0" => f \in pcaps
    /\ wpc[w] = "finish" => f \notin pending["pcap"]

ImportStep(w) ==
    LET f == wjob[w].file IN
    /\ wpc[w] \in {"start", "query", "insert", "counts", "exit0", "exit2", "finish",
                   "resubmit"}
    /\ wpc[w] \notin {"exit0", "finish"} => tsv["incoming"][f] = "whole"
    /\ wpc[w] # "finish" => NotFailed(f)
    /\ wpc[w] = "insert" => head[f] = 0
    /\ wpc[w] = "counts" => head[f] > 0 /\ counts[f] = 0
    /\ wpc[w] = "exit0" => head[f] > 0

HeldInv ==
    \A w \in Workers :
        /\ wjob[w].queue = "cdns-to-tsv" => ConvertStep(w)
        /\ wjob[w].queue = "cdns-to-pcap" => PcapStep(w)
        /\ wjob[w].queue = "import-tsv" => ImportStep(w)

DatabaseInv ==
    \A f \in Files :
        /\ head[f] <= 1 /\ tail[f] <= head[f] /\ counts[f] <= head[f]
        /\ AtomicInsert => head[f] = tail[f]

\* A link in a pending directory has its job.
PlacesInv ==
    /\ pending["cbor"] = {}
    /\ \A f \in pending["incoming"] :
        ~Idle("cdns-to-tsv", f) \/ \E i \in Importers : cur[i] = f /\ ipc[i] = "add-tsv"
    /\ \A f \in pending["pcap"] :
        ~Idle("cdns-to-pcap", f) \/ \E i \in Importers : cur[i] = f /\ ipc[i] = "add-pcap"

KeptInv ==
    /\ \A f \in ImportFiles : Reached(f) =>
        f \in pending["incoming"] \cup failed["cdns-to-tsv"] \/ TsvKept(f)
    /\ \A f \in PcapFiles : PcapReached(f) =>
        f \in pending["pcap"] \cup failed["cdns-to-pcap"] \cup pcaps

\* What every step preserves: where a file is, who works on it, and what has
\* become of its records, taken together.
Inductive ==
    /\ TypeOK /\ FilesInv /\ JobsInv /\ FreshInv /\ LinkedInv /\ WaitingInv /\ HeldInv
    /\ DatabaseInv /\ PlacesInv /\ KeptInv
=============================================================================
