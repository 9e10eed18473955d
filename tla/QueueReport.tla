---------------------------- MODULE QueueReport -----------------------------
(***************************************************************************)
(* dsv-queue-details: how many files of each node are in the directories   *)
(* of the import.  The directories are counted one after the other, while  *)
(* the import moves files between them; the report is printed or stored.   *)
(***************************************************************************)
EXTENDS Integers, Sequences, FiniteSets

CONSTANTS
    Files,          \* C-DNS files
    Nodes,
    NodeOf,         \* the node of each file
    Reprocessing    \* an operator uses dsv-import on the archive and on error directories

VARIABLES
    place,          \* the directory of each file: C-DNS, TSV made of it, C-DNS for PCAP
    dirs,           \* the nodes that have a directory incoming
    table,          \* the nodes that Postgres knows
    pc,
    counted,        \* the files found by each count
    listed,         \* the nodes whose directory incoming was met by the first count
    info,           \* node_info: the counts of each node
    stored,         \* the rows of the last report in ImportQueueSizes
    stayed          \* what has not left the directories of its state since the report began

vars == <<place, dirs, table, pc, counted, listed, info, stored, stayed>>

Kinds == {"cdns", "tsv", "pcap"}

Queued == {"incoming", "incoming/pending", "cbor/pending", "pcap/pending"}

Errors == {"error-cdns-to-tsv", "error-import-tsv", "error-cdns-to-pcap"}

\* Faulty: from the last queue to the first.
CountsBackwards ==
    << <<"tsv", "incoming/pending">>, <<"pcap", "pcap/pending">>,
       <<"cdns", "incoming/pending">>, <<"cdns", "incoming">>,
       <<"cdns", "cdns-to-tsv">>, <<"tsv", "import-tsv">>, <<"pcap", "cdns-to-pcap">> >>

\* The counts of main: a pattern for the files, and a directory.
Counts ==
    << <<"cdns", "incoming">>, <<"cdns", "incoming/pending">>,
       <<"tsv", "incoming/pending">>, <<"pcap", "pcap/pending">>,
       <<"cdns", "cdns-to-tsv">>, <<"tsv", "import-tsv">>, <<"pcap", "cdns-to-pcap">> >>

Init ==
    /\ place = [kind \in Kinds |-> [f \in Files |-> "none"]]
    /\ dirs \in SUBSET Nodes /\ table \in SUBSET Nodes
    /\ pc = "idle"
    /\ counted = <<>> /\ listed = {} /\ info = <<>> /\ stored = <<>>
    /\ stayed = [kind \in Kinds |-> {}]

\* Where dsv-import and the workers move a file.
Steps(kind) ==
    CASE kind = "cdns" ->
            {<<"none", "incoming">>, <<"incoming", "incoming/pending">>, <<"incoming", "cbor">>,
             <<"incoming/pending", "cbor">>, <<"incoming/pending", "error-cdns-to-tsv">>}
      [] kind = "tsv" ->
            {<<"none", "incoming/pending">>, <<"incoming/pending", "gone">>,
             <<"incoming/pending", "error-import-tsv">>}
      [] kind = "pcap" ->
            {<<"none", "pcap/pending">>, <<"pcap/pending", "gone">>,
             <<"pcap/pending", "error-cdns-to-pcap">>}

\* The same when dsv-import is given the source cbor or error.
StepsAgain(kind) ==
    CASE kind = "cdns" ->
            {<<"cbor", "cbor/pending">>, <<"cbor/pending", "cbor">>,
             <<"cbor/pending", "error-cdns-to-tsv">>, <<"error-cdns-to-tsv", "incoming/pending">>}
      [] kind = "tsv" -> {<<"error-import-tsv", "incoming/pending">>}
      [] kind = "pcap" ->
            {<<"error-cdns-to-pcap", "incoming/pending">>, <<"incoming/pending", "gone">>,
             <<"incoming/pending", "error-cdns-to-pcap">>}

\* What a new TSV file or link for a PCAP is made of is in one of these directories.
MadeFrom(kind) == IF kind = "tsv" THEN {"incoming/pending", "cbor/pending"}
                  ELSE {"incoming", "incoming/pending"}

SameState(from, to) == (from \in Queued /\ to \in Queued) \/ (from \in Errors /\ to \in Errors)

Move ==
    /\ \E kind \in Kinds, f \in Files :
       \E step \in Steps(kind) \cup IF Reprocessing THEN StepsAgain(kind) ELSE {} :
        /\ place[kind][f] = step[1]
        /\ kind # "cdns" /\ step[1] = "none" => place["cdns"][f] \in MadeFrom(kind)
        /\ place' = [place EXCEPT ![kind][f] = step[2]]
        /\ dirs' = IF kind = "cdns" /\ step[1] = "none" THEN dirs \cup {NodeOf[f]} ELSE dirs
        /\ stayed' = IF SameState(step[1], step[2]) THEN stayed
                     ELSE [stayed EXCEPT ![kind] = @ \ {f}]
    /\ UNCHANGED <<table, pc, counted, listed, info, stored>>

Begin ==
    /\ pc = "idle"
    /\ stored' = <<>>
    /\ stayed' = [kind \in Kinds |-> {f \in Files : place[kind][f] \in Queued \cup Errors}]
    /\ pc' = "count"
    /\ UNCHANGED <<place, dirs, table, counted, listed, info>>

\* count_files: the files of a directory, of all nodes.
Count ==
    /\ pc = "count" /\ Len(counted) < Len(Counts)
    /\ LET kind == Counts[Len(counted) + 1][1]
           dir == Counts[Len(counted) + 1][2]
       IN  counted' = Append(counted, {f \in Files : place[kind][f] = dir})
    /\ listed' = IF counted = <<>> THEN dirs ELSE listed
    /\ UNCHANGED <<place, dirs, table, pc, info, stored, stayed>>

\* One row for each node whose directory incoming was met.
Collect ==
    /\ pc = "count" /\ Len(counted) = Len(Counts)
    /\ info' = [node \in listed |->
                    [k \in DOMAIN counted |-> Cardinality({f \in counted[k] : NodeOf[f] = node})]]
    /\ pc' = "report"
    /\ UNCHANGED <<place, dirs, table, counted, listed, stored, stayed>>

\* The rows of nodes that have an id are stored.
Store ==
    /\ pc = "report"
    /\ stored' = [node \in table \cap DOMAIN info |-> info[node]]
    /\ pc' = "reported"
    /\ UNCHANGED <<place, dirs, table, counted, listed, info, stayed>>

\* The report is only printed, or the store fails.
NotStored ==
    /\ pc = "report" /\ pc' = "reported"
    /\ UNCHANGED <<place, dirs, table, counted, listed, info, stored, stayed>>

End ==
    /\ pc = "reported" /\ pc' = "idle"
    /\ counted' = <<>> /\ listed' = {} /\ info' = <<>> /\ stayed' = [kind \in Kinds |-> {}]
    /\ UNCHANGED <<place, dirs, table, stored>>

Next == Move \/ Begin \/ Count \/ Collect \/ Store \/ NotStored \/ End

Spec == Init /\ [][Next]_vars

-----------------------------------------------------------------------------

CountsOf(kind) == {k \in DOMAIN Counts : Counts[k][1] = kind}

Found(kind) == UNION {counted[k] : k \in CountsOf(kind)}

\* What is queued all the while is in one of the counts at least, though it may move
\* from one directory to another between them; its node has a row, which counts it, also
\* among those that are stored.
NoneMissed ==
    pc = "reported" => \A kind \in Kinds : \A f \in stayed[kind] :
        place[kind][f] \in Queued => LET node == NodeOf[f] IN
            /\ f \in Found(kind)
            /\ node \in DOMAIN info /\ \E k \in CountsOf(kind) : info[node][k] > 0
            /\ stored # <<>> /\ node \in table =>
                    node \in DOMAIN stored /\ stored[node] = info[node]
=============================================================================
