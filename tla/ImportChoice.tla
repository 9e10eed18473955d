---------------------------- MODULE ImportChoice ----------------------------
(***************************************************************************)
(* What dsv-import does with which file, and in which order.  It lists the *)
(* files of all nodes, reads each server's filter when it meets the first  *)
(* file of the server, and takes one file from each node in turn.  For the *)
(* sources error and pending it does so several times, once for each queue *)
(* and directory that files are queued again from.                         *)
(*                                                                         *)
(* Meanwhile files arrive, and filters may be edited.  How a chosen file   *)
(* is linked and queued is in Pipeline and Recovery, and so is the source  *)
(* regen-error-tsv.                                                        *)
(***************************************************************************)
EXTENDS Integers, Sequences, FiniteSets, SequencesExt

CONSTANTS
    Nodes,          \* pairs of a server and a node
    Dates,          \* of C-DNS files: their names, positive; a file is a node and a date
    Global,         \* stands for the directory above the servers
    Texts,          \* what a filter file may say: sequences of lines
    NoText,         \* there is no such file
    Commands,       \* [source, from, to, dryrun]; 0 is no date
    Edited,         \* the filters that are edited: pairs of a site and a name
    Arriving        \* the files that arrive

Sites == {node[1] : node \in Nodes} \cup {Global}
Files == Nodes \X Dates
FilterNames == {"dsv", "inspector"}

NoCommand == [source |-> "none", from |-> 0, to |-> 0, dryrun |-> FALSE]

VARIABLES
    texts,          \* dsv.filter and inspector.filter of each server
    store,          \* the files in the directories that dsv-import lists
    command,        \* the arguments of dsv-import
    pc,
    server_filters, \* the filters read so far
    listing,        \* which listing of the command this is
    unseen,         \* the nodes whose directory is still to be listed
    nodefiles,      \* the nodes listed and their files, in the dictionary's order
    turn,           \* whose turn it is
    done,           \* what was decided: [file, listing, queues]
    since           \* the texts that each site had since the command began

vars == <<texts, store, command, pc, server_filters, listing, unseen, nodefiles, turn,
          done, since>>

\* The listings of each source: a directory and what is in it, and the queues for it.
Listings ==
    [incoming |-> << <<"incoming", {"cdns-to-tsv", "cdns-to-pcap"}>> >>,
     cbor |-> << <<"cbor", {"cdns-to-tsv"}>> >>,
     pcap |-> << <<"cbor", {"cdns-to-pcap"}>> >>,
     error |-> << <<"cdns-to-tsv", {"cdns-to-tsv"}>>, <<"cdns-to-pcap", {"cdns-to-pcap"}>>,
                  <<"import-tsv", {"import-tsv"}>> >>,
     pending |-> << <<"incoming/pending", {"cdns-to-tsv"}>>, <<"cbor/pending", {"cdns-to-tsv"}>>,
                    <<"incoming/pending TSV", {"import-tsv"}>>,
                    <<"cbor/pending TSV", {"import-tsv"}>>, <<"pcap/pending", {"cdns-to-pcap"}>> >>]

Dirs == {"incoming", "cbor", "cdns-to-tsv", "cdns-to-pcap", "import-tsv", "incoming/pending",
         "cbor/pending", "incoming/pending TSV", "cbor/pending TSV", "pcap/pending"}

Kinds == {"node", "import", "server", "server_import"}

\* Filter.__init__ before the first line.
EmptyFilter == [include |-> [kind \in Kinds |-> {}], exclude |-> [kind \in Kinds |-> {}],
                start |-> 0, end |-> 0, default_pcap |-> FALSE, ok |-> TRUE]

\* One instruction of a filter file.
Line(filter, line) ==
    CASE line.op \in {"include", "exclude"} ->
            [filter EXCEPT ![line.op][line.kind] = @ \cup line.args,
                           !.default_pcap = @ \/ line.kind \in {"node", "server"}]
      [] line.op = "start" -> [filter EXCEPT !.start = line.date, !.default_pcap = TRUE]
      [] line.op = "end" -> [filter EXCEPT !.end = line.date, !.default_pcap = TRUE]
      [] line.op = "enable" -> [filter EXCEPT !.default_pcap = TRUE]
      [] OTHER -> [filter EXCEPT !.ok = FALSE]

\* The text that Filter reads: of dsv.filter, or else of inspector.filter.
TextOf(site) ==
    LET names == {name \in FilterNames : texts[site][name] # NoText}
    IN  IF names = {} THEN <<>>
        ELSE texts[site][IF "dsv" \in names THEN "dsv" ELSE "inspector"]

\* A filter that is not ok is an exception.
Filter(text) ==
    LET filter == FoldLeft(Line, EmptyFilter, text)
    IN  [filter EXCEPT !.ok = @ /\ ~(filter.start # 0 /\ filter.end # 0 /\ filter.start >= filter.end)]

\* Faulty: what is excluded stays so.
UseBoth(filter, kind, item) ==
    /\ filter.include[kind] # {} => item \in filter.include[kind]
    /\ item \notin filter.exclude[kind]

\* ExcludeInclude.use
Use(filter, kind, item) ==
    IF filter.include[kind] # {} THEN item \in filter.include[kind]
    ELSE item \notin filter.exclude[kind]

NameOf(file) == file[1][2]
ServerOf(file) == file[1][1]
DateOf(file) == file[2]

assess_pcap_filter(filter, file, check_time) ==
    /\ check_time /\ filter.start # 0 => DateOf(file) >= filter.start
    /\ check_time /\ filter.end # 0 => DateOf(file) < filter.end
    /\ Use(filter, "node", NameOf(file)) /\ Use(filter, "server", ServerOf(file))

\* Faulty: the filter of the server is ignored.
GlobalOnly(file) == {server_filters[Global]}

\* The filters that a file must pass.
FiltersFor(file) == {server_filters[ServerOf(file)], server_filters[Global]}

generate_pcap_import(file) ==
    /\ \A filter \in FiltersFor(file) : assess_pcap_filter(filter, file, TRUE)
    /\ \E filter \in FiltersFor(file) : filter.default_pcap

generate_pcap_manual(file) ==
    \A filter \in FiltersFor(file) : assess_pcap_filter(filter, file, FALSE)

do_import(file) ==
    \A filter \in FiltersFor(file) :
        Use(filter, "import", NameOf(file)) /\ Use(filter, "server_import", ServerOf(file))

-----------------------------------------------------------------------------

\* A command is not running.
Idle ==
    /\ store \in [Dirs -> SUBSET Files]
    /\ store["incoming"] \cap store["cbor"] = {}
    /\ command = NoCommand /\ pc = "idle"
    /\ server_filters = [site \in {} |-> EmptyFilter]
    /\ listing = 1 /\ unseen = {} /\ nodefiles = <<>> /\ turn = 1 /\ done = <<>>
    /\ since = [site \in Sites |-> {}]

Init ==
    /\ texts \in [Sites -> [FilterNames -> Texts \cup {NoText}]]
    /\ Idle

\* Someone writes a filter, by renaming a new file.
Edit ==
    /\ \E filter \in Edited, text \in Texts :
        texts' = [texts EXCEPT ![filter[1]][filter[2]] = text]
    /\ since' = [site \in Sites |-> since[site] \cup {TextOf(site)'}]
    /\ UNCHANGED <<store, command, pc, server_filters, listing, unseen, nodefiles, turn, done>>

\* A file arrives.
Arrive ==
    /\ \E file \in Arriving \ UNION {store[dir] : dir \in Dirs} :
        store' = [store EXCEPT !["incoming"] = @ \cup {file}]
    /\ UNCHANGED <<texts, command, pc, server_filters, listing, unseen, nodefiles, turn, done, since>>

\* The global filter is read first.
Start ==
    /\ pc = "idle"
    /\ \E c \in Commands :
        /\ c.from # 0 /\ c.to # 0 => c.from < c.to
        /\ command' = c
    /\ LET filter == Filter(TextOf(Global))
       IN  /\ server_filters' = [site \in {Global} |-> filter]
           /\ pc' = IF filter.ok THEN "list" ELSE "failed"
    /\ listing' = 1 /\ unseen' = Nodes
    /\ nodefiles' = <<>> /\ turn' = 1 /\ done' = <<>>
    /\ since' = [site \in Sites |-> {TextOf(site)}]
    /\ UNCHANGED <<texts, store>>

Directory == Listings[command.source][listing][1]

Queues == Listings[command.source][listing][2]

\* The range of dates is for the sources cbor and pcap.
InRange(file) == command.source \in {"cbor", "pcap"} =>
    /\ command.from # 0 => DateOf(file) >= command.from
    /\ command.to # 0 => DateOf(file) < command.to

\* Faulty: the oldest first.
OldestFirst(files) == SetToSortSeq(files, LAMBDA f, g : DateOf(f) < DateOf(g))

NewestFirstOf(files) == SetToSortSeq(files, LAMBDA f, g : DateOf(f) > DateOf(g))

\* The filter of a server is read when its first file is met.
ReadAt(site, found) ==
    IF found # {} /\ site \notin DOMAIN server_filters
    THEN [s \in DOMAIN server_filters \cup {site} |->
            IF s = site THEN Filter(TextOf(site)) ELSE server_filters[s]]
    ELSE server_filters

\* Faulty: an error in the filter of a server is met later.
ListLazily ==
    /\ pc = "list"
    /\ \E node \in unseen :
        LET found == {file \in store[Directory] : file[1] = node}
        IN  /\ unseen' = unseen \ {node}
            /\ server_filters' = ReadAt(node[1], found)
            /\ nodefiles' = Append(nodefiles,
                                   [node |-> node, files |-> NewestFirstOf({f \in found : InRange(f)})])
    /\ UNCHANGED <<texts, store, command, pc, listing, turn, done, since>>

\* files_to_process: the directory of one more node.
List ==
    /\ pc = "list"
    /\ \E node \in unseen :
        LET found == {file \in store[Directory] : file[1] = node}
        IN  /\ unseen' = unseen \ {node}
            /\ server_filters' = ReadAt(node[1], found)
            /\ nodefiles' = Append(nodefiles,
                                   [node |-> node, files |-> NewestFirstOf({f \in found : InRange(f)})])
            /\ pc' = IF node[1] \in DOMAIN server_filters' => server_filters'[node[1]].ok
                     THEN pc ELSE "failed"
    /\ UNCHANGED <<texts, store, command, listing, turn, done, since>>

Listed ==
    /\ pc = "list" /\ unseen = {}
    /\ pc' = "take"
    /\ UNCHANGED <<texts, store, command, server_filters, listing, unseen, nodefiles, turn, done, since>>

\* Faulty: a node's turn lasts while it has files.
NextTurnLate == IF Len(nodefiles[turn].files) > 1 THEN turn ELSE (turn % Len(nodefiles)) + 1

NextTurn == (turn % Len(nodefiles)) + 1

\* Whether a file of this listing is wanted in a queue: what was queued once is not filtered.
Wanted(queue, file) ==
    CASE command.source \in {"error", "pending"} -> TRUE
      [] queue = "cdns-to-tsv" -> do_import(file)
      [] command.source = "incoming" -> generate_pcap_import(file)
      [] command.source = "pcap" -> generate_pcap_manual(file)

\* A file that came in is archived.  One that failed leaves the directory of errors, unless it
\* cannot be linked.
Afterwards(file) ==
    CASE command.dryrun -> {store}
      [] command.source = "incoming" ->
            {[store EXCEPT !["incoming"] = @ \ {file}, !["cbor"] = @ \cup {file}]}
      [] command.source = "error" -> {store, [store EXCEPT ![Directory] = @ \ {file}]}
      [] OTHER -> {store}

\* process_incoming, process_cbor, process_pcap, process_error, process_pending: the file
\* whose turn it is.
Take ==
    /\ pc = "take" /\ nodefiles[turn].files # <<>>
    /\ LET file == Head(nodefiles[turn].files)
       IN  /\ nodefiles' = [nodefiles EXCEPT ![turn].files = Tail(@)]
           /\ done' = Append(done, [file |-> file, listing |-> listing,
                                    queues |-> {queue \in Queues : Wanted(queue, file)}])
           /\ store' \in Afterwards(file)
    /\ turn' = NextTurn
    /\ UNCHANGED <<texts, command, pc, server_filters, listing, unseen, since>>

\* A node that has no file left loses its turn.
Skip ==
    /\ pc = "take" /\ nodefiles[turn].files = <<>>
    /\ \E k \in DOMAIN nodefiles : nodefiles[k].files # <<>>
    /\ turn' = NextTurn
    /\ UNCHANGED <<texts, store, command, pc, server_filters, listing, unseen, nodefiles, done, since>>

AllTaken == pc = "take" /\ \A k \in DOMAIN nodefiles : nodefiles[k].files = <<>>

LastListing == listing = Len(Listings[command.source])

\* process_error, process_pending: the next directory, with the filters read so far.
NextListing ==
    /\ AllTaken /\ ~LastListing
    /\ listing' = listing + 1 /\ pc' = "list"
    /\ unseen' = Nodes /\ nodefiles' = <<>> /\ turn' = 1
    /\ UNCHANGED <<texts, store, command, server_filters, done, since>>

End ==
    /\ (AllTaken /\ LastListing) \/ pc = "failed"
    /\ pc' = "idle" /\ command' = NoCommand
    /\ server_filters' = [site \in {} |-> EmptyFilter]
    /\ listing' = 1 /\ unseen' = {} /\ nodefiles' = <<>> /\ turn' = 1 /\ done' = <<>>
    /\ since' = [site \in Sites |-> {}]
    /\ UNCHANGED <<texts, store>>

Next == Edit \/ Arrive \/ Start \/ List \/ Listed \/ Take \/ Skip \/ NextListing \/ End

Spec == Init /\ [][Next]_vars

-----------------------------------------------------------------------------
(* What the instructions of a file mean, however they are ordered. *)

Args(text, op, kind) ==
    UNION {line.args : line \in {l \in ToSet(text) : l.op = op /\ l.kind = kind}}

Allowed(text, kind, item) ==
    \/ item \in Args(text, "include", kind)
    \/ Args(text, "include", kind) = {} /\ item \notin Args(text, "exclude", kind)

Dated(text, file) ==
    \A line \in ToSet(text) : /\ line.op = "start" => DateOf(file) >= line.date
                              /\ line.op = "end" => DateOf(file) < line.date

ImportMeant(two, file) ==
    \A text \in two : Allowed(text, "import", NameOf(file)) /\ Allowed(text, "server_import", ServerOf(file))

PcapAllowed(two, file) ==
    \A text \in two : Allowed(text, "node", NameOf(file)) /\ Allowed(text, "server", ServerOf(file))

PcapMeant(two, file) ==
    /\ PcapAllowed(two, file)
    /\ \A text \in two : Dated(text, file)
    /\ \E text \in two : \E line \in ToSet(text) : line.kind \notin {"import", "server_import"}

\* What the filters say of a file of one of the listings.
Meant(two, d) ==
    {queue \in Listings[command.source][d.listing][2] :
        CASE command.source \in {"error", "pending"} -> TRUE
          [] queue = "cdns-to-tsv" -> ImportMeant(two, d.file)
          [] command.source = "incoming" -> PcapMeant(two, d.file)
          [] command.source = "pcap" -> PcapAllowed(two, d.file)}

\* What is decided for the files of a server is what two texts say that its filter and the
\* global filter had while the command ran, the same two for all of them.
DoneAsMeant ==
    \A server \in {ServerOf(d.file) : d \in ToSet(done)} :
        \E text \in since[server], global \in since[Global] :
            \A d \in ToSet(done) :
                ServerOf(d.file) = server => d.queues = Meant({text, global}, d)

Taken(node) == {k \in DOMAIN done : done[k].listing = listing /\ done[k].file[1] = node}

\* No node starves another: of two nodes that both have files left in a listing, none has had
\* two more files taken than the other.
InTurn ==
    \A i, j \in DOMAIN nodefiles :
        nodefiles[i].files # <<>> /\ pc = "take" =>
            Cardinality(Taken(nodefiles[j].node)) <= Cardinality(Taken(nodefiles[i].node)) + 1

\* The files of a node in a listing are taken from the most recent to the oldest.
NewestFirst ==
    \A i, j \in DOMAIN done :
        i < j /\ done[i].listing = done[j].listing /\ done[i].file[1] = done[j].file[1] =>
            DateOf(done[i].file) > DateOf(done[j].file)

\* A command that meets a filter with an error has decided nothing of this listing and
\* decides nothing more.  What it queued from an earlier listing it has queued: only for the
\* sources error and pending there is one.
BadFilterStops ==
    (\E site \in DOMAIN server_filters : ~server_filters[site].ok) =>
        pc = "failed" /\ \A k \in DOMAIN done : done[k].listing < listing
=============================================================================
