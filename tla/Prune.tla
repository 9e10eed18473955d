-------------------------------- MODULE Prune --------------------------------
(***************************************************************************)
(* dsv-prune: when a server of the cluster is short of disc space, the     *)
(* partitions of a category of data that are over an age are dropped, from *)
(* every server that has them, all at once or, with --incremental, one by  *)
(* one from the oldest until there is space enough.  Meanwhile the workers *)
(* import.                                                                 *)
(*                                                                         *)
(* ClickHouse keeps the rows of a partition in parts, which have a first   *)
(* and a last day; a part is a server, a table and its last day here, and  *)
(* disc usage is the number of parts.                                      *)
(***************************************************************************)
EXTENDS Integers, FiniteSets

CONSTANTS
    Servers,        \* the servers of the cluster
    Tables,         \* the tables of the category, extra tables included
    Days,           \* the days that there may be data of
    Today,          \* the last of them
    Week,           \* how many days a partition is of
    MaxAges,        \* what may be asked for with --max-age
    Threshold,      \* the usage from which a server is short of space
    MaxImports      \* bound: parts that are imported

ASSUME PruneAssumption ==
    /\ Today \in Nat
    /\ Days \subseteq 0..Today
    /\ Week \in Nat \ {0}
    /\ MaxAges \subseteq Nat /\ MaxAges # {}
    /\ Threshold \in Nat
    /\ MaxImports \in Nat

Part == [server : Servers, table : Tables, day : Days]

Partition(part) == part.day \div Week

Partitions == {day \div Week : day \in Days}

Arguments == [incremental : BOOLEAN, force : BOOLEAN, dryrun : BOOLEAN,
              report_only : BOOLEAN, max_age : MaxAges]

\* What get_partitions returns: where there is what partition of what table.
Entries == [partition : Partitions, table : Tables, server : Servers]

VARIABLES
    parts,      \* the parts on the servers
    imports,    \* how many have been imported
    since,      \* those imported since the command was started
    pc,         \* where the command is
    args,       \* its arguments
    unread,     \* the servers still to be asked, and by get_partitions for which tables
    exceeded,   \* the threshold is exceeded on one of those that were
    reported,   \* disc usage has been reported
    found,      \* what get_partitions found and is not dealt with yet
    target,     \* the partition and table that are dropped
    status      \* the exit status of the last command

command == <<args, unread, exceeded, reported, found, target>>
vars == <<parts, imports, since, pc, command, status>>

Init ==
    /\ parts \in SUBSET Part
    /\ imports = 0
    /\ since = {}
    /\ pc = "idle"
    /\ args = CHOOSE a \in Arguments : a.report_only
    /\ unread = {}
    /\ exceeded = FALSE
    /\ reported = FALSE
    /\ found = {}
    /\ target = {}
    /\ status = 0

\* A worker imports data, of any day.
Import(part) ==
    /\ imports < MaxImports
    /\ imports' = imports + 1
    /\ parts' = parts \cup {part}
    /\ since' = since \cup {part}
    /\ UNCHANGED <<pc, command, status>>

Exit(code) ==
    /\ pc' = "idle"
    /\ status' = code
    /\ unread' = {}
    /\ found' = {}
    /\ target' = {}

\* Any request to a server may fail, and with it the command.
Fail ==
    /\ pc \notin {"idle", "ask"}
    /\ Exit(2)
    /\ UNCHANGED <<parts, imports, since, args, exceeded, reported>>

\* With --report-only, nothing at all is left to be done.
Start ==
    /\ pc = "idle"
    /\ args' \in Arguments
    /\ since' = {}
    /\ reported' = FALSE
    /\ exceeded' = FALSE
    /\ IF args'.report_only
       THEN status' = 0 /\ UNCHANGED <<pc, unread>>
       ELSE pc' = "check" /\ unread' = Servers /\ UNCHANGED status
    /\ UNCHANGED <<parts, imports, found, target>>

Usage(server, ps) == Cardinality({part \in ps : part.server = server})

Short(server) == Usage(server, parts) >= Threshold

\* disc_threshold_exceeded: the servers are asked one after the other.
Check ==
    /\ pc = "check"
    /\ \E server \in unread :
        /\ unread' = unread \ {server}
        /\ exceeded' = (exceeded \/ Short(server))
    /\ UNCHANGED <<parts, imports, since, pc, args, reported, found, target, status>>

\* The first check decides whether there is anything to do, those after it
\* whether to go on.
Checked ==
    /\ pc = "check"
    /\ unread = {}
    /\ reported' = TRUE
    /\ IF ~exceeded THEN Exit(0)
       ELSE IF found = {}
       THEN pc' = "read" /\ unread' = Servers \X Tables /\ UNCHANGED <<found, target, status>>
       ELSE pc' = "ask" /\ UNCHANGED <<unread, found, target, status>>
    /\ UNCHANGED <<parts, imports, since, args, exceeded>>

EntryOf(part) ==
    [partition |-> Partition(part), table |-> part.table, server |-> part.server]

Before == Today - args.max_age

\* Faulty: the age is not looked at.
ListedAll(server, table) ==
    {EntryOf(part) : part \in {p \in parts : p.server = server /\ p.table = table}}

\* A query of get_partitions: partitions with a part whose last day is before
\* a date.  An age of 0 is false in Python, and the query then has no date.
Listed(server, table) ==
    {EntryOf(part) : part \in
        {p \in parts : p.server = server /\ p.table = table /\ (args.max_age # 0 => p.day < Before)}}

\* get_partitions: the servers are asked one after the other, and for each extra table again.
ReadPartitions ==
    /\ pc = "read"
    /\ \E asked \in unread :
        /\ unread' = unread \ {asked}
        /\ found' = found \cup Listed(asked[1], asked[2])
        /\ IF unread' # {} THEN UNCHANGED <<pc, status>>
           ELSE IF found' = {} THEN pc' = "idle" /\ status' = 0
           ELSE pc' = "ask" /\ UNCHANGED status
    /\ UNCHANGED <<parts, imports, since, args, exceeded, reported, target>>

\* Faulty: the newest partition comes first.
Newest == CHOOSE p \in {e.partition : e \in found} : \A e \in found : e.partition <= p

Oldest == CHOOSE p \in {e.partition : e \in found} : \A e \in found : p <= e.partition

\* Faulty: every table of the partition is dropped, whatever the user was asked about.
EntriesOfAny(partition, table) == {e \in found : e.partition = partition}

EntriesOf(partition, table) ==
    {e \in found : e.partition = partition /\ e.table = table}

\* Faulty: the disc usage is not checked again.
ProceedUnchecked(partition, rest) ==
    /\ pc' = IF rest = {} THEN "idle" ELSE "ask"
    /\ found' = rest
    /\ target' = {}
    /\ UNCHANGED <<unread, exceeded>>

\* Faulty: the partition that was dealt with is not taken off the list.
ProceedKeeping(partition, rest) ==
    /\ IF rest # {} \/ ~args.incremental
       THEN found' = rest /\ pc' = IF rest = {} THEN "idle" ELSE "ask"
       ELSE found' = found /\ pc' = "ask"
    /\ target' = {}
    /\ UNCHANGED <<unread, exceeded>>

\* After a table of a partition, with what is left: main's loops.
Proceed(partition, rest) ==
    /\ IF rest = {} THEN pc' = "idle"
       ELSE IF args.incremental /\ \A e \in rest : e.partition # partition
       THEN pc' = "check"
       ELSE pc' = "ask"
    /\ found' = rest
    /\ target' = {}
    /\ unread' = IF pc' = "check" THEN Servers ELSE {}
    /\ exceeded' = IF pc' = "check" THEN FALSE ELSE exceeded

\* ask_delete: with --force, or if the user says so, the table's partition is dropped.
Ask ==
    /\ pc = "ask"
    /\ \E table \in {e.table : e \in {e \in found : e.partition = Oldest}} :
        \/ /\ pc' = "drop"
           /\ target' = EntriesOf(Oldest, table)
           /\ UNCHANGED <<found, unread, exceeded, status>>
        \/ /\ ~args.force
           /\ Proceed(Oldest, found \ EntriesOf(Oldest, table))
           /\ status' = IF pc' = "idle" THEN 0 ELSE status
    /\ UNCHANGED <<parts, imports, since, args, reported>>

\* Faulty: what is dropped from one server is taken to be dropped from all.
DropOnce ==
    /\ pc = "drop"
    /\ \E e \in target :
        /\ parts' = IF args.dryrun THEN parts
                    ELSE {part \in parts : EntryOf(part) # e}
        /\ since' = since \cap parts'
        /\ Proceed(e.partition, found \ target)
        /\ status' = IF pc' = "idle" THEN 0 ELSE status
    /\ UNCHANGED <<imports, args, reported>>

\* delete_partition: the partition is dropped from one server after the other.
Drop ==
    /\ pc = "drop"
    /\ \E e \in target :
        /\ parts' = IF args.dryrun THEN parts
                    ELSE {part \in parts : EntryOf(part) # e}
        /\ since' = since \cap parts'
        /\ IF target = {e}
           THEN Proceed(e.partition, found \ {e})
           ELSE /\ target' = target \ {e}
                /\ found' = found \ {e}
                /\ UNCHANGED <<pc, unread, exceeded>>
        /\ status' = IF pc' = "idle" THEN 0 ELSE status
    /\ UNCHANGED <<imports, args, reported>>

CommandNext == Check \/ Checked \/ ReadPartitions \/ Ask \/ Drop \/ Fail

Next ==
    \/ \E part \in Part : Import(part)
    \/ Start
    \/ CommandNext

Spec == Init /\ [][Next]_vars

\* The command runs, and the user answers.
Fairness == WF_vars(CommandNext)

-----------------------------------------------------------------------------
(* Properties                                                              *)

\* Every variable has its type; what is about to be dropped is one table of one
\* partition, and was found.
TypeOK ==
    /\ parts \subseteq Part /\ since \subseteq parts
    /\ imports \in 0..MaxImports
    /\ pc \in {"idle", "check", "read", "ask", "drop"}
    /\ args \in Arguments
    /\ unread \subseteq IF pc = "read" THEN Servers \X Tables ELSE Servers
    /\ {exceeded, reported} \subseteq BOOLEAN
    /\ found \subseteq Entries
    /\ target \subseteq found
    /\ \A e, f \in target : e.partition = f.partition /\ e.table = f.table
    /\ pc = "drop" <=> target # {}
    /\ status \in {0, 2}

\* What is dropped is at least of a partition that begins before the date, and has
\* nothing older beside it that was found and is still to be dealt with ("starting
\* with the oldest").
OldestAged ==
    [][\A part \in parts \ parts' :
        /\ Partition(part) * Week < Before
        /\ \A e \in found : Partition(part) <= e.partition]_vars

\* "stop immediately when below threshold": with --incremental and one table, each
\* drop is begun while a server is short of space, as of then and not as of the start.
BegunWhileShort ==
    pc = "ask" /\ pc' = "drop" /\ args.incremental /\ Cardinality(Tables) = 1
        => \E server \in Servers : Short(server)

\* A command that was told not to ask and ends well leaves nothing of what is over
\* the age on any server, but what came while it ran, and whatever an earlier
\* command that failed in the middle had left.
NothingLeft ==
    [][(/\ pc = "drop" /\ pc' = "idle" /\ status' = 0
        /\ args.force /\ ~args.incremental /\ ~args.dryrun)
            => \A part \in parts' : part.day < Before => part \in since']_vars

\* Every command ends: the loop of --incremental too.
Ends == pc # "idle" ~> pc = "idle"
=============================================================================
