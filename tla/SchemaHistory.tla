---------------------------- MODULE SchemaHistory ----------------------------
(***************************************************************************)
(* dsv-clickhouse-update and dsv-postgres-update: numbered DDL files are   *)
(* applied, or the last of them rolled back, and each action is recorded   *)
(* in a table, ddl_history.  Postgres commits the DDL and its record       *)
(* together (Transactional); for ClickHouse a client program runs the      *)
(* statements of the DDL one by one, and then a row is inserted.           *)
(*                                                                         *)
(* A DDL file is its version.  Its names are taken to be zero-padded, as   *)
(* all of them are, so that the order of names is that of the versions.    *)
(***************************************************************************)
EXTENDS Integers, Sequences, FiniteSets, Functions

CONSTANTS
    Versions,       \* the versions there are DDL files for, sooner or later
    Reversible,     \* those that come with a rollback file
    Operators,      \* who may run a command
    Transactional,  \* DDL and record are one transaction: Postgres
    OldTable,       \* the history table is of the first version of Visualizer
    SameSecond,     \* two commands may be given in one second
    MaxFaults,      \* bound: commands that are killed, or whose DDL fails
    MaxCommands     \* bound: commands given

ASSUME SchemaAssumption ==
    /\ Versions \subseteq Nat
    /\ Reversible \subseteq Versions
    /\ {Transactional, OldTable, SameSecond} \subseteq BOOLEAN

VARIABLES
    files,      \* versions whose DDL file is installed
    schema,     \* what the database has of each version
    table,      \* the history table: none, the old form (v1), or v2
    history,    \* its rows, in the order in which they were inserted
    spare,      \* ClickHouse: new_ddl_history, and whether it is there
    clock,      \* the second of the last command; commands are counted by it
    commands,
    faults,
    pc,         \* where each operator's command is
    cmd,        \* which command it is
    todo,       \* the versions it has still to deal with
    began,      \* Postgres: when its transaction was opened, if one is open
    result      \* the exit status of the last command

store == <<schema, table, history, spare>>
control == <<pc, cmd, todo, began, result>>
vars == <<files, store, clock, commands, faults, control>>

NotOpen == -1

Row(v, action, time) == [version |-> v, action |-> action, applied |-> time]

\* applied DEFAULT CURRENT_TIMESTAMP is, in Postgres, the time at which the transaction
\* began, whenever the row is inserted; for ClickHouse, applied DEFAULT now().
Now(o) == IF Transactional THEN began[o] ELSE clock

\* active_ddls: an apply sets the version, a rollback deletes it.
ActiveDdls(rows) ==
    {v \in Versions :
        \E i \in 1..Len(rows) :
            /\ rows[i].version = v /\ rows[i].action = "apply"
            /\ \A k \in (i + 1)..Len(rows) :
                rows[k].version = v => rows[k].action = "apply"}

\* Deleting a version that is not set is a KeyError.
Readable(rows) ==
    \A i \in 1..Len(rows) : rows[i].action = "rollback" =>
        rows[i].version \in ActiveDdls(SubSeq(rows, 1, i - 1))

\* Rows whose time is not after that of every row inserted before, or not before that of
\* every row inserted after.
Loose(rows) ==
    {i \in 1..Len(rows) : \E k \in 1..Len(rows) :
        \/ k < i /\ rows[k].applied >= rows[i].applied
        \/ i < k /\ rows[i].applied >= rows[k].applied}

\* SELECT ... ORDER BY applied: the rows in the order of their times, and those of one
\* time in any order.  Only loose rows can be read at another place than their own.
Ordered(rows) ==
    LET N == 1..Len(rows)
        Moved(q) == [i \in N |-> rows[IF i \in Loose(rows) THEN q[i] ELSE i]]
    IN {read \in {Moved(q) : q \in Injection(Loose(rows), Loose(rows))} :
            \A i, k \in N : i < k => read[i].applied <= read[k].applied}

\* Faulty: the names are sorted the other way round.
HighestName(S) == CHOOSE v \in S : \A u \in S : u >= v

Highest(S) == CHOOSE v \in S : \A u \in S : u <= v
Lowest(S) == CHOOSE v \in S : \A u \in S : u >= v

Init ==
    /\ files = {}
    /\ schema = [v \in Versions |-> "absent"]
    /\ table = IF OldTable THEN "v1" ELSE "none"
    /\ history = <<>>
    /\ spare = [there |-> FALSE, rows |-> <<>>]
    /\ clock = 0
    /\ commands = 0
    /\ faults = 0
    /\ pc = [o \in Operators |-> "idle"]
    /\ cmd = [o \in Operators |-> "status"]
    /\ todo = [o \in Operators |-> {}]
    /\ began = [o \in Operators |-> NotOpen]
    /\ result = [o \in Operators |-> 0]

\* A package brings a DDL file, while nobody updates the schema.  The old form
\* of the table is found with what older commands have applied and recorded.
Install(v) ==
    /\ v \notin files
    /\ \A o \in Operators : pc[o] = "idle"
    /\ files' = files \cup {v}
    /\ IF table = "v1" /\ commands = 0
       THEN /\ schema' = [schema EXCEPT ![v] = "present"]
            /\ history' = Append(history, Row(v, "apply", clock))
       ELSE UNCHANGED <<schema, history>>
    /\ UNCHANGED <<table, spare, clock, commands, faults, control>>

Start(o, action) ==
    /\ pc[o] = "idle"
    /\ commands < MaxCommands
    /\ commands' = commands + 1
    /\ clock' \in IF SameSecond THEN {clock, clock + 1} ELSE {clock + 1}
    /\ cmd' = [cmd EXCEPT ![o] = action]
    /\ pc' = [pc EXCEPT ![o] = "read"]
    /\ UNCHANGED <<files, store, faults, todo, began, result>>

\* The end of a command closes its connection, and what it has not committed is undone.
Exit(o, code) ==
    /\ pc' = [pc EXCEPT ![o] = "idle"]
    /\ todo' = [todo EXCEPT ![o] = {}]
    /\ began' = [began EXCEPT ![o] = NotOpen]
    /\ result' = [result EXCEPT ![o] = code]
    /\ UNCHANGED cmd

\* In Postgres the SELECT has opened a transaction, which nothing ends before the first
\* DDL is committed; the making of a missing table is committed at once.
Opened == IF Transactional /\ table = "v2" THEN clock ELSE NotOpen

\* What a command does with the rows it has read.
Decide(o, rows) ==
    LET active == ActiveDdls(rows)
        Do(versions) ==
            /\ todo' = [todo EXCEPT ![o] = versions]
            /\ pc' = [pc EXCEPT ![o] = "ddl"]
            /\ began' = [began EXCEPT ![o] = Opened]
            /\ UNCHANGED <<cmd, result>>
    IN
    IF ~Readable(rows) THEN Exit(o, 2)
    ELSE \/ /\ cmd[o] = "update"
            /\ IF files \subseteq active THEN Exit(o, 0) ELSE Do(files \ active)
         \/ /\ cmd[o] = "rollback"
            /\ IF active = {} THEN Exit(o, 0)
               ELSE IF Highest(active) \in Reversible THEN Do({Highest(active)})
               ELSE Exit(o, 1)
         \/ /\ cmd[o] = "status"
            /\ Exit(o, IF files \subseteq active THEN 0 ELSE 1)

\* read_ddl_info.  A table that is missing is made, and no rows are read.
ReadHistory(o) ==
    /\ pc[o] = "read"
    /\ \/ /\ table = "v2"
          /\ \E rows \in Ordered(history) : Decide(o, rows)
          /\ UNCHANGED store
       \/ /\ table = "none"
          /\ table' = "v2"
          /\ history' = <<>>
          /\ Decide(o, <<>>)
          /\ UNCHANGED <<schema, spare>>
    /\ UNCHANGED <<files, clock, commands, faults>>

\* The old form of the table has no action column.  Postgres alters the table ...
AlterTable(o) ==
    /\ pc[o] = "read"
    /\ table = "v1"
    /\ Transactional
    /\ table' = "v2"
    /\ UNCHANGED <<files, schema, history, spare, clock, commands, faults, control>>

Goto(o, step) == pc' = [pc EXCEPT ![o] = step] /\ UNCHANGED <<cmd, todo, began, result>>

\* ... and for ClickHouse a new table is made.  One that is there already, since
\* an earlier attempt was killed, is an error.
CreateNew(o) ==
    /\ pc[o] = "read"
    /\ table = "v1"
    /\ ~Transactional
    /\ IF spare.there THEN Exit(o, 2) /\ UNCHANGED spare
       ELSE spare' = [there |-> TRUE, rows |-> <<>>] /\ Goto(o, "copy")
    /\ UNCHANGED <<files, schema, table, history, clock, commands, faults>>

\* Faulty: the old table is dropped before its rows are copied.
CopyAfterDrop(o) ==
    /\ pc[o] = "copy"
    /\ table' = "none"
    /\ history' = <<>>
    /\ Goto(o, "drop")
    /\ UNCHANGED <<files, schema, spare, clock, commands, faults>>

CopyRows(o) ==
    /\ pc[o] = "copy"
    /\ spare' = [spare EXCEPT !.rows = history]
    /\ Goto(o, "drop")
    /\ UNCHANGED <<files, schema, table, history, clock, commands, faults>>

DropOld(o) ==
    /\ pc[o] = "drop"
    /\ table' = "none"
    /\ history' = <<>>
    /\ Goto(o, "rename")
    /\ UNCHANGED <<files, schema, spare, clock, commands, faults>>

RenameNew(o) ==
    /\ pc[o] = "rename"
    /\ IF table = "none" /\ spare.there
       THEN /\ table' = "v2"
            /\ history' = spare.rows
            /\ spare' = [there |-> FALSE, rows |-> <<>>]
            /\ Goto(o, "read")
       ELSE Exit(o, 2) /\ UNCHANGED <<table, history, spare>>
    /\ UNCHANGED <<files, schema, clock, commands, faults>>

Target(o) == IF cmd[o] = "update" THEN "present" ELSE "absent"
Action(o) == IF cmd[o] = "update" THEN "apply" ELSE "rollback"

\* The version whose turn it is: files are dealt with in the order of their names.
Turn(o) == Lowest(todo[o])

\* Faulty: 1-rollback.sql and 0001-rollback.sql are both run.
ProceedTwice(o) ==
    \/ Exit(o, 0)
    \/ cmd[o] = "rollback" /\ Goto(o, "ddl")

\* Faulty: the command does not see that it is done.
ProceedPastEnd(o) ==
    /\ todo' = [todo EXCEPT ![o] = @ \ {Turn(o)}]
    /\ pc' = [pc EXCEPT ![o] = "ddl"]
    /\ began' = [began EXCEPT ![o] = NotOpen]
    /\ UNCHANGED <<cmd, result>>

\* The end of apply_ddl, which has committed: the next file, or the end of the command.
Proceed(o) ==
    IF todo[o] = {Turn(o)} THEN Exit(o, 0)
    ELSE /\ todo' = [todo EXCEPT ![o] = @ \ {Turn(o)}]
         /\ pc' = [pc EXCEPT ![o] = "ddl"]
         /\ began' = [began EXCEPT ![o] = NotOpen]
         /\ UNCHANGED <<cmd, result>>

Recorded(o) == history' = Append(history, Row(Turn(o), Action(o), Now(o)))

\* Postgres: the first statement of the DDL opens a transaction, unless one is open.
Begin(o) ==
    /\ pc[o] = "ddl"
    /\ Transactional
    /\ began[o] = NotOpen
    /\ began' = [began EXCEPT ![o] = clock]
    /\ UNCHANGED <<files, store, clock, commands, faults, pc, cmd, todo, result>>

\* The DDL of a version does its work.  One that finds its work done may succeed
\* too: some of them say IF EXISTS.
RunDdl(o) ==
    /\ pc[o] = "ddl"
    /\ Transactional => began[o] # NotOpen
    /\ schema' = [schema EXCEPT ![Turn(o)] = Target(o)]
    /\ IF Transactional THEN Recorded(o) /\ Proceed(o)
       ELSE Goto(o, "record") /\ UNCHANGED history
    /\ UNCHANGED <<files, table, spare, clock, commands, faults>>

\* Faulty: each statement of a DDL is committed for itself.
DdlFailsHalfway(o) ==
    /\ pc[o] = "ddl"
    /\ faults < MaxFaults
    /\ faults' = faults + 1
    /\ schema' = [schema EXCEPT ![Turn(o)] = "part"]
    /\ Exit(o, 2)
    /\ UNCHANGED <<files, table, history, spare, clock, commands>>

\* Faulty: the error of a DDL is not looked at.
DdlErrorIgnored(o) ==
    /\ pc[o] = "ddl"
    /\ faults < MaxFaults
    /\ faults' = faults + 1
    /\ Exit(o, 0)
    /\ UNCHANGED <<files, store, clock, commands>>

\* A statement of the DDL fails.  The statements before it stay done, but for a
\* transaction; of a DDL whose work was done already they may have been done again.
DdlFails(o) ==
    /\ pc[o] = "ddl"
    /\ IF schema[Turn(o)] = Target(o) THEN UNCHANGED faults
       ELSE faults < MaxFaults /\ faults' = faults + 1
    /\ \/ UNCHANGED schema
       \/ ~Transactional /\ schema' = [schema EXCEPT ![Turn(o)] = "part"]
    /\ Exit(o, 2)
    /\ UNCHANGED <<files, table, history, spare, clock, commands>>

\* Faulty: what is recorded is always an apply.
RecordApply(o) ==
    /\ pc[o] = "record"
    /\ history' = Append(history, Row(Turn(o), "apply", Now(o)))
    /\ Proceed(o)
    /\ UNCHANGED <<files, schema, table, spare, clock, commands, faults>>

\* ClickHouse: the row is inserted after the DDL.
Record(o) ==
    /\ pc[o] = "record"
    /\ Recorded(o)
    /\ Proceed(o)
    /\ UNCHANGED <<files, schema, table, spare, clock, commands, faults>>

\* The command is killed, or its connection to the database is lost.
Crash(o) ==
    /\ pc[o] # "idle"
    /\ faults < MaxFaults
    /\ faults' = faults + 1
    /\ Exit(o, 2)
    /\ UNCHANGED <<files, store, clock, commands>>

CommandNext(o) ==
    \/ \E action \in {"update", "rollback", "status"} : Start(o, action)
    \/ ReadHistory(o) \/ AlterTable(o)
    \/ CreateNew(o) \/ CopyRows(o) \/ DropOld(o) \/ RenameNew(o)
    \/ Begin(o) \/ RunDdl(o) \/ DdlFails(o) \/ Record(o) \/ Crash(o)

Next ==
    \/ \E v \in Versions : Install(v)
    \/ \E o \in Operators : CommandNext(o)

Spec == Init /\ [][Next]_vars

-----------------------------------------------------------------------------
(* Properties                                                              *)

Rows == [version : Versions, action : {"apply", "rollback"}, applied : Nat]

\* Every variable has its type; a command that runs DDL has versions to deal with.
TypeOK ==
    /\ files \subseteq Versions
    /\ schema \in [Versions -> {"absent", "part", "present"}]
    /\ table \in {"none", "v1", "v2"}
    /\ history \in Seq(Rows)
    /\ spare \in [there : BOOLEAN, rows : Seq(Rows)]
    /\ clock \in Nat
    /\ pc \in [Operators -> {"idle", "read", "copy", "drop", "rename", "ddl", "record"}]
    /\ cmd \in [Operators -> {"update", "rollback", "status"}]
    /\ todo \in [Operators -> SUBSET Versions]
    /\ \A o \in Operators : pc[o] \in {"ddl", "record"} =>
        todo[o] # {} /\ cmd[o] \in {"update", "rollback"}
    /\ \A o \in Operators : pc[o] = "record" => ~Transactional
    /\ began \in [Operators -> Nat \cup {NotOpen}]
    /\ result \in [Operators -> 0..2]

Present == {v \in Versions : schema[v] = "present"}

Active == ActiveDdls(history)

\* A row of version v has a time that one inserted later does not exceed, so that they
\* may be read the wrong way round.
Overtaken(v) ==
    \E i, k \in 1..Len(history) :
        /\ i < k
        /\ history[i].version = v /\ history[k].version = v
        /\ history[i].applied >= history[k].applied

\* Postgres: whatever fails or is killed, and whoever runs commands at the same
\* time, the history table has recorded exactly the versions that the database has,
\* and the database has none of them in part; and a command that reads the table, in
\* whichever order its rows may come, is told so of every version but an overtaken one.
InStep ==
    Transactional =>
        /\ Active = Present
        /\ \A v \in Versions : schema[v] # "part"
        /\ \A rows \in Ordered(history) : \A v \in Versions :
                (v \in ActiveDdls(rows) <=> v \in Present) \/ Overtaken(v)

Strays == {v \in Versions : schema[v] = "part" \/ (v \in Active <=> v \notin Present)}

\* The new table has the rows, and the history table is made anew without them.
Orphaned == spare.there /\ spare.rows # <<>> /\ table # "v1"

\* ClickHouse: history and database differ in at most as many versions as there
\* were faults, and in the one whose row is about to be inserted: no sequence of
\* retries and rollbacks makes one fault spread.
FaultsContained ==
    ~Orphaned =>
        Cardinality(Strays) <= faults + Cardinality({o \in Operators : pc[o] = "record"})

\* One operator's commands always leave a history that the next can read: no
\* version is rolled back that is not applied (active_ddls would fail, and with
\* it every later command).
HistoryReadable == \A rows \in Ordered(history) : Readable(rows)

\* While the table is brought to its new form, every version that was recorded
\* is on record in one table or the other, whenever the command is killed; only
\* a rollback takes a record back.
RecordsSurvive ==
    Active \subseteq Active' \cup ActiveDdls(spare.rows)'
        \/ \E o \in Operators : cmd[o] = "rollback" /\ pc[o] \in {"ddl", "record"}

\* Postgres: an update that ends well leaves every installed version in the
\* database, and a status of 0 says that it is so.
CurrentAfterSuccess ==
    \A o \in Operators :
        pc[o] # "idle" /\ pc'[o] = "idle" /\ result'[o] = 0 /\ cmd[o] # "rollback"
            => \A v \in files : schema'[v] = "present"
=============================================================================
