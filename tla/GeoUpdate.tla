----------------------------- MODULE GeoUpdate ------------------------------
(***************************************************************************)
(* dsv-geo-update: the files of MaxMind's archive, one row after another,  *)
(* are collected by location and then written in one transaction.          *)
(***************************************************************************)
EXTENDS Integers, Sequences, FiniteSetsExt, Tables

CONSTANTS
    Archives,       \* what an archive may be: a sequence of files with their rows
    None,           \* a field of a row is empty
    MaxRuns         \* bound: how many commands are run

VARIABLES
    geolocation,    \* the table: of each location, country, name and position
    runs,
    pc,
    archive,        \* the archive that the command reads
    file, row,      \* where it is in the archive
    locdata,        \* what it has collected
    written,        \* the table as its transaction sees it
    todo            \* the locations that are still to be written

vars == <<geolocation, runs, pc, archive, file, row, locdata, written, todo>>

NoPosition == <<0, 0>>

Init ==
    /\ geolocation = <<>>
    /\ runs = 0 /\ pc = "idle"
    /\ archive = <<>> /\ file = 0 /\ row = 0
    /\ locdata = <<>> /\ written = <<>> /\ todo = {}

Start ==
    /\ pc = "idle" /\ runs < MaxRuns
    /\ runs' = runs + 1
    /\ \E a \in Archives : archive' = a
    /\ file' = 1 /\ row' = 1
    /\ locdata' = <<>>
    /\ pc' = "read"
    /\ UNCHANGED <<geolocation, written, todo>>

\* Locations-en.csv and Blocks-IPv4.csv are read, of the other files nothing.
Read(f) == f.kind \in {"Locations-en", "Blocks-IPv4"}

Here == archive[file].rows[row]

InFile(kind) ==
    /\ pc = "read" /\ file <= Len(archive)
    /\ archive[file].kind = kind /\ row <= Len(archive[file].rows)

\* Faulty: the first block of a location counts.
ReadBlockFirst ==
    /\ InFile("Blocks-IPv4")
    /\ IF Here.id = None \/ Here.position = None THEN UNCHANGED locdata
       ELSE IF Here.id \notin DOMAIN locdata
       THEN locdata' = Put(locdata, Here.id,
                           [country |-> Here.country, name |-> "", position |-> Here.position])
       ELSE locdata' = [locdata EXCEPT ![Here.id].position =
                            IF @ = NoPosition THEN Here.position ELSE @]
    /\ row' = row + 1
    /\ UNCHANGED <<geolocation, runs, pc, archive, file, written, todo>>

\* read_block_info: rows without a location or a position are left out.
ReadBlock ==
    /\ InFile("Blocks-IPv4")
    /\ IF Here.id = None \/ Here.position = None THEN UNCHANGED locdata
       ELSE LET old == IF Here.id \in DOMAIN locdata THEN locdata[Here.id].name ELSE ""
                country == IF Here.country = None THEN 0 ELSE Here.country
            IN  locdata' = Put(locdata, Here.id,
                               [country |-> country, name |-> old, position |-> Here.position])
    /\ row' = row + 1
    /\ UNCHANGED <<geolocation, runs, pc, archive, file, written, todo>>

Given(names) == {k \in DOMAIN names : names[k] # None}

\* Faulty: the fields are tried from the continent down.
NameOfLast(names) == IF Given(names) = {} THEN "" ELSE names[Max(Given(names))]

\* The first of city, subdivisions, country and continent that is not empty.
NameOf(names) == IF Given(names) = {} THEN "" ELSE names[Min(Given(names))]

\* read_location_info: `id` is not the location's id, so that the location is always new.
ReadLocation ==
    /\ InFile("Locations-en")
    /\ locdata' = Put(locdata, Here.id,
                      [country |-> 0, name |-> NameOf(Here.names), position |-> NoPosition])
    /\ row' = row + 1
    /\ UNCHANGED <<geolocation, runs, pc, archive, file, written, todo>>

NextFile ==
    /\ pc = "read" /\ file <= Len(archive)
    /\ ~Read(archive[file]) \/ row > Len(archive[file].rows)
    /\ file' = file + 1 /\ row' = 1
    /\ UNCHANGED <<geolocation, runs, pc, archive, locdata, written, todo>>

\* A dry run ends here.
EndOfArchive ==
    /\ pc = "read" /\ file > Len(archive)
    /\ \/ pc' = "write" /\ todo' = DOMAIN locdata /\ written' = geolocation
       \/ pc' = "idle" /\ UNCHANGED <<todo, written>>
    /\ UNCHANGED <<geolocation, runs, archive, file, row, locdata>>

\* Faulty: each row is committed.
WriteRowCommits ==
    /\ pc = "write"
    /\ \E id \in todo :
        /\ written' = Put(written, id, locdata[id])
        /\ geolocation' = written'
        /\ todo' = todo \ {id}
    /\ UNCHANGED <<runs, pc, archive, file, row, locdata>>

\* INSERT, or UPDATE of the location that is there.
WriteRow ==
    /\ pc = "write"
    /\ \E id \in todo :
        /\ written' = Put(written, id, locdata[id])
        /\ todo' = todo \ {id}
    /\ UNCHANGED <<geolocation, runs, pc, archive, file, row, locdata>>

Commit ==
    /\ pc = "write" /\ todo = {}
    /\ geolocation' = written
    /\ pc' = "done"
    /\ UNCHANGED <<runs, archive, file, row, locdata, written, todo>>

Exit ==
    /\ pc = "done" /\ pc' = "idle"
    /\ UNCHANGED <<geolocation, runs, archive, file, row, locdata, written, todo>>

\* The archive cannot be read, or the database fails.
Fail ==
    /\ pc \in {"read", "write"} /\ pc' = "idle"
    /\ todo' = {}
    /\ UNCHANGED <<geolocation, runs, archive, file, row, locdata, written>>

Next ==
    \/ Start \/ ReadBlock \/ ReadLocation \/ NextFile \/ EndOfArchive
    \/ WriteRow \/ Commit \/ Exit \/ Fail

Spec == Init /\ [][Next]_vars

-----------------------------------------------------------------------------

Places == UNION {{k} \X DOMAIN archive[k].rows : k \in DOMAIN archive}

RowAt(p) == archive[p[1]].rows[p[2]]

\* The rows of which locations and blocks are read.
LocationRows == {p \in Places : archive[p[1]].kind = "Locations-en"}

BlockRows ==
    {p \in Places : /\ archive[p[1]].kind = "Blocks-IPv4"
                    /\ RowAt(p).id # None /\ RowAt(p).position # None}

Later(p, q) == p[1] < q[1] \/ (p[1] = q[1] /\ p[2] < q[2])

\* A location of which a block gives the position has the position of the last such
\* block, after a run that ends well.
PositionsKept ==
    pc = "done" => \A p \in BlockRows :
        (\A q \in BlockRows : RowAt(q).id = RowAt(p).id => ~Later(p, q)) =>
            /\ RowAt(p).id \in DOMAIN geolocation
            /\ geolocation[RowAt(p).id].position = RowAt(p).position

\* After a run that ends well, a location has the narrowest name that the archive has.
NarrowestName ==
    pc = "done" => \A p \in LocationRows : \A k \in Given(RowAt(p).names) :
        (\A j \in Given(RowAt(p).names) : k <= j) =>
            geolocation[RowAt(p).id].name = RowAt(p).names[k]

\* The table changes from what one archive says to what another says, all at once: a
\* reader never sees a location that the archive has together with one that is not yet
\* written.
AllAtOnce == geolocation' = geolocation \/ geolocation' = Over(locdata, geolocation)
=============================================================================
