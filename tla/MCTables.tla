------------------------------ MODULE MCTables ------------------------------
(***************************************************************************)
(* The commands that maintain tables, for TLC: dsv-postgres-update and     *)
(* dsv-clickhouse-update, dsv-nodes-update, dsv-geo-update and             *)
(* dsv-tld-update; and the dashboards that select nodes.  They share no    *)
(* table, so that one run explores each of them for itself: what is        *)
(* running is chosen at first and stays, and the variables of the others   *)
(* stay as they are.                                                       *)
(***************************************************************************)
EXTENDS SchemaHistory

CONSTANTS NoName, None, o1, c1

VARIABLES
    running,        \* what is explored
    \* the schema of a database that one operator updates
    ofiles, oschema, otable, ohistory, ospare, oclock, ocommands, ofaults,
    opc, ocmd, otodo, obegan, oresult,
    \* NodeList
    servers, nodes, attributes, runs, npc, file, at, pending, own,
    \* GeoUpdate
    geolocation, gruns, gpc, archive, gfile, row, locdata, written, gtodo,
    \* TldUpdate
    tld, list, lists, tpc, listed, known, ttodo, inserted, deleted, ulabels,
    \* NodeSelection
    options, chosen, all

oneVars ==
    <<ofiles, oschema, otable, ohistory, ospare, oclock, ocommands, ofaults, opc, ocmd,
      otodo, obegan, oresult>>
nodeVars == <<servers, nodes, attributes, runs, npc, file, at, pending, own>>
geoVars == <<geolocation, gruns, gpc, archive, gfile, row, locdata, written, gtodo>>
tldVars == <<tld, list, lists, tpc, listed, known, ttodo, inserted, deleted, ulabels>>
selectionVars == <<options, chosen, all>>
tablesVars == <<running, vars, oneVars, nodeVars, geoVars, tldVars, selectionVars>>

-----------------------------------------------------------------------------
(* Schemas: two operators and Postgres, as it is EXTENDed, or one operator *)

TwoVersions == 1..2
ThreeVersions == 1..3

OnePostgres ==
    INSTANCE SchemaHistory WITH
        Versions <- ThreeVersions, Reversible <- ThreeVersions, Operators <- {o1},
        Transactional <- TRUE, OldTable <- TRUE, SameSecond <- FALSE,
        MaxFaults <- 2, MaxCommands <- 4,
        files <- ofiles, schema <- oschema, table <- otable, history <- ohistory,
        spare <- ospare, clock <- oclock, commands <- ocommands, faults <- ofaults,
        pc <- opc, cmd <- ocmd, todo <- otodo, began <- obegan, result <- oresult

ClickHouse ==
    INSTANCE SchemaHistory WITH
        Versions <- ThreeVersions, Reversible <- ThreeVersions, Operators <- {o1},
        Transactional <- FALSE, OldTable <- FALSE, SameSecond <- FALSE,
        MaxFaults <- 2, MaxCommands <- 4,
        files <- ofiles, schema <- oschema, table <- otable, history <- ohistory,
        spare <- ospare, clock <- oclock, commands <- ocommands, faults <- ofaults,
        pc <- opc, cmd <- ocmd, todo <- otodo, began <- obegan, result <- oresult

\* The first version of Visualizer is upgraded.
OldClickHouse ==
    INSTANCE SchemaHistory WITH
        Versions <- ThreeVersions, Reversible <- TwoVersions, Operators <- {o1},
        Transactional <- FALSE, OldTable <- TRUE, SameSecond <- FALSE,
        MaxFaults <- 2, MaxCommands <- 3,
        files <- ofiles, schema <- oschema, table <- otable, history <- ohistory,
        spare <- ospare, clock <- oclock, commands <- ocommands, faults <- ofaults,
        pc <- opc, cmd <- ocmd, todo <- otodo, began <- obegan, result <- oresult

-----------------------------------------------------------------------------
(* Nodes: all files of one or two rows about a server or about a node      *)

Pairs(names) == [name : names, alt : names \cup {NoName}]

NodeRows(serverPairs, nodePairs) ==
    [server : serverPairs, node : nodePairs, details : {"x", "y"}]

One(name) == {[name |-> name, alt |-> NoName]}

\* One server with nodes of up to three names, or servers of as many with one node.
NodeFiles == UNION {[1..n -> NodeRows(One("s"), Pairs({"a", "b", "c"}))] : n \in 1..2}
ServerFiles == UNION {[1..n -> NodeRows(Pairs({"r", "s", "t"}), One("a"))] : n \in 1..2}

NodeNames ==
    INSTANCE NodeList WITH Files <- NodeFiles, Commands <- {c1}, MaxRuns <- 2, pc <- npc

ServerNames ==
    INSTANCE NodeList WITH Files <- ServerFiles, Commands <- {c1}, MaxRuns <- 2, pc <- npc

-----------------------------------------------------------------------------
(* Locations: an archive's files in the order in which MaxMind packs them  *)

Location(id, names) == [id |-> id, names |-> names]

Block(id, country, position) == [id |-> id, country |-> country, position |-> position]

File(kind, rows) == [kind |-> kind, rows |-> rows]

Locations ==
    {File("Locations-en", <<Location(1, <<None, "shire", "land", "continent">>),
                            Location(2, <<name, None, "land", "continent">>)>>) :
        name \in {"town", None}}

BlockRows == {Block(1, 9, <<5, 5>>), Block(1, None, <<6, 6>>), Block(2, 9, None),
              Block(3, 9, <<7, 7>>), Block(None, 9, <<8, 8>>)}

BlockFiles == {File("Blocks-IPv4", <<a, b>>) : a \in BlockRows, b \in BlockRows}

IPv6File == File("Blocks-IPv6", <<Block(2, 9, <<4, 4>>)>>)

LocationsFirst == {<<IPv6File, l, b>> : l \in Locations, b \in BlockFiles}

Geo ==
    INSTANCE GeoUpdate WITH
        Archives <- LocationsFirst, MaxRuns <- 2,
        runs <- gruns, pc <- gpc, file <- gfile, todo <- gtodo

-----------------------------------------------------------------------------
(* Top level domains: a country's by its letters, or by its page           *)

Tld ==
    INSTANCE TldUpdate WITH
        Names <- {"com", "org", "uk", "xn--country", "xn--other"},
        TwoLetters <- {"uk"},
        Idn <- {"xn--country", "xn--other"},
        CountryPages <- {"uk", "xn--country"},
        Legacy <- {"com", "org"},
        Commands <- {c1}, MaxLists <- 2,
        pc <- tpc, todo <- ttodo

-----------------------------------------------------------------------------
(* Dashboards: two servers, three cities in two countries of two regions;  *)
(* instances are shared by servers and by cities                           *)

Node(server, region, country, city, instance, name) ==
    [server |-> server, region |-> region, country |-> country, city |-> city,
     instance |-> instance, name |-> name, flags |-> {}]

World(name5) ==
    {Node("s1", "europe", "uk", "london", "i1", "n1"),
     Node("s1", "europe", "uk", "leeds", "i2", "n2"),
     Node("s1", "america", "us", "boston", "i2", "n3"),
     Node("s2", "europe", "uk", "london", "i1", "n4"),
     Node("s2", "america", "us", "boston", "i3", name5)}

MainSite ==
    INSTANCE NodeSelection WITH
        Site <- "main", Tables <- {World("n5"), World("n1")}, nodes <- options

\* On the test site nodes are chosen by name: names are those of one node.
TestSite ==
    INSTANCE NodeSelection WITH
        Site <- "test", Tables <- {World("n5")}, nodes <- options

-----------------------------------------------------------------------------

TablesInit ==
    /\ running \in {"schema", "postgres", "clickhouse", "upgrade", "node names",
                    "server names", "locations", "domains", "main site", "test site"}
    /\ Init
    /\ CASE running = "clickhouse" -> ClickHouse!Init
         [] running = "upgrade" -> OldClickHouse!Init
         [] OTHER -> OnePostgres!Init
    /\ NodeNames!Init
    /\ Geo!Init
    /\ Tld!Init
    /\ running # "domains" => \A n \in DOMAIN tld : tld[n].ulabel
    /\ IF running = "test site" THEN TestSite!Init ELSE MainSite!Init
    /\ running # "main site" => options = World("n5")

TablesNext ==
    /\ UNCHANGED running
    /\ \/ /\ running = "schema"
          /\ Next
          /\ UNCHANGED <<oneVars, nodeVars, geoVars, tldVars, selectionVars>>
       \/ /\ \/ running = "postgres" /\ OnePostgres!Next
             \/ running = "clickhouse" /\ ClickHouse!Next
             \/ running = "upgrade" /\ OldClickHouse!Next
          /\ UNCHANGED <<vars, nodeVars, geoVars, tldVars, selectionVars>>
       \/ /\ \/ running = "node names" /\ NodeNames!Next
             \/ running = "server names" /\ ServerNames!Next
          /\ UNCHANGED <<vars, oneVars, geoVars, tldVars, selectionVars>>
       \/ /\ running = "locations"
          /\ Geo!Next
          /\ UNCHANGED <<vars, oneVars, nodeVars, tldVars, selectionVars>>
       \/ /\ running = "domains"
          /\ Tld!Next
          /\ UNCHANGED <<vars, oneVars, nodeVars, geoVars, selectionVars>>
       \/ /\ \/ running = "main site" /\ MainSite!Next
             \/ running = "test site" /\ TestSite!Next
          /\ UNCHANGED <<vars, oneVars, nodeVars, geoVars, tldVars>>

TablesSpec == TablesInit /\ [][TablesNext]_tablesVars

-----------------------------------------------------------------------------
(* Properties of the components, for what is explored here                 *)

\* SchemaHistory, two operators and Postgres: TypeOK and InStep.  The others:

OneOperator == {"postgres", "clickhouse", "upgrade"}

\* One operator: no sequence of retries and rollbacks makes one fault spread, or leaves a
\* history that the next command cannot read.
FaultsStay ==
    running \in OneOperator => ClickHouse!FaultsContained /\ ClickHouse!HistoryReadable

\* One operator: a status of 0 says, of Postgres, that every installed version is in the
\* database; and no record is lost while the history table is brought to its new form.
UpdatesTrue ==
    [][/\ running = "postgres" => OnePostgres!CurrentAfterSuccess
       /\ ClickHouse!RecordsSurvive]_oneVars

Log ==
    INSTANCE SchemaLog WITH
        Versions <- ThreeVersions,
        applied <- IF running = "upgrade" THEN {} ELSE ClickHouse!Active

\* What one operator's commands record changes as SchemaLog says: one version at a
\* time, and only the highest is taken back.  (While the history table is upgraded,
\* records move to another table: UpdatesTrue.)
OneImplementsLog == Log!Spec

\* What the tables tell and how dashboards select by it.  Rows of nodes are what they should
\* be, and no name is that of two servers, or of two nodes of a server.  A location has the
\* position of the last block that gives one, and its narrowest name.  After any choices,
\* only nodes are plotted that have a chosen value of each variable, no option leads to an
\* empty plot, and if only servers are chosen, all of their nodes are plotted.
TablesTrue ==
    /\ running = "node names" => NodeNames!TypeOK
    /\ running = "server names" => ServerNames!TypeOK
    /\ running \in {"node names", "server names"} => NodeNames!NamesUnique
    /\ running = "locations" => Geo!PositionsKept /\ Geo!NarrowestName
    /\ running = "main site" =>
        MainSite!OnlyChosen /\ MainSite!NoEmptyOption /\ MainSite!WholeServers
    /\ running = "test site" => TestSite!OnlyChosen /\ TestSite!NoEmptyOption

NodesFollow ==
    NodeNames!OnlyListedActive /\ NodeNames!LastRowFound /\ NodeNames!RenameKeepsId

DomainsFollow == Tld!TableIsList /\ Tld!TypesTrue /\ Tld!LabelsSet

\* A command makes of a table what its file, archive or list says.  Only nodes that the
\* file is about are active, what its last row says can be looked up with any of its names,
\* and only that, and names that a node is known by are never those of another later.
\* Readers see all that an archive says of locations, or nothing of it.  All top level
\* domains of the list are there, of their type and with their U-labels, and no others.
TablesFollow == [][NodesFollow /\ Geo!AllAtOnce /\ DomainsFollow]_<<nodeVars, geoVars, tldVars>>
=============================================================================
