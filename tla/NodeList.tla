------------------------------ MODULE NodeList ------------------------------
(***************************************************************************)
(* The list of nodes in Postgres.  dsv-nodes-update reads a file of rows   *)
(* and brings the tables node_server and node up to date, in one           *)
(* transaction: a row that has a name of a server, or of a node of it,     *)
(* changes that one, and another is added; nodes that no row is about are  *)
(* flagged as inactive.  Nodes and servers have two names, a primary and   *)
(* an alternate one, and dsv-find-node-id looks for both.                  *)
(*                                                                         *)
(* A transaction sees what is committed and its own changes (the default   *)
(* isolation of Postgres), waits for another that has changed the row it   *)
(* is to change, and is rolled back when it fails.                         *)
(***************************************************************************)
EXTENDS Integers, Sequences, FiniteSets, Tables

CONSTANTS
    NoName,         \* no alternate name
    Files,          \* the files: sequences of rows
    Commands,       \* the commands that may run at the same time
    MaxRuns         \* bound: how many are run

VARIABLES
    servers,        \* node_server: the names of each server
    nodes,          \* node: names, server, details and flag of each node
    attributes,     \* node_instance, node_city, node_country and node_region
    runs,           \* how many commands have been run
    pc,             \* where each of them is
    file,           \* the rows it has read
    at,             \* the row it is at
    pending,        \* what its next statement is about
    own             \* what its transaction has changed

tables == <<servers, nodes, attributes>>
vars == <<tables, runs, pc, file, at, pending, own>>

NoServer == 0

Empty == [id \in {} |-> 0]

NoChanges == [servers |-> Empty, nodes |-> Empty, attributes |-> {}]

Init ==
    /\ servers = Empty
    /\ nodes = Empty
    /\ attributes = {}
    /\ runs = 0
    /\ pc = [c \in Commands |-> "idle"]
    /\ file = [c \in Commands |-> <<>>]
    /\ at = [c \in Commands |-> 1]
    /\ pending = [c \in Commands |-> {}]
    /\ own = [c \in Commands |-> NoChanges]

\* What a transaction sees.
Servers(c) == Over(own[c].servers, servers)

NodesSeen(c) == Over(own[c].nodes, nodes)

Others(c) == Commands \ {c}

Row(c) == file[c][at[c]]

-----------------------------------------------------------------------------
(* The tables and their names                                              *)

Known(pair) == {pair.name, pair.alt} \ {NoName}

\* Faulty: the alternate name may be that of the node itself.
AnyPair(pair) == TRUE

\* name_pair: the names must not be the same.
ValidPair(pair) == pair.name # pair.alt

\* Of a table, what has one of the names; the primary name is tried first.
Find(table, ids, pair) ==
    LET having(n) == {id \in ids : n \in Known(table[id])}
        first == having(pair.name)
    IN IF first # {} THEN first
       ELSE IF pair.alt = NoName THEN {} ELSE having(pair.alt)

\* Faulty: alternate names are not looked at.
ClashPrimary(table, ids, pair) == \E id \in ids : table[id].name = pair.name

\* One of the names is that of another.
Clash(table, ids, pair) == \E id \in ids : Known(table[id]) \cap Known(pair) # {}

FindServer(c, pair) == Find(Servers(c), DOMAIN Servers(c), pair)

\* NULL is not equal to any server.
NodesOf(c, server) ==
    {id \in DOMAIN NodesSeen(c) : NodesSeen(c)[id].server = server /\ server # NoServer}

\* dsv-find-node-id, with what is committed.
FindNodeId(server, node) ==
    {id \in DOMAIN nodes :
        /\ nodes[id].server \in {s \in DOMAIN servers : server \in Known(servers[s])}
        /\ node \in Known(nodes[id])}

\* An id that is not in use.
NextId(used) == 1 + (IF used = {} THEN 0 ELSE CHOOSE m \in used : \A n \in used : n <= m)

NewServer == NextId(DOMAIN servers \cup UNION {DOMAIN own[c].servers : c \in Commands})

NewNode == NextId(DOMAIN nodes \cup UNION {DOMAIN own[c].nodes : c \in Commands})

-----------------------------------------------------------------------------
(* dsv-nodes-update                                                        *)

Stop(c) ==
    /\ pc' = [pc EXCEPT ![c] = "idle"]
    /\ file' = [file EXCEPT ![c] = <<>>]
    /\ at' = [at EXCEPT ![c] = 1]
    /\ pending' = [pending EXCEPT ![c] = {}]
    /\ own' = [own EXCEPT ![c] = NoChanges]

\* An error, or the end of the connection: the transaction is rolled back.
Fail(c) ==
    /\ pc[c] # "idle"
    /\ Stop(c)
    /\ UNCHANGED <<tables, runs>>

\* read_csv: a file with an invalid row is not begun.
Start(c) ==
    /\ pc[c] = "idle"
    /\ runs < MaxRuns
    /\ runs' = runs + 1
    /\ \E f \in Files :
        /\ \A i \in 1..Len(f) : ValidPair(f[i].server) /\ ValidPair(f[i].node)
        /\ file' = [file EXCEPT ![c] = f]
    /\ pc' = [pc EXCEPT ![c] = "attributes"]
    /\ UNCHANGED <<tables, at, pending, own>>

\* The loops of main: the step for the next row, or the next loop.
NextRow(c, step, next) ==
    IF at[c] < Len(file[c])
    THEN at' = [at EXCEPT ![c] = @ + 1] /\ pc' = [pc EXCEPT ![c] = step]
    ELSE at' = [at EXCEPT ![c] = 1] /\ pc' = [pc EXCEPT ![c] = next]

\* INSERT ... ON CONFLICT DO NOTHING waits for another that inserts the same.
AddAttribute(c) ==
    /\ pc[c] = "attributes"
    /\ Row(c).details \notin attributes =>
        \A o \in Others(c) : Row(c).details \notin own[o].attributes
    /\ own' = [own EXCEPT ![c].attributes = @ \cup ({Row(c).details} \ attributes)]
    /\ NextRow(c, "attributes", "servers")
    /\ UNCHANGED <<tables, runs, file, pending>>

\* add_or_update_server: find the server of the row, and check the names.
FindServerOfRow(c) ==
    LET pair == Row(c).server
        found == FindServer(c, pair)
    IN
    /\ pc[c] = "servers"
    /\ \E id \in (IF found = {} THEN {NoServer} ELSE found) :
        IF Clash(Servers(c), DOMAIN Servers(c) \ {id}, pair)
        THEN Stop(c)
        ELSE /\ pending' = [pending EXCEPT ![c] = {id}]
             /\ pc' = [pc EXCEPT ![c] = "write_server"]
             /\ UNCHANGED <<file, at, own>>
    /\ UNCHANGED <<tables, runs>>

\* A statement waits for a transaction that has changed the row, or inserted one
\* with the same primary name.
ServerFree(c, id, pair) ==
    \A o \in Others(c) : \A s \in DOMAIN own[o].servers :
        s # id /\ own[o].servers[s].name # pair.name

\* UPDATE or INSERT.  The primary name is unique: it may have been committed by
\* another meanwhile.
WriteServer(c) ==
    LET pair == Row(c).server IN
    /\ pc[c] = "write_server"
    /\ \E found \in pending[c] :
        LET id == IF found = NoServer THEN NewServer ELSE found IN
        /\ ServerFree(c, id, pair)
        /\ IF \E s \in DOMAIN Servers(c) \ {id} : Servers(c)[s].name = pair.name
           THEN Stop(c)
           ELSE /\ own' = [own EXCEPT ![c].servers = Put(@, id, pair)]
                /\ pending' = [pending EXCEPT ![c] = {}]
                /\ NextRow(c, "servers", "inactive")
                /\ UNCHANGED file
    /\ UNCHANGED <<tables, runs>>

\* mark_all_inactive begins: one UPDATE of all nodes that are seen now.
SeeNodes(c) ==
    /\ pc[c] = "inactive"
    /\ pending' = [pending EXCEPT ![c] = DOMAIN NodesSeen(c)]
    /\ pc' = [pc EXCEPT ![c] = "mark"]
    /\ UNCHANGED <<tables, runs, file, at, own>>

\* Faulty: nodes are not flagged as inactive.
MarkNothing(c) ==
    /\ pc[c] = "mark"
    /\ pending' = [pending EXCEPT ![c] = {}]
    /\ pc' = [pc EXCEPT ![c] = "nodes"]
    /\ UNCHANGED <<tables, runs, file, at, own>>

\* mark_all_inactive, when no other transaction has a hold of any of them.
MarkInactive(c) ==
    /\ pc[c] = "mark"
    /\ \A o \in Others(c) : DOMAIN own[o].nodes \cap pending[c] = {}
    /\ own' = [own EXCEPT ![c].nodes =
                Over([id \in pending[c] |-> [NodesSeen(c)[id] EXCEPT !.inactive = TRUE]], @)]
    /\ pending' = [pending EXCEPT ![c] = {}]
    /\ pc' = [pc EXCEPT ![c] = "nodes"]
    /\ UNCHANGED <<tables, runs, file, at>>

\* add_or_update_node: find the server of the row, if there is one, and the node,
\* and check the names.
FindNodeOfRow(c) ==
    LET pair == Row(c).node
        found == FindServer(c, Row(c).server)
    IN
    /\ pc[c] = "nodes"
    /\ \E server \in (IF found = {} THEN {NoServer} ELSE found) :
        LET ids == NodesOf(c, server)
            known == Find(NodesSeen(c), ids, pair)
        IN \E id \in (IF known = {} THEN {NoServer} ELSE known) :
            IF Clash(NodesSeen(c), ids \ {id}, pair)
            THEN Stop(c)
            ELSE /\ pending' = [pending EXCEPT ![c] = {<<id, server>>}]
                 /\ pc' = [pc EXCEPT ![c] = "write_node"]
                 /\ UNCHANGED <<file, at, own>>
    /\ UNCHANGED <<tables, runs>>

NodeFree(c, id, server, name) ==
    \A o \in Others(c) : \A n \in DOMAIN own[o].nodes :
        n # id /\ ~(own[o].nodes[n].server = server /\ own[o].nodes[n].name = name)

NodeOf(row, server) ==
    [name |-> row.node.name, alt |-> row.node.alt, server |-> server,
     details |-> row.details, inactive |-> FALSE]

\* Faulty: the flags of a node that is known are not updated.
WriteNodeFlags(c) ==
    LET row == Row(c) IN
    /\ pc[c] = "write_node"
    /\ \E p \in pending[c] :
        LET id == IF p[1] = NoServer THEN NewNode ELSE p[1] IN
        own' = [own EXCEPT ![c].nodes =
                Put(@, id, [NodeOf(row, p[2]) EXCEPT
                                !.inactive = p[1] # NoServer /\ NodesSeen(c)[id].inactive])]
    /\ pending' = [pending EXCEPT ![c] = {}]
    /\ NextRow(c, "nodes", "commit")
    /\ UNCHANGED <<tables, runs, file>>

\* UPDATE or INSERT of the node.  Name and server are unique, unless it has none.
WriteNode(c) ==
    LET row == Row(c) IN
    /\ pc[c] = "write_node"
    /\ \E p \in pending[c] :
        LET id == IF p[1] = NoServer THEN NewNode ELSE p[1] IN
        /\ NodeFree(c, id, p[2], row.node.name)
        /\ IF \E n \in NodesOf(c, p[2]) \ {id} : NodesSeen(c)[n].name = row.node.name
           THEN Stop(c)
           ELSE /\ own' = [own EXCEPT ![c].nodes = Put(@, id, NodeOf(row, p[2]))]
                /\ pending' = [pending EXCEPT ![c] = {}]
                /\ NextRow(c, "nodes", "commit")
                /\ UNCHANGED file
    /\ UNCHANGED <<tables, runs>>

Commit(c) ==
    /\ pc[c] = "commit"
    /\ servers' = Servers(c)
    /\ nodes' = NodesSeen(c)
    /\ attributes' = attributes \cup own[c].attributes
    /\ Stop(c)
    /\ UNCHANGED runs

Next ==
    \E c \in Commands :
        \/ Start(c) \/ Fail(c)
        \/ AddAttribute(c) \/ FindServerOfRow(c) \/ WriteServer(c)
        \/ SeeNodes(c) \/ MarkInactive(c)
        \/ FindNodeOfRow(c) \/ WriteNode(c) \/ Commit(c)

Spec == Init /\ [][Next]_vars

-----------------------------------------------------------------------------
(* Properties                                                              *)

\* Every variable has its type; a node is of a server that is there, if of any.
TypeOK ==
    /\ \A s \in DOMAIN servers : servers[s].name # servers[s].alt
    /\ \A n \in DOMAIN nodes :
        /\ nodes[n].name # nodes[n].alt
        /\ nodes[n].server \in DOMAIN servers \cup {NoServer}
        /\ nodes[n].details \in attributes
        /\ nodes[n].inactive \in BOOLEAN
    /\ runs \in 0..MaxRuns
    /\ \A c \in Commands :
        /\ file[c] \in Files \cup {<<>>}
        /\ at[c] \in 1..(IF file[c] = <<>> THEN 1 ELSE Len(file[c]))
        /\ pc[c] = "idle" => own[c] = NoChanges

\* "Ensure no name and altname clashes": no name, primary or alternate, is that of
\* two servers, or of two nodes of a server, so that dsv-find-node-id finds one.
NamesUnique ==
    /\ \A s, t \in DOMAIN servers :
        s # t => Known(servers[s]) \cap Known(servers[t]) = {}
    /\ \A m, n \in DOMAIN nodes :
        /\ m # n
        /\ nodes[m].server = nodes[n].server
        /\ nodes[m].server # NoServer
        => Known(nodes[m]) \cap Known(nodes[n]) = {}

Committing(c) ==
    pc[c] = "commit" /\ pc'[c] = "idle" /\ servers' = Servers(c) /\ nodes' = NodesSeen(c)

\* "Those updated from the file will get their correct flags written, leaving all
\* nodes not in the CSV file marked inactive": when a command is done, a node is
\* active only if a row of its file was about it.
OnlyListedActive ==
    \A c \in Commands : Committing(c) =>
        \A id \in DOMAIN nodes' : ~nodes'[id].inactive =>
            \E i \in 1..Len(file[c]) :
                /\ file[c][i].node = [name |-> nodes'[id].name, alt |-> nodes'[id].alt]
                /\ file[c][i].details = nodes'[id].details

\* "the server or node data will be updated to the value in the row": what the last
\* row says can be looked up with any of its names, and only that.
LastRowFound ==
    \A c \in Commands : Committing(c) =>
        LET last == file[c][Len(file[c])] IN
        \A s \in Known(last.server), n \in Known(last.node) :
            \E id \in DOMAIN nodes' :
                /\ FindNodeId(s, n)' = {id}
                /\ nodes'[id].details = last.details
                /\ ~nodes'[id].inactive

\* Two pairs of names have none in common, and nothing is known by names of both.
Apart(table, ids, p, q) ==
    /\ Known(p) \cap Known(q) = {}
    /\ \A id \in ids :
        Known(table[id]) \cap Known(p) = {} \/ Known(table[id]) \cap Known(q) = {}

\* No row is about what another row is about, but for the server.
RowsApart(f) ==
    \A i, k \in 1..Len(f) :
        /\ f[i].server # f[k].server =>
            Apart(servers, DOMAIN servers, f[i].server, f[k].server)
        /\ f[i].server = f[k].server /\ i # k =>
            Apart(nodes, DOMAIN nodes, f[i].node, f[k].node)

\* "A server or a node can be renamed by initially giving the new name as an
\* alternate name": names that a node is known by are never those of another
\* later, unless rows of the file share what they are about.
RenameKeepsId ==
    \A c \in Commands : Committing(c) /\ RowsApart(file[c]) =>
        \A id \in DOMAIN nodes : nodes[id].server # NoServer =>
            \A s \in Known(servers[nodes[id].server]), n \in Known(nodes[id]) :
                FindNodeId(s, n)' \subseteq {id}
=============================================================================
