----------------------------- MODULE ZoneLatency -----------------------------
(***************************************************************************)
(* RSSAC zone latency.  The primary server of a zone sends a NOTIFY with   *)
(* the serial of each new version to dsv-rssac-daemon, one daemon for IPv4 *)
(* and one for IPv6.  The daemon acknowledges it and runs                  *)
(* dsv-rssac-notify, which asks every node for its serial, over UDP, pass  *)
(* after pass, until all of them have answered with the new one or time is *)
(* up, and stores how long each took in the table ZoneLatency.             *)
(*                                                                         *)
(* Serials are plain numbers here; Serials shows when the comparison is    *)
(* that of numbers.  Query IDs are abstracted: each pass takes its IDs     *)
(* from a random place, so that an answer to an earlier pass is out of     *)
(* range, or has the ID of any query of the present one (IdClash).         *)
(***************************************************************************)
EXTENDS Integers, Sequences, FiniteSets

CONSTANTS
    Nodes,          \* the nodes of the server
    Inactive,       \* those flagged as inactive: no longer in the list of nodes
    NoAddress,      \* those without a usable service address
    Daemons,        \* the daemons: one for each socket
    MaxSerial,      \* bound: versions of the zone
    MaxNotifies,    \* bound: datagrams sent to the daemons
    MaxPasses,      \* bound: passes until time is up
    Duplicates,     \* the network may deliver an answer twice
    IdClash         \* an ID may be used by two passes

Serials == 1..MaxSerial

\* What a daemon may get: a NOTIFY, with the serial or without one, another
\* message, or a NOTIFY of another zone.
Datagrams == [kind : {"notify", "other"}, serial : 0..MaxSerial]

VARIABLES
    zone,       \* the serial of the zone
    has,        \* the serial of the zone that each node has
    rows,       \* the table: how many rows there are of a node and serial
    sent,       \* how many datagrams have been sent to the daemons
    inbox,      \* those that wait in the socket of each daemon
    pc,         \* where each daemon, or the notifier it runs, is
    serial,     \* the serial its notifier measures
    pass,       \* the number of its pass
    unsent,     \* the nodes it has still to send a query to in this pass
    asked,      \* all nodes of this pass: nids
    queries,    \* queries under way: node and pass
    answers,    \* answers under way: node, pass and serial
    toReceive,  \* to_receive
    done        \* nodes with a latency, and how many nodes it then took for done

zones == <<zone, has>>
network == <<queries, answers>>
notifier == <<pc, serial, pass, unsent, asked, network, toReceive, done>>
vars == <<zones, rows, sent, inbox, notifier>>

\* getnodelist: the flags NOT_RSSAC are those of both.
NodeList == Nodes \ (Inactive \cup NoAddress)

Total == Cardinality(NodeList)

NotDone == [n \in Nodes |-> -1]

Init ==
    /\ zone = 1
    /\ has = [n \in Nodes |-> 1]
    /\ rows = [n \in Nodes |-> [s \in Serials |-> 0]]
    /\ sent = 0
    /\ inbox = [d \in Daemons |-> <<>>]
    /\ pc = [d \in Daemons |-> "listen"]
    /\ serial = [d \in Daemons |-> 0]
    /\ pass = [d \in Daemons |-> 0]
    /\ unsent = [d \in Daemons |-> {}]
    /\ asked = [d \in Daemons |-> {}]
    /\ queries = [d \in Daemons |-> {}]
    /\ answers = [d \in Daemons |-> {}]
    /\ toReceive = [d \in Daemons |-> 0]
    /\ done = [d \in Daemons |-> NotDone]

-----------------------------------------------------------------------------
(* The zone and the network                                                *)

Publish ==
    /\ zone < MaxSerial
    /\ zone' = zone + 1
    /\ UNCHANGED <<has, rows, sent, inbox, notifier>>

\* A node gets the present version.
Transfer(n) ==
    /\ has[n] < zone
    /\ has' = [has EXCEPT ![n] = zone]
    /\ UNCHANGED <<zone, rows, sent, inbox, notifier>>

\* The primary, or dsv-rssac-daemon-tester, sends a datagram to a daemon.
Send(d) ==
    /\ sent < MaxNotifies
    /\ \E m \in Datagrams :
        /\ m.serial <= zone
        /\ inbox' = [inbox EXCEPT ![d] = Append(@, m)]
    /\ sent' = sent + 1
    /\ UNCHANGED <<zones, rows, notifier>>

\* A node gets a query and answers with the serial it has now.
Answer(d, q) ==
    /\ q \in queries[d]
    /\ queries' = [queries EXCEPT ![d] = @ \ {q}]
    /\ answers' = [answers EXCEPT ![d] =
                    @ \cup {[node |-> q.node, pass |-> q.pass, serial |-> has[q.node]]}]
    /\ UNCHANGED <<zones, rows, sent, inbox, pc, serial, pass, unsent, asked,
                   toReceive, done>>

\* A query or an answer is lost, or an answer is empty or malformed.
Lose(d) ==
    /\ \/ \E q \in queries[d] : queries' = [queries EXCEPT ![d] = @ \ {q}]
                                /\ UNCHANGED answers
       \/ \E a \in answers[d] : answers' = [answers EXCEPT ![d] = @ \ {a}]
                                /\ UNCHANGED queries
    /\ UNCHANGED <<zones, rows, sent, inbox, pc, serial, pass, unsent, asked,
                   toReceive, done>>

-----------------------------------------------------------------------------
(* dsv-rssac-daemon                                                        *)

\* handle(): one datagram at a time.  A NOTIFY with a serial runs the notifier,
\* and the daemon waits for it; anything else is passed over.
Handle(d) ==
    LET m == Head(inbox[d]) IN
    /\ pc[d] = "listen"
    /\ inbox[d] # <<>>
    /\ inbox' = [inbox EXCEPT ![d] = Tail(@)]
    /\ IF m.kind = "notify" /\ m.serial # 0
       THEN pc' = [pc EXCEPT ![d] = "start"] /\ serial' = [serial EXCEPT ![d] = m.serial]
       ELSE UNCHANGED <<pc, serial>>
    /\ UNCHANGED <<zones, rows, sent, pass, unsent, asked, network, toReceive, done>>

-----------------------------------------------------------------------------
(* dsv-rssac-notify                                                        *)

\* latest_serial: the latest serial in the table of any node of the server, also of one that
\* is no longer asked; 0 if it has none.  All rows are of the month that it looks back.
Latest ==
    LET known == {s \in Serials : \E n \in Nodes : rows[n][s] > 0}
    IN IF known = {} THEN 0 ELSE CHOOSE s \in known : \A t \in known : t <= s

\* Its end: the socket is closed, and answers under way go nowhere.
Quit(d) ==
    /\ pc' = [pc EXCEPT ![d] = "listen"]
    /\ queries' = [queries EXCEPT ![d] = {}]
    /\ answers' = [answers EXCEPT ![d] = {}]
    /\ unsent' = [unsent EXCEPT ![d] = {}]
    /\ asked' = [asked EXCEPT ![d] = {}]
    /\ done' = [done EXCEPT ![d] = NotDone]
    /\ toReceive' = [toReceive EXCEPT ![d] = 0]
    /\ pass' = [pass EXCEPT ![d] = 0]

\* Faulty: a serial that is known already is measured again.
CheckLatestNot(d) ==
    /\ pc[d] = "start"
    /\ pc' = [pc EXCEPT ![d] = "pass"]
    /\ toReceive' = [toReceive EXCEPT ![d] = Total]
    /\ UNCHANGED <<zones, rows, sent, inbox, serial, pass, unsent, asked, network, done>>

\* A serial that is not newer than the latest in the table has been dealt with.
\* Without nodes there is a division by zero, in the end.
CheckLatest(d) ==
    /\ pc[d] = "start"
    /\ IF Latest # 0 /\ Latest >= serial[d]
       THEN Quit(d)
       ELSE /\ pc' = [pc EXCEPT ![d] = "pass"]
            /\ toReceive' = [toReceive EXCEPT ![d] = Total]
            /\ UNCHANGED <<pass, unsent, asked, network, done>>
    /\ UNCHANGED <<zones, rows, sent, inbox, serial>>

Unmeasured(d) == {n \in NodeList : done[d][n] = -1}

\* Faulty: every node is asked in every pass.
BeginPassAll(d) ==
    /\ pc[d] = "pass"
    /\ pass[d] < MaxPasses
    /\ pc' = [pc EXCEPT ![d] = "select"]
    /\ pass' = [pass EXCEPT ![d] = @ + 1]
    /\ asked' = [asked EXCEPT ![d] = NodeList]
    /\ unsent' = [unsent EXCEPT ![d] = NodeList]
    /\ toReceive' = [toReceive EXCEPT ![d] = Total]
    /\ UNCHANGED <<zones, rows, sent, inbox, serial, network, done>>

\* Faulty: the flags of the nodes are not looked at.
BeginPassUnflagged(d) ==
    /\ pc[d] = "pass"
    /\ pass[d] < MaxPasses
    /\ pc' = [pc EXCEPT ![d] = "select"]
    /\ pass' = [pass EXCEPT ![d] = @ + 1]
    /\ asked' = [asked EXCEPT ![d] = Nodes]
    /\ unsent' = [unsent EXCEPT ![d] = Nodes]
    /\ toReceive' = [toReceive EXCEPT ![d] = Cardinality(Nodes)]
    /\ UNCHANGED <<zones, rows, sent, inbox, serial, network, done>>

\* A pass: make_query_list lists the nodes that have no latency yet.
BeginPass(d) ==
    /\ pc[d] = "pass"
    /\ pass[d] < MaxPasses
    /\ pc' = [pc EXCEPT ![d] = "select"]
    /\ pass' = [pass EXCEPT ![d] = @ + 1]
    /\ asked' = [asked EXCEPT ![d] = Unmeasured(d)]
    /\ unsent' = [unsent EXCEPT ![d] = Unmeasured(d)]
    /\ toReceive' = [toReceive EXCEPT ![d] = Cardinality(Unmeasured(d))]
    /\ UNCHANGED <<zones, rows, sent, inbox, serial, network, done>>

SendQuery(d) ==
    /\ pc[d] = "select"
    /\ \E n \in unsent[d] :
        /\ unsent' = [unsent EXCEPT ![d] = @ \ {n}]
        /\ queries' = [queries EXCEPT ![d] = @ \cup {[node |-> n, pass |-> pass[d]]}]
    /\ UNCHANGED <<zones, rows, sent, inbox, pc, serial, pass, asked, answers,
                   toReceive, done>>

Selecting(d) == pc[d] = "select" /\ (unsent[d] # {} \/ toReceive[d] > 0)

\* The node an answer is taken to be of.
Attributed(d, a) ==
    IF a.pass = pass[d] THEN {a.node}
    ELSE IF IdClash THEN asked[d] ELSE {}

Consume(d, a) ==
    IF Duplicates THEN UNCHANGED answers
    ELSE answers' = [answers EXCEPT ![d] = @ \ {a}]

\* Faulty: the serial in the answer is not looked at.
ReceiveAny(d, a) ==
    /\ Selecting(d)
    /\ a \in answers[d]
    /\ Consume(d, a)
    /\ \E n \in Attributed(d, a) :
        /\ toReceive' = [toReceive EXCEPT ![d] = @ - 1]
        /\ done' = [done EXCEPT ![d][n] = Total - (toReceive[d] - 1)]
    /\ UNCHANGED <<zones, rows, sent, inbox, pc, serial, pass, unsent, asked, queries>>

\* An answer with the serial that is measured.
Receive(d, a) ==
    /\ Selecting(d)
    /\ a \in answers[d]
    /\ a.serial = serial[d]
    /\ Consume(d, a)
    /\ \E n \in Attributed(d, a) :
        /\ toReceive' = [toReceive EXCEPT ![d] = @ - 1]
        /\ done' = [done EXCEPT ![d][n] = Total - (toReceive[d] - 1)]
    /\ UNCHANGED <<zones, rows, sent, inbox, pc, serial, pass, unsent, asked, queries>>

\* An answer that is out of range, or of a node that has still an older serial.
Ignore(d, a) ==
    /\ Selecting(d)
    /\ a \in answers[d]
    /\ a.pass # pass[d] \/ a.serial < serial[d]
    /\ answers' = [answers EXCEPT ![d] = @ \ {a}]
    /\ UNCHANGED <<zones, rows, sent, inbox, pc, serial, pass, unsent, asked, queries,
                   toReceive, done>>

\* NotifyError: the zone has moved on.
Obsolete(d, a) ==
    /\ Selecting(d)
    /\ a \in answers[d]
    /\ a.serial > serial[d]
    /\ Attributed(d, a) # {}
    /\ Quit(d)
    /\ UNCHANGED <<zones, rows, sent, inbox, serial>>

\* Faulty: answers still missing are not waited for a second, but for ever.
EndPassAll(d) ==
    /\ pc[d] = "select"
    /\ unsent[d] = {}
    /\ toReceive[d] = 0
    /\ pc' = [pc EXCEPT ![d] = "store"]
    /\ UNCHANGED <<zones, rows, sent, inbox, serial, pass, unsent, asked, network,
                   toReceive, done>>

\* All queries are sent, and all answers received or none for a second.  Then
\* it is time for the next pass, unless nothing is outstanding or time is up.
EndPass(d) ==
    /\ pc[d] = "select"
    /\ unsent[d] = {}
    /\ \E next \in {"pass", "store"} :
        /\ toReceive[d] = 0 => next = "store"
        /\ pass[d] = MaxPasses => next = "store"
        /\ pc' = [pc EXCEPT ![d] = next]
    /\ UNCHANGED <<zones, rows, sent, inbox, serial, pass, unsent, asked, network,
                   toReceive, done>>

\* update_latency_table: one INSERT of all nodes that have a latency.  It may fail.
Store(d) ==
    /\ pc[d] = "store"
    /\ \/ rows' = [n \in Nodes |->
                    IF done[d][n] # -1 THEN [rows[n] EXCEPT ![serial[d]] = @ + 1]
                    ELSE rows[n]]
       \/ UNCHANGED rows
    /\ Quit(d)
    /\ UNCHANGED <<zones, sent, inbox, serial>>

Proceed(d) == Handle(d) \/ CheckLatest(d) \/ BeginPass(d) \/ SendQuery(d)

\* The notifier gives up for want of answers, or of time.
Finish(d) == EndPass(d) \/ Store(d)

NotifierNext(d) ==
    \/ Proceed(d) \/ Finish(d)
    \/ \E a \in answers[d] : Receive(d, a) \/ Ignore(d, a) \/ Obsolete(d, a)

Next ==
    \/ Publish
    \/ \E n \in Nodes : Transfer(n)
    \/ \E d \in Daemons :
        \/ Send(d) \/ Lose(d) \/ NotifierNext(d)
        \/ \E q \in queries[d] : Answer(d, q)

Fairness == \A d \in Daemons : WF_vars(Proceed(d)) /\ WF_vars(Finish(d))

Spec == Init /\ [][Next]_vars

FairSpec == Spec /\ Fairness

-----------------------------------------------------------------------------
(* Properties                                                              *)

Queries == [node : Nodes, pass : 1..MaxPasses]

Answers == [node : Nodes, pass : 1..MaxPasses, serial : Serials]

\* Every variable has its type, and only the nodes of the pass are sent to.
TypeOK ==
    /\ zone \in Serials /\ has \in [Nodes -> Serials]
    /\ rows \in [Nodes -> [Serials -> Nat]]
    /\ sent \in 0..MaxNotifies
    /\ inbox \in [Daemons -> Seq(Datagrams)]
    /\ pc \in [Daemons -> {"listen", "start", "pass", "select", "store"}]
    /\ serial \in [Daemons -> 0..MaxSerial]
    /\ pass \in [Daemons -> 0..MaxPasses]
    /\ asked \in [Daemons -> SUBSET NodeList]
    /\ unsent \in [Daemons -> SUBSET NodeList]
    /\ \A d \in Daemons : unsent[d] \subseteq asked[d]
    /\ queries \in [Daemons -> SUBSET Queries]
    /\ answers \in [Daemons -> SUBSET Answers]
    /\ toReceive \in [Daemons -> Int]
    /\ done \in [Daemons -> [Nodes -> Int]]

Measured(d) == {n \in Nodes : done[d][n] # -1}

\* A node that a latency was measured of has the version that was measured, or a
\* later one: an answer is never taken to be of a node that did not give it
\* (make_query_list: "when we get a response with an ID in our range, we can
\* update that node's information").
OwnAnswer == \A d \in Daemons : \A n \in Measured(d) : has[n] >= serial[d]

\* The share of nodes that is stored with each latency counts the nodes that had
\* answered by then, each of them once, however many passes that took.
ShareTrue ==
    \A d \in Daemons :
        /\ \A n \in Measured(d) : done[d][n] \in 1..Cardinality(Measured(d))
        /\ \A n, m \in Measured(d) : done[d][n] = done[d][m] => n = m

\* The notifier reports success only if as many nodes as required have answered:
\* what it takes for outstanding at the end is what has not been measured.
OutstandingTrue ==
    \A d \in Daemons : pc[d] = "store" =>
        Total - toReceive[d] = Cardinality(Measured(d))

\* "Check ClickHouse zone tables to see if we have information on the zone serial
\* passed as argument": no latency is stored twice.
MeasuredOnce == \A n \in Nodes, s \in Serials : rows[n][s] <= 1

\* What is stored is about a serial that is newer than all that are known.
NewestIsStored ==
    \A n \in Nodes, s \in Serials : rows'[n][s] > rows[n][s] => Latest < s

\* Each datagram that a daemon gets is dealt with in the end: the notifier it runs
\* for one of them, and waits for, does not keep it from the next for ever.
InboxDrains == \A d \in Daemons : []<>(inbox[d] = <<>> /\ pc[d] = "listen")
=============================================================================
