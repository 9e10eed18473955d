------------------------------- MODULE MCRssac -------------------------------
(***************************************************************************)
(* RSSAC zone latency and reports, for TLC: the arithmetic of zone serials *)
(* as it is EXTENDed, with serials of four bits; the daemon and the        *)
(* notifier; the figures that the reports have; and the files that they    *)
(* are written to.  Each is explored for itself: what is running is chosen *)
(* at first and stays, and the variables of the others stay as they are.   *)
(***************************************************************************)
EXTENDS Serials, TLC

CONSTANTS NoMessage, n1, n2, n3, d4, s, t

VARIABLES
    running,        \* what is explored
    \* ZoneLatency
    zone, has, rows, sent, inbox, pc, serial, pass, unsent, asked, queries, answers,
    toReceive, done,
    \* RssacFigures
    latencies, messages,
    \* RssacReports
    files, missing, runs, rpc, command, todo, panels, rqueries, complete, okData

latencyVars ==
    <<zone, has, rows, sent, inbox, pc, serial, pass, unsent, asked, queries, answers,
      toReceive, done>>
figuresVars == <<latencies, messages>>
reportsVars ==
    <<files, missing, runs, rpc, command, todo, panels, rqueries, complete, okData>>
rssacVars == <<running, serialsVars, latencyVars, figuresVars, reportsVars>>

-----------------------------------------------------------------------------
(* Zone latency: three nodes, one of them inactive, and queries with IDs   *)
(* that do not clash; or one node, and IDs that may clash                  *)

Latency ==
    INSTANCE ZoneLatency WITH
        Nodes <- {n1, n2, n3}, Inactive <- {n3}, NoAddress <- {}, Daemons <- {d4},
        MaxSerial <- 2, MaxNotifies <- 2, MaxPasses <- 2,
        Duplicates <- FALSE, IdClash <- FALSE

Clashing ==
    INSTANCE ZoneLatency WITH
        Nodes <- {n1}, Inactive <- {}, NoAddress <- {}, Daemons <- {d4},
        MaxSerial <- 2, MaxNotifies <- 2, MaxPasses <- 2,
        Duplicates <- FALSE, IdClash <- TRUE

-----------------------------------------------------------------------------
(* Figures: three messages, or the latencies of two serials.  Ranges are   *)
(* two wide, so that there are lengths on both sides of every boundary.    *)

Message(ipv6, query, response, rcode, source) ==
    [tcp |-> FALSE, ipv6 |-> ipv6, query |-> query, response |-> response,
     rcode |-> rcode, source |-> source]

Lengths == {0, 1, 2, 3, 5, 6, 7, 8, 9, 10, 11}

\* A query or a response may be missing.
Messages ==
    {Message(FALSE, l, l + 1, 0, <<1, 1>>) : l \in Lengths}
        \cup {[Message(TRUE, l, NoMessage, NoMessage, <<1, 2>>) EXCEPT !.tcp = TRUE] :
                l \in {0, 5, 6}}
        \cup {Message(TRUE, NoMessage, l, 3, <<1, 3>>) : l \in {1, 9, 10}}
        \cup {Message(TRUE, 3, 9, 3, <<2, 1>>)}

Counts ==
    INSTANCE RssacFigures WITH
        Days <- {1, 2}, Serials <- {}, Total <- 3, MaxLatency <- 3, Threshold <- 50,
        MaxMessages <- 3, None <- NoMessage,
        Unit <- 2, QueryTop <- 6, ResponseTop <- 10, Split <- 5

Times ==
    INSTANCE RssacFigures WITH
        Days <- {1, 2}, Serials <- {s, t}, Total <- 3, MaxLatency <- 3, Threshold <- 66,
        Messages <- {}, MaxMessages <- 0, None <- NoMessage,
        Unit <- 2, QueryTop <- 6, ResponseTop <- 10, Split <- 5

-----------------------------------------------------------------------------
(* Reports: three of them, on the last day of a month and two of the next  *)

ReportFiles ==
    INSTANCE RssacReports WITH
        Dates <- {1, 2, 3},
        Month <- [date \in {1, 2, 3} |-> IF date = 1 THEN 1 ELSE 2],
        Offset <- [date \in {1, 2, 3} |-> 0],
        Reports <- <<"load-time", "rcode-volume", "traffic-volume">>,
        LoadTime <- "load-time",
        Panels <- [report \in {"load-time", "rcode-volume"} |-> <<"plot">>]
                    @@ ("traffic-volume" :> <<"plot-tcpipv4", "plot-udpipv4">>),
        Queries <- [report \in {"load-time", "rcode-volume"} |-> 1]
                    @@ ("traffic-volume" :> 2),
        Dotted <- FALSE, MaxRuns <- 2,
        pc <- rpc, queries <- rqueries

-----------------------------------------------------------------------------

RssacInit ==
    /\ running \in {"serials", "latency", "clashing", "counts", "times", "files"}
    /\ IF running = "serials" THEN SerialsInit
       ELSE oldest = 0 /\ serials = <<>> /\ seen = <<>> /\ res = None
    /\ IF running = "clashing" THEN Clashing!Init ELSE Latency!Init
    /\ Counts!Init
    /\ ReportFiles!Init
    /\ running # "files" => missing = {}

ClashingStep(A) ==
    running = "clashing" /\ A /\ UNCHANGED <<running, serialsVars, figuresVars, reportsVars>>

RssacNext ==
    /\ UNCHANGED running
    /\ \/ /\ running = "serials"
          /\ SerialsNext
          /\ UNCHANGED <<latencyVars, figuresVars, reportsVars>>
       \/ /\ \/ running = "latency" /\ Latency!Next
             \/ running = "clashing" /\ Clashing!Next
          /\ UNCHANGED <<serialsVars, figuresVars, reportsVars>>
       \/ /\ \/ running = "counts" /\ Counts!Next
             \/ running = "times" /\ Times!Next
          /\ UNCHANGED <<serialsVars, latencyVars, reportsVars>>
       \/ /\ running = "files"
          /\ ReportFiles!Next
          /\ UNCHANGED <<serialsVars, latencyVars, figuresVars>>

\* The fairness of ZoneLatency, for the instance that is small.
RssacSpec ==
    /\ RssacInit /\ [][RssacNext]_rssacVars
    /\ WF_rssacVars(ClashingStep(Clashing!Proceed(d4)))
    /\ WF_rssacVars(ClashingStep(Clashing!Finish(d4)))

-----------------------------------------------------------------------------
(* Properties of the components, for what is explored here                 *)

\* Serials, of four bits: LatestFound.

\* The daemon and the notifier: every variable has its type; an answer is never taken to
\* be of a node that did not give it, the shares of nodes that are stored count nodes that
\* had answered, once each, what is taken for outstanding at the end is what has not been
\* measured, and no latency is stored twice.
LatenciesTrue ==
    /\ running = "clashing" => Clashing!TypeOK
    /\ running = "latency" =>
        /\ Latency!TypeOK
        /\ Latency!OwnAnswer /\ Latency!ShareTrue /\ Latency!OutstandingTrue
        /\ Latency!MeasuredOnce

\* Nothing is stored in place of what is newer, or of something else: a latency is of a
\* serial later than all that are known, and a report replaces the same report of its day.
OthersKept ==
    [][/\ running = "latency" => Latency!NewestIsStored
       /\ running = "files" => ReportFiles!OthersKept]_<<latencyVars, reportsVars>>

\* Each datagram that a daemon gets is dealt with in the end, even if IDs clash.
InboxDrains == running = "clashing" => Clashing!InboxDrains

\* The reports of a day count the same messages, each of them once and in the range that
\* its length is in, and the plots show the same; the load-time report has one line for
\* each serial, with the time after which enough nodes had the zone.  The exit status of
\* dsv-rssac-reports tells whether all files are there.
ReportsTrue ==
    /\ running = "counts" => Counts!FiguresAgree /\ Counts!InItsRange /\ Counts!PlotsAgree
    /\ running = "times" => Times!OneLine /\ Times!LoadTimeTrue
    /\ running = "files" => ReportFiles!ExitTells
=============================================================================
