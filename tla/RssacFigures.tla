---------------------------- MODULE RssacFigures ----------------------------
(***************************************************************************)
(* The figures of the RSSAC reports: the queries that dsv-rssac-reports    *)
(* has for its YAML files, and those of the dashboard whose panels are the *)
(* plots beside them.  Two kinds of data arrive: the latencies that        *)
(* dsv-rssac-notify stores for a serial, and DNS messages of all nodes.    *)
(*                                                                         *)
(* Only nodes of the server are modelled.  Counts are exact here, while    *)
(* ClickHouse estimates those of unique sources; the rates of the plots    *)
(* are given as counts.                                                    *)
(***************************************************************************)
EXTENDS Integers, Sequences, FiniteSets, Functions

CONSTANTS
    Days,           \* the days: numbers
    Serials,        \* zone serials
    Total,          \* how many nodes the server has
    MaxLatency,     \* bound: seconds until the notifier gives up
    Threshold,      \* load-time-threshold: a percentage of nodes
    Messages,       \* the queries and responses that may be seen
    MaxMessages,    \* bound: how many are
    None,           \* no query, or no response
    Unit,           \* 16: the width of a range of sizes
    QueryTop,       \* 288: queries from here on are counted together
    ResponseTop,    \* 4096: and responses
    Split           \* 1000: sizes from here on have plots of their own

VARIABLES
    latencies,      \* the table ZoneLatency
    messages        \* what was seen, with the day

vars == <<latencies, messages>>

Init == latencies = {} /\ messages = <<>>

\* dsv-rssac-notify stores what it has measured of a serial, in the order of the
\* answers, with the time of each, which may be after midnight.
StoreLatencies ==
    /\ \E serial \in Serials, day \in Days, n \in 0..Total, midnight \in 0..(MaxLatency + 1) :
        /\ \A row \in latencies : row.serial # serial
        /\ \E latency \in [1..n -> 0..MaxLatency] :
            /\ \A k \in 1..(n - 1) : latency[k] <= latency[k + 1]
            /\ latencies' = latencies \cup
                {[serial |-> serial, node |-> k, latency |-> latency[k],
                  day |-> IF latency[k] < midnight THEN day ELSE day + 1,
                  percent |-> (k * 100) \div Total] : k \in 1..n}
    /\ UNCHANGED messages

\* A message is imported.
SeeMessage ==
    /\ Len(messages) < MaxMessages
    /\ \E m \in Messages, day \in Days : messages' = Append(messages, [m |-> m, day |-> day])
    /\ UNCHANGED latencies

Next == StoreLatencies \/ SeeMessage

Spec == Init /\ [][Next]_vars

-----------------------------------------------------------------------------
(* load-time                                                               *)

Rows(day) == {row \in latencies : row.day = day}

Least(ns) == CHOOSE n \in ns : \A m \in ns : n <= m

\* Faulty: the threshold must be exceeded.
ReachedOver(row) == row.percent > Threshold

Reached(row) == row.percent >= Threshold

\* Faulty: a serial is missing as long as some node was measured before the threshold.
MissedAny(day) == {row.serial : row \in {r \in Rows(day) : ~Reached(r)}}

\* The second SELECT: serials whose highest percentage is below the threshold.
Missed(day) ==
    {row.serial : row \in {r \in Rows(day) :
        \A s \in Rows(day) : s.serial = r.serial => ~Reached(s)}}

\* The lines of the report: the least latency of the rows that reach the threshold,
\* or -1, which is written as '-'.
LoadTime(day) ==
    {[serial |-> serial,
      time |-> Least({r.latency : r \in {s \in Rows(day) : s.serial = serial /\ Reached(s)}})] :
        serial \in {row.serial : row \in {r \in Rows(day) : Reached(r)}}}
    \cup {[serial |-> serial, time |-> -1] : serial \in Missed(day)}

\* yaml_3colvalue: a report with '-' is missing data.
Complete(day) == \A line \in LoadTime(day) : line.time # -1

-----------------------------------------------------------------------------
(* The other reports: rcode-volume, traffic-sizes, traffic-volume,         *)
(* unique-sources                                                          *)

Seen(day) == {i \in 1..Len(messages) : messages[i].day = day}

\* Faulty: sizes are rounded to the nearest range.
BucketNearest(length, top) ==
    (((IF length > top THEN top ELSE length) + Unit \div 2) \div Unit) * Unit

Bucket(length, top) == ((IF length > top THEN top ELSE length) \div Unit) * Unit

Buckets(top) == {Unit * k : k \in 0..(top \div Unit)}

Queries(day, tcp) ==
    {i \in Seen(day) : messages[i].m.tcp = tcp /\ messages[i].m.query # None}

Responses(day, tcp) ==
    {i \in Seen(day) : messages[i].m.tcp = tcp /\ messages[i].m.response # None}

RequestSizes(day, tcp) ==
    [b \in Buckets(QueryTop) |->
        Cardinality({i \in Queries(day, tcp) : Bucket(messages[i].m.query, QueryTop) = b})]

ResponseSizes(day, tcp) ==
    [b \in Buckets(ResponseTop) |->
        Cardinality({i \in Responses(day, tcp) : Bucket(messages[i].m.response, ResponseTop) = b})]

\* Faulty: responses without a query are received queries too.
QueryVolumeAll(day, tcp, ipv6) ==
    Cardinality({i \in Seen(day) : messages[i].m.tcp = tcp /\ messages[i].m.ipv6 = ipv6})

\* udp or tcp, ipv4 or ipv6: queries received and responses sent.
QueryVolume(day, tcp, ipv6) ==
    Cardinality({i \in Queries(day, tcp) : messages[i].m.ipv6 = ipv6})

ResponseVolume(day, tcp, ipv6) ==
    Cardinality({i \in Responses(day, tcp) : messages[i].m.ipv6 = ipv6})

Rcodes == {m.rcode : m \in Messages}

RcodeVolume(day) ==
    [rcode \in Rcodes |->
        Cardinality({i \in Responses(day, TRUE) \cup Responses(day, FALSE) :
                        messages[i].m.rcode = rcode})]

\* num-sources-ipv4, -ipv6 and -ipv6-aggregate: addresses, and the first half of them.
Sources(day, ipv6) ==
    {messages[i].m.source : i \in {k \in Seen(day) : messages[k].m.ipv6 = ipv6}}

Aggregate(day) == {source[1] : source \in Sources(day, TRUE)}

-----------------------------------------------------------------------------
(* The panels of the dashboard                                             *)

RangeOf(length) == (length \div Unit) * Unit

\* Faulty: the split is by the length and not by the start of its range.
BelowByLength(length) == length < Split

\* Sizes below 1000 and from there on are plots of their own, by the start of the range.
Below(length) == RangeOf(length) < Split

SmallQueries(day, tcp, b) ==
    Cardinality({i \in Queries(day, tcp) :
        Below(messages[i].m.query) /\ RangeOf(messages[i].m.query) = b})

SmallResponses(day, tcp, b) ==
    Cardinality({i \in Responses(day, tcp) :
        Below(messages[i].m.response) /\ RangeOf(messages[i].m.response) = b})

BigQueries(day, tcp, b) ==
    Cardinality({i \in Queries(day, tcp) :
        ~Below(messages[i].m.query) /\ RangeOf(messages[i].m.query) = b})

BigResponses(day, tcp, b) ==
    Cardinality({i \in Responses(day, tcp) :
        ~Below(messages[i].m.response) /\ RangeOf(messages[i].m.response) = b})

Transport(day, tcp, ipv6) ==
    {i \in Seen(day) : messages[i].m.tcp = tcp /\ messages[i].m.ipv6 = ipv6}

VolumePanel(day, tcp, ipv6) ==
    [queries |-> Cardinality({i \in Transport(day, tcp, ipv6) : messages[i].m.query # None}),
     responses |-> Cardinality({i \in Transport(day, tcp, ipv6) : messages[i].m.response # None})]

DifferencePanel(day, tcp, ipv6) ==
    LET panel == VolumePanel(day, tcp, ipv6) IN panel.queries - panel.responses

RcodePanel(day) ==
    [rcode \in Rcodes |->
        Cardinality({i \in Seen(day) :
            messages[i].m.response # None /\ messages[i].m.rcode = rcode})]

SourcesPanel(day) ==
    LET ipv6 == {messages[i].m.source : i \in {k \in Seen(day) : messages[k].m.ipv6}}
        ipv4 == {messages[i].m.source : i \in {k \in Seen(day) : ~messages[k].m.ipv6}}
    IN  [ipv664 |-> Cardinality({source[1] : source \in ipv6}),
         ipv6 |-> Cardinality(ipv6), ipv4 |-> Cardinality(ipv4)]

\* A point for each node that was measured.
LoadTimePanel(day) == {<<row.serial, row.latency>> : row \in Rows(day)}

-----------------------------------------------------------------------------
(* Properties                                                              *)

\* The file has one line for each serial that has a point in the plot of the day.
OneLine ==
    \A day \in Days \cup {d + 1 : d \in Days} :
        LET serials == {point[1] : point \in LoadTimePanel(day)} IN
        /\ {line.serial : line \in LoadTime(day)} = serials
        /\ Cardinality(LoadTime(day)) = Cardinality(serials)

Measured(serial) == {row \in latencies : row.serial = serial}

\* When the nodes that had the zone by then were enough, for the first time.
Enough(serial) ==
    {t \in 0..MaxLatency :
        100 * Cardinality({row \in Measured(serial) : row.latency <= t}) >= Threshold * Total}

OneDay(serial) == \A r, s \in Measured(serial) : r.day = s.day

\* The load time is the time after which the required share of nodes had the zone,
\* and is missing just if it was never reached, for a serial measured within a day.
LoadTimeTrue ==
    \A day \in Days : \A line \in LoadTime(day) :
        OneDay(line.serial) =>
            line.time = IF Enough(line.serial) = {} THEN -1 ELSE Least(Enough(line.serial))

Sum(f) == FoldFunction(+, 0, f)

\* The reports agree with each other: the sizes, the codes and the volumes of a day
\* count the same messages, each of them once, and no source is counted twice.
FiguresAgree ==
    \A day \in Days :
        /\ \A tcp \in BOOLEAN :
            /\ Sum(RequestSizes(day, tcp)) = QueryVolume(day, tcp, TRUE) + QueryVolume(day, tcp, FALSE)
            /\ Sum(ResponseSizes(day, tcp)) =
                ResponseVolume(day, tcp, TRUE) + ResponseVolume(day, tcp, FALSE)
        /\ Sum(RcodeVolume(day)) = Sum(ResponseSizes(day, TRUE)) + Sum(ResponseSizes(day, FALSE))
        /\ Cardinality(Aggregate(day)) <= Cardinality(Sources(day, TRUE))

\* A message is counted in the range that its length is in: from the last one on,
\* which is labelled "288-" or "4096-", there is no upper end.
InRange(length, top) ==
    LET b == Bucket(length, top) IN
    b <= length /\ b <= top /\ (b < top => length <= b + Unit - 1)

InItsRange ==
    \A i \in 1..Len(messages) :
        LET m == messages[i].m IN
        /\ m.query # None => InRange(m.query, QueryTop)
        /\ m.response # None => InRange(m.response, ResponseTop)

\* The plots show what the YAML file says: each range below the last is in one of
\* the two plots, with the same count, as are volumes, codes and sources.
PlotsAgree ==
    \A day \in Days :
        /\ \A tcp \in BOOLEAN :
            /\ \A b \in Buckets(QueryTop) \ {QueryTop} :
                /\ RequestSizes(day, tcp)[b] = SmallQueries(day, tcp, b) + BigQueries(day, tcp, b)
                /\ (IF b < Split THEN BigQueries(day, tcp, b) ELSE SmallQueries(day, tcp, b)) = 0
            /\ \A b \in Buckets(ResponseTop) \ {ResponseTop} :
                /\ ResponseSizes(day, tcp)[b] = SmallResponses(day, tcp, b) + BigResponses(day, tcp, b)
                /\ (IF b < Split THEN BigResponses(day, tcp, b) ELSE SmallResponses(day, tcp, b)) = 0
            /\ \A ipv6 \in BOOLEAN :
                /\ VolumePanel(day, tcp, ipv6).queries = QueryVolume(day, tcp, ipv6)
                /\ VolumePanel(day, tcp, ipv6).responses = ResponseVolume(day, tcp, ipv6)
                /\ QueryVolume(day, tcp, ipv6) =
                    ResponseVolume(day, tcp, ipv6) + DifferencePanel(day, tcp, ipv6)
        /\ RcodePanel(day) = RcodeVolume(day)
        /\ SourcesPanel(day) =
            [ipv664 |-> Cardinality(Aggregate(day)), ipv6 |-> Cardinality(Sources(day, TRUE)),
             ipv4 |-> Cardinality(Sources(day, FALSE))]
=============================================================================
