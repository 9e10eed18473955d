----------------------------- MODULE RssacProofs -----------------------------
(***************************************************************************)
(* What Serials, ZoneLatency, RssacReports and RssacFigures show of small  *)
(* instances is proved of all.                                             *)
(*                                                                         *)
(* Serials: any half range, 2^31 too, and lists of any length.  Of two     *)
(* serials that are close enough, cmp_serial tells which has grown further *)
(* since the oldest; the invariant is that none of those seen has grown    *)
(* further than the latest.                                                *)
(*                                                                         *)
(* ZoneLatency: what the daemon and the notifier store about a zone is     *)
(* true, for any nodes, daemons, versions of the zone and passes, and      *)
(* whatever the network loses or delays.  Each theorem names what it takes *)
(* to be so of the network and of the query IDs.                           *)
(*                                                                         *)
(* RssacReports: the exit status of dsv-rssac-reports is true after any    *)
(* commands, however they fail.  RssacFigures: what the YAML files and the *)
(* plots say of any messages and latencies agrees, and is true.            *)
(***************************************************************************)
EXTENDS Serials, ZoneLatency, FiniteSetTheorems, WellFoundedInduction, TLAPS

-----------------------------------------------------------------------------
(* Serials                                                                 *)

\* Serials that the window does not put too far apart for the comparison.
Close == Window < Half - 1

\* cmp_serial follows RFC 1982 but where that leaves the order undefined, and where
\* the second serial is larger by one less than half the range.
LEMMA FollowsRFC1982 ==
    ASSUME NEW a \in SerialNumbers, NEW b \in SerialNumbers,
           ~Undefined(a, b), b - a # Half - 1
    PROVE  cmp_serial(a, b) = RFC1982(a, b)
BY SerialAssumption DEF SerialNumbers, Undefined, cmp_serial, RFC1982, Before

\* A serial has grown by less than the whole range.
LEMMA GrowthInRange ==
    ASSUME oldest \in SerialNumbers, NEW s \in SerialNumbers
    PROVE  Growth(s) \in 0..(2 * Half - 1)
BY SerialAssumption DEF SerialNumbers, Growth

\* cmp_serial compares what serials have grown by.
LEMMA ComparesGrowth ==
    ASSUME oldest \in SerialNumbers, Close,
           NEW a \in Recent, NEW b \in Recent
    PROVE  /\ cmp_serial(a, b) < 0 <=> Growth(a) < Growth(b)
           /\ Before(a, b) => Growth(a) < Growth(b)
<1>1. /\ a \in SerialNumbers /\ Growth(a) <= Window
      /\ b \in SerialNumbers /\ Growth(b) <= Window
  BY DEF Recent
<1>2. /\ Growth(a) \in 0..(2 * Half - 1)
      /\ Growth(b) \in 0..(2 * Half - 1)
  BY <1>1, GrowthInRange
<1>3. cmp_serial(a, b) < 0 <=> Growth(a) < Growth(b)
  BY <1>1, <1>2, SerialAssumption DEF SerialNumbers, Close, Growth, cmp_serial
<1>4. Before(a, b) => Growth(a) < Growth(b)
  BY <1>1, <1>2, SerialAssumption DEF SerialNumbers, Close, Growth, Before
<1> QED BY <1>3, <1>4

-----------------------------------------------------------------------------

\* The latest is one of those seen, and none of them has grown further.
Furthest ==
    /\ \E i \in 1..Len(seen) : res = seen[i]
    /\ \A i \in 1..Len(seen) : Growth(seen[i]) <= Growth(res)

LatestInv ==
    /\ oldest \in SerialNumbers
    /\ serials \in Seq(Recent)
    /\ seen \in Seq(Recent)
    /\ seen = <<>> => res = None
    /\ seen # <<>> /\ Nonzero /\ Close => Furthest

LEMMA InitLatestInv == SerialsInit => LatestInv
<1> SUFFICES ASSUME SerialsInit PROVE LatestInv
  OBVIOUS
<1>1. serials \in Seq(Recent)
  BY DEF SerialsInit
<1> QED
  BY <1>1 DEF SerialsInit, LatestInv

\* One turn of the loop.
LEMMA NextLatestInv == LatestInv /\ SerialsNext => LatestInv'
<1> SUFFICES ASSUME LatestInv, SerialsNext PROVE LatestInv'
  OBVIOUS
<1> DEFINE h == Head(serials)
<1>1. oldest' = oldest /\ Recent' = Recent
  BY DEF SerialsNext, Recent, Growth
<1>2. \A s : Growth(s)' = Growth(s)
  BY <1>1 DEF Growth
<1>3. h \in Recent /\ serials' \in Seq(Recent)
  BY DEF LatestInv, SerialsNext
<1>4. seen' = Append(seen, h) /\ seen \in Seq(Recent)
  BY DEF LatestInv, SerialsNext
<1>5. seen' \in Seq(Recent) /\ seen' # <<>>
  BY <1>3, <1>4
<1>6. /\ Len(seen') = Len(seen) + 1
      /\ Len(seen) \in Nat
      /\ seen'[Len(seen) + 1] = h
      /\ \A i \in 1..Len(seen) : seen'[i] = seen[i] /\ seen[i] \in Recent
  BY <1>3, <1>4
<1>7. ASSUME Nonzero', Close PROVE Furthest'
  <2>1. Nonzero
    BY <1>6, <1>7 DEF Nonzero
  <2>2. CASE seen = <<>>
    <3>1. res' = h /\ Len(seen) = 0
      BY <2>2 DEF LatestInv, SerialsNext
    <3> QED
      BY <3>1, <1>6, <1>2, <1>3, GrowthInRange DEF Furthest, LatestInv, Recent
  <2>3. CASE seen # <<>>
    <3>1. Furthest
      BY <1>7, <2>1, <2>3 DEF LatestInv
    <3>2. PICK j \in 1..Len(seen) : res = seen[j]
      BY <3>1 DEF Furthest
    <3>3. res \in Recent /\ res # 0
      BY <1>6, <2>1, <3>2 DEF Nonzero
    <3>4. res # None
      BY <3>3, SerialAssumption DEF Recent, SerialNumbers, None
    <3>5. res' = IF cmp_serial(res, h) < 0 THEN h ELSE res
      BY <3>3, <3>4 DEF SerialsNext
    <3>6. cmp_serial(res, h) < 0 <=> Growth(res) < Growth(h)
      BY <1>3, <1>7, <3>3, ComparesGrowth DEF LatestInv
    <3>7. /\ Growth(res) \in Int /\ Growth(h) \in Int
          /\ \A i \in 1..Len(seen) : Growth(seen[i]) \in Int
      BY <1>3, <1>6, <3>3, GrowthInRange DEF LatestInv, Recent
    <3>8. /\ Growth(h) <= Growth(res')
          /\ \A i \in 1..Len(seen) : Growth(seen[i]) <= Growth(res')
      BY <3>1, <3>5, <3>6, <3>7 DEF Furthest
    <3>9. \A i \in 1..Len(seen') : Growth(seen'[i]) <= Growth(res')
      BY <1>6, <3>8
    <3>10. \E i \in 1..Len(seen') : res' = seen'[i]
      BY <1>6, <3>2, <3>5
    <3> QED
      BY <1>2, <3>9, <3>10 DEF Furthest
  <2> QED BY <2>2, <2>3
<1> QED
  BY <1>1, <1>3, <1>5, <1>7 DEF LatestInv, Close

\* The latest of those seen is found: no other comes after it.
LEMMA LatestInvFound == LatestInv => LatestFound
<1> SUFFICES ASSUME LatestInv, seen # <<>>, Nonzero, Window < Half - 1
             PROVE  /\ \E i \in 1..Len(seen) : res = seen[i]
                    /\ \A i \in 1..Len(seen) : ~Before(res, seen[i])
  BY DEF LatestFound
<1>1. Furthest /\ Close
  BY DEF LatestInv, Close
<1>2. \A i \in 1..Len(seen) : seen[i] \in Recent
  BY DEF LatestInv
<1>3. ASSUME NEW i \in 1..Len(seen) PROVE ~Before(res, seen[i])
  <2>1. res \in Recent /\ seen[i] \in Recent
    BY <1>1, <1>2 DEF Furthest
  <2>2. Growth(seen[i]) <= Growth(res)
    BY <1>1 DEF Furthest
  <2>3. Growth(seen[i]) \in Int /\ Growth(res) \in Int
    BY <2>1, GrowthInRange DEF LatestInv, Recent
  <2> QED
    BY <1>1, <2>1, <2>2, <2>3, ComparesGrowth DEF LatestInv
<1> QED
  BY <1>1, <1>3 DEF Furthest

\* find_latest_serial finds the latest serial of a list of any length and in any
\* order, across the point where the numbers wrap around, for any width of serials:
\* provided none is 0 and they are within half the range, less two, of each other.
THEOREM FindsLatest == SerialsSpec => []LatestFound
<1>1. LatestInv /\ [SerialsNext]_serialsVars => LatestInv'
  <2>1. LatestInv /\ UNCHANGED serialsVars => LatestInv'
    BY DEF LatestInv, serialsVars, Close, Furthest, Nonzero, Growth, Recent
  <2> QED BY <2>1, NextLatestInv
<1> QED
  BY <1>1, InitLatestInv, LatestInvFound, PTL DEF SerialsSpec

-----------------------------------------------------------------------------
(* ZoneLatency: finite sets and sequences                                  *)

\* The bounds are numbers, and there are as many nodes as a number says.
Bounds ==
    /\ IsFiniteSet(Nodes)
    /\ MaxSerial \in Nat \ {0} /\ MaxNotifies \in Nat /\ MaxPasses \in Nat

LEMMA NodesCounted ==
    ASSUME Bounds
    PROVE  /\ NodeList \subseteq Nodes /\ Total \in Nat
           /\ \A S \in SUBSET Nodes : IsFiniteSet(S) /\ Cardinality(S) \in Nat
<1>1. NodeList \subseteq Nodes
  BY DEF NodeList
<1>2. ASSUME NEW S \in SUBSET Nodes PROVE IsFiniteSet(S) /\ Cardinality(S) \in Nat
  <2>1. IsFiniteSet(S)
    BY FS_Subset DEF Bounds
  <2> QED
    BY <2>1, FS_CardinalityType
<1> QED
  BY <1>1, <1>2 DEF Total

\* One message less in the sets of the daemons.
LEMMA OneLess ==
    ASSUME NEW S, NEW f \in [Daemons -> SUBSET S], NEW d \in Daemons, NEW x, NEW g,
           g = f \/ g = [f EXCEPT ![d] = @ \ {x}]
    PROVE  g \in [Daemons -> SUBSET S] /\ \A e \in Daemons : g[e] \subseteq f[e]
<1>1. CASE g = f
  BY <1>1
<1>2. CASE g = [f EXCEPT ![d] = @ \ {x}]
  BY <1>2
<1> QED
  BY <1>1, <1>2

\* What Lose does.
LEMMA LoseParts ==
    ASSUME TypeOK, NEW d \in Daemons, Lose(d)
    PROVE  /\ queries' \in [Daemons -> SUBSET Queries] /\ answers' \in [Daemons -> SUBSET Answers]
           /\ \A e \in Daemons : queries'[e] \subseteq queries[e] /\ answers'[e] \subseteq answers[e]
<1>1. queries \in [Daemons -> SUBSET Queries] /\ answers \in [Daemons -> SUBSET Answers]
  BY DEF TypeOK
<1>2. ASSUME NEW q, queries' = [queries EXCEPT ![d] = @ \ {q}], answers' = answers
      PROVE  /\ queries' \in [Daemons -> SUBSET Queries]
             /\ \A e \in Daemons : queries'[e] \subseteq queries[e]
  BY <1>1, <1>2, OneLess
<1>3. ASSUME NEW a, answers' = [answers EXCEPT ![d] = @ \ {a}], queries' = queries
      PROVE  /\ answers' \in [Daemons -> SUBSET Answers]
             /\ \A e \in Daemons : answers'[e] \subseteq answers[e]
  BY <1>1, <1>3, OneLess
<1> QED
  BY <1>1, <1>2, <1>3 DEF Lose

\* What becomes of the answers when one is taken up.
LEMMA ReceiveParts ==
    ASSUME TypeOK, NEW d \in Daemons, NEW a \in answers[d], Receive(d, a)
    PROVE  /\ answers' \in [Daemons -> SUBSET Answers]
           /\ \A e \in Daemons : answers'[e] \subseteq answers[e]
<1>1. answers' = answers \/ answers' = [answers EXCEPT ![d] = @ \ {a}]
  BY DEF Receive, Consume
<1>2. answers \in [Daemons -> SUBSET Answers]
  BY DEF TypeOK
<1> QED
  BY <1>1, <1>2, OneLess

-----------------------------------------------------------------------------
(* Types, and what a daemon holds at each step                             *)

\* Between two runs of the notifier there is nothing left of the one before.
Idle ==
    \A d \in Daemons :
        /\ pc[d] \in {"listen", "start"} =>
            /\ done[d] = NotDone /\ queries[d] = {} /\ answers[d] = {}
            /\ unsent[d] = {} /\ pass[d] = 0
        /\ pc[d] \in {"select", "store"} => pass[d] >= 1
        /\ pc[d] # "listen" => serial[d] \in Serials

Inv1 == TypeOK /\ Idle

LEMMA InitInv1 == ASSUME Bounds PROVE Init => Inv1
<1> SUFFICES ASSUME Init PROVE TypeOK /\ Idle
  BY DEF Inv1
<1>1. TypeOK
  BY DEF Init, TypeOK, Bounds, Serials, NotDone
<1>2. Idle
  BY DEF Init, Idle
<1> QED
  BY <1>1, <1>2

\* The variables of the notifiers are what they were.
LEMMA OutsideInv1 ==
    ASSUME Bounds, Inv1, NEW n, NEW d, Publish \/ (n \in Nodes /\ Transfer(n)) \/ Send(d)
    PROVE  Inv1'
<1>1. UNCHANGED <<rows, notifier>>
  BY DEF Publish, Transfer, Send
<1>2. zone' \in Serials /\ has' \in [Nodes -> Serials]
  <2>1. CASE Publish
    BY <2>1 DEF Publish, Inv1, TypeOK, Serials, Bounds
  <2>2. CASE n \in Nodes /\ Transfer(n)
    BY <2>2 DEF Transfer, Inv1, TypeOK
  <2>3. CASE Send(d)
    BY <2>3 DEF Send, zones, Inv1, TypeOK
  <2> QED
    BY <2>1, <2>2, <2>3
<1>3. sent' \in 0..MaxNotifies /\ inbox' \in [Daemons -> Seq(Datagrams)]
  <2>1. CASE Publish \/ (n \in Nodes /\ Transfer(n))
    BY <2>1 DEF Publish, Transfer, Inv1, TypeOK
  <2>2. CASE Send(d)
    <3>1. sent' = sent + 1 /\ sent < MaxNotifies
      BY <2>2 DEF Send
    <3>2. PICK m \in Datagrams : inbox' = [inbox EXCEPT ![d] = Append(@, m)]
      BY <2>2 DEF Send
    <3>3. \A s \in Seq(Datagrams) : Append(s, m) \in Seq(Datagrams)
      OBVIOUS
    <3>4. inbox' \in [Daemons -> Seq(Datagrams)]
      BY <3>2, <3>3 DEF Inv1, TypeOK
    <3>5. sent' \in 0..MaxNotifies
      BY <3>1 DEF Inv1, TypeOK, Bounds
    <3> QED
      BY <3>4, <3>5
  <2> QED
    BY <2>1, <2>2
<1>4. TypeOK'
  BY <1>1, <1>2, <1>3 DEF Inv1, TypeOK, notifier, network
<1>5. Idle'
  BY <1>1 DEF Inv1, Idle, notifier, network
<1> QED
  BY <1>4, <1>5 DEF Inv1

LEMMA NetworkInv1 ==
    ASSUME Bounds, Inv1, NEW d \in Daemons,
           Lose(d) \/ \E q \in queries[d] : Answer(d, q)
    PROVE  Inv1'
<1>1. UNCHANGED <<zones, rows, sent, inbox, pc, serial, pass, unsent, asked, toReceive, done>>
  BY DEF Lose, Answer
<1>2. /\ queries' \in [Daemons -> SUBSET Queries] /\ answers' \in [Daemons -> SUBSET Answers]
      /\ \A e \in Daemons : queries'[e] \subseteq queries[e]
      /\ \A e \in Daemons : queries[e] = {} /\ answers[e] = {} => answers'[e] = {}
  <2>1. CASE Lose(d)
    BY <2>1, LoseParts DEF Inv1
  <2>2. ASSUME NEW q \in queries[d], Answer(d, q)
        PROVE  /\ queries' \in [Daemons -> SUBSET Queries]
               /\ answers' \in [Daemons -> SUBSET Answers]
               /\ \A e \in Daemons : queries'[e] \subseteq queries[e]
               /\ \A e \in Daemons : queries[e] = {} /\ answers[e] = {} => answers'[e] = {}
    <3> DEFINE a == [node |-> q.node, pass |-> q.pass, serial |-> has[q.node]]
    <3>1. q \in Queries
      BY DEF Inv1, TypeOK
    <3>2. a \in Answers
      BY <3>1 DEF Queries, Answers, Inv1, TypeOK
    <3>3. /\ queries' = [queries EXCEPT ![d] = @ \ {q}]
          /\ answers' = [answers EXCEPT ![d] = @ \cup {a}]
      BY <2>2 DEF Answer
    <3> HIDE DEF a
    <3> QED
      BY <3>2, <3>3 DEF Inv1, TypeOK
  <2> QED
    BY <2>1, <2>2
<1>3. TypeOK'
  BY <1>1, <1>2 DEF Inv1, TypeOK, zones
<1>4. Idle'
  BY <1>1, <1>2 DEF Inv1, Idle
<1> QED
  BY <1>3, <1>4 DEF Inv1

LEMMA HandleInv1 ==
    ASSUME Bounds, Inv1, NEW d \in Daemons, Handle(d)
    PROVE  Inv1'
<1> DEFINE m == Head(inbox[d])
<1>1. /\ pc[d] = "listen" /\ inbox[d] # <<>>
      /\ inbox' = [inbox EXCEPT ![d] = Tail(@)]
      /\ IF m.kind = "notify" /\ m.serial # 0
         THEN pc' = [pc EXCEPT ![d] = "start"] /\ serial' = [serial EXCEPT ![d] = m.serial]
         ELSE UNCHANGED <<pc, serial>>
      /\ UNCHANGED <<zones, rows, sent, pass, unsent, asked, network, toReceive, done>>
  BY DEF Handle
<1>2. m \in Datagrams /\ Tail(inbox[d]) \in Seq(Datagrams)
  BY <1>1 DEF Inv1, TypeOK
<1>3. m.serial \in 0..MaxSerial
  BY <1>2 DEF Datagrams
<1> HIDE DEF m
<1>4. inbox' \in [Daemons -> Seq(Datagrams)]
  BY <1>1, <1>2 DEF Inv1, TypeOK
<1>5. CASE UNCHANGED <<pc, serial>>
  <2>1. TypeOK'
    BY <1>1, <1>4, <1>5 DEF Inv1, TypeOK, zones, network
  <2>2. Idle'
    BY <1>1, <1>5 DEF Inv1, Idle, network
  <2> QED
    BY <2>1, <2>2 DEF Inv1
<1>6. CASE /\ m.serial # 0
           /\ pc' = [pc EXCEPT ![d] = "start"] /\ serial' = [serial EXCEPT ![d] = m.serial]
  <2>1. m.serial \in Serials
    BY <1>3, <1>6 DEF Serials, Bounds
  <2>2. TypeOK'
    BY <1>1, <1>3, <1>4, <1>6 DEF Inv1, TypeOK, zones, network
  <2>3. Idle'
    BY <1>1, <1>6, <2>1 DEF Inv1, Idle, network, TypeOK
  <2> QED
    BY <2>2, <2>3 DEF Inv1
<1> QED
  BY <1>1, <1>5, <1>6

LEMMA QuitInv1 ==
    ASSUME Bounds, Inv1, NEW d \in Daemons, Quit(d),
           rows' \in [Nodes -> [Serials -> Nat]], UNCHANGED <<zones, sent, inbox, serial>>
    PROVE  Inv1'
<1>1. /\ pc' = [pc EXCEPT ![d] = "listen"]
      /\ queries' = [queries EXCEPT ![d] = {}]
      /\ answers' = [answers EXCEPT ![d] = {}]
      /\ unsent' = [unsent EXCEPT ![d] = {}]
      /\ asked' = [asked EXCEPT ![d] = {}]
      /\ done' = [done EXCEPT ![d] = NotDone]
      /\ toReceive' = [toReceive EXCEPT ![d] = 0]
      /\ pass' = [pass EXCEPT ![d] = 0]
  BY DEF Quit
<1>2. NotDone \in [Nodes -> Int] /\ 0 \in 0..MaxPasses
  BY DEF NotDone, Bounds
<1>3. TypeOK'
  <2>1. \A e \in Daemons : unsent'[e] \subseteq asked'[e]
    BY <1>1 DEF Inv1, TypeOK
  <2>2. /\ pc' \in [Daemons -> {"listen", "start", "pass", "select", "store"}]
        /\ pass' \in [Daemons -> 0..MaxPasses]
        /\ toReceive' \in [Daemons -> Int]
        /\ done' \in [Daemons -> [Nodes -> Int]]
    BY <1>1, <1>2 DEF Inv1, TypeOK
  <2>3. /\ asked' \in [Daemons -> SUBSET NodeList]
        /\ unsent' \in [Daemons -> SUBSET NodeList]
        /\ queries' \in [Daemons -> SUBSET Queries]
        /\ answers' \in [Daemons -> SUBSET Answers]
    BY <1>1 DEF Inv1, TypeOK
  <2> QED
    BY <2>1, <2>2, <2>3 DEF Inv1, TypeOK, zones
<1>4. Idle'
  <2>1. /\ pc'[d] = "listen" /\ done'[d] = NotDone /\ queries'[d] = {} /\ answers'[d] = {}
        /\ unsent'[d] = {} /\ pass'[d] = 0
    BY <1>1 DEF Inv1, TypeOK
  <2>2. ASSUME NEW e \in Daemons, e # d
        PROVE  /\ pc'[e] = pc[e] /\ done'[e] = done[e] /\ queries'[e] = queries[e]
               /\ answers'[e] = answers[e] /\ unsent'[e] = unsent[e] /\ pass'[e] = pass[e]
    BY <1>1, <2>2 DEF Inv1, TypeOK
  <2> QED
    BY <2>1, <2>2 DEF Inv1, Idle
<1> QED
  BY <1>3, <1>4 DEF Inv1

LEMMA CheckLatestInv1 ==
    ASSUME Bounds, Inv1, NEW d \in Daemons, CheckLatest(d)
    PROVE  Inv1'
<1>1. UNCHANGED <<zones, rows, sent, inbox, serial>> /\ pc[d] = "start"
  BY DEF CheckLatest
<1>2. CASE Quit(d)
  BY <1>1, <1>2, QuitInv1 DEF Inv1, TypeOK
<1>3. CASE /\ pc' = [pc EXCEPT ![d] = "pass"]
           /\ toReceive' = [toReceive EXCEPT ![d] = Total]
           /\ UNCHANGED <<pass, unsent, asked, network, done>>
  <2>1. Total \in Int
    BY NodesCounted
  <2>2. TypeOK'
    BY <1>1, <1>3, <2>1 DEF Inv1, TypeOK, zones, network
  <2>3. Idle'
    BY <1>1, <1>3 DEF Inv1, Idle, TypeOK, network
  <2> QED
    BY <2>2, <2>3 DEF Inv1
<1> QED
  BY <1>2, <1>3 DEF CheckLatest

LEMMA BeginPassInv1 ==
    ASSUME Bounds, Inv1, NEW d \in Daemons, BeginPass(d)
    PROVE  Inv1'
<1> DEFINE left == Unmeasured(d)
<1>1. /\ pc[d] = "pass" /\ pass[d] < MaxPasses
      /\ pc' = [pc EXCEPT ![d] = "select"]
      /\ pass' = [pass EXCEPT ![d] = @ + 1]
      /\ asked' = [asked EXCEPT ![d] = left]
      /\ unsent' = [unsent EXCEPT ![d] = left]
      /\ toReceive' = [toReceive EXCEPT ![d] = Cardinality(left)]
      /\ UNCHANGED <<zones, rows, sent, inbox, serial, network, done>>
  BY DEF BeginPass
<1>2. left \subseteq NodeList /\ Cardinality(left) \in Int
  BY NodesCounted DEF Unmeasured
<1> HIDE DEF left
<1>3. pass[d] + 1 \in 0..MaxPasses /\ pass[d] + 1 >= 1
  BY <1>1 DEF Inv1, TypeOK, Bounds
<1>4. TypeOK'
  <2>1. \A e \in Daemons : unsent'[e] \subseteq asked'[e]
    BY <1>1 DEF Inv1, TypeOK
  <2>2. /\ pc' \in [Daemons -> {"listen", "start", "pass", "select", "store"}]
        /\ pass' \in [Daemons -> 0..MaxPasses]
        /\ toReceive' \in [Daemons -> Int]
        /\ asked' \in [Daemons -> SUBSET NodeList]
    BY <1>1, <1>2, <1>3 DEF Inv1, TypeOK
  <2> QED
    BY <1>1, <2>1, <2>2 DEF Inv1, TypeOK, zones, network
<1>5. Idle'
  BY <1>1, <1>3 DEF Inv1, Idle, TypeOK, network
<1> QED
  BY <1>4, <1>5 DEF Inv1

LEMMA SendQueryInv1 ==
    ASSUME Bounds, Inv1, NEW d \in Daemons, SendQuery(d)
    PROVE  Inv1'
<1>1. PICK n \in unsent[d] :
        /\ unsent' = [unsent EXCEPT ![d] = @ \ {n}]
        /\ queries' = [queries EXCEPT ![d] = @ \cup {[node |-> n, pass |-> pass[d]]}]
  BY DEF SendQuery
<1> DEFINE q == [node |-> n, pass |-> pass[d]]
<1>2. /\ UNCHANGED <<zones, rows, sent, inbox, pc, serial, pass, asked, answers,
                    toReceive, done>>
      /\ pc[d] = "select"
  BY DEF SendQuery
<1>3. q \in Queries
  <2>1. n \in Nodes
    BY NodesCounted DEF Inv1, TypeOK
  <2>2. pass[d] \in 1..MaxPasses
    BY <1>2 DEF Inv1, TypeOK, Idle, Bounds
  <2> QED
    BY <2>1, <2>2 DEF Queries
<1>4. queries' = [queries EXCEPT ![d] = @ \cup {q}]
  BY <1>1
<1> HIDE DEF q
<1>5. TypeOK'
  BY <1>1, <1>2, <1>3, <1>4 DEF Inv1, TypeOK, zones
<1>6. Idle'
  BY <1>1, <1>2, <1>4 DEF Inv1, Idle, TypeOK
<1> QED
  BY <1>5, <1>6 DEF Inv1

\* The nodes that an answer may be taken to be of.
LEMMA AttributedNodes ==
    ASSUME Bounds, Inv1, NEW d \in Daemons, NEW a \in answers[d]
    PROVE  Attributed(d, a) \subseteq Nodes
<1>1. a.node \in Nodes
  BY DEF Inv1, TypeOK, Answers
<1>2. asked[d] \subseteq Nodes
  BY NodesCounted DEF Inv1, TypeOK
<1> QED
  BY <1>1, <1>2 DEF Attributed

LEMMA ReceiveInv1 ==
    ASSUME Bounds, Inv1, NEW d \in Daemons, NEW a \in answers[d], Receive(d, a)
    PROVE  Inv1'
<1>1. PICK n \in Attributed(d, a) :
        /\ toReceive' = [toReceive EXCEPT ![d] = @ - 1]
        /\ done' = [done EXCEPT ![d][n] = Total - (toReceive[d] - 1)]
  BY DEF Receive
<1>2. /\ UNCHANGED <<zones, rows, sent, inbox, pc, serial, pass, unsent, asked, queries>>
      /\ pc[d] = "select"
      /\ answers' \in [Daemons -> SUBSET Answers]
      /\ \A e \in Daemons : answers'[e] \subseteq answers[e]
  BY ReceiveParts DEF Inv1, Receive, Selecting
<1>3. toReceive' \in [Daemons -> Int] /\ done' \in [Daemons -> [Nodes -> Int]]
  <2>1. n \in Nodes /\ Total \in Int
    BY AttributedNodes, NodesCounted
  <2> QED
    BY <1>1, <2>1 DEF Inv1, TypeOK
<1>4. TypeOK'
  BY <1>2, <1>3 DEF Inv1, TypeOK, zones
<1>5. Idle'
  BY <1>1, <1>2 DEF Inv1, Idle, TypeOK
<1> QED
  BY <1>4, <1>5 DEF Inv1

LEMMA IgnoreInv1 ==
    ASSUME Bounds, Inv1, NEW d \in Daemons, NEW a \in answers[d], Ignore(d, a)
    PROVE  Inv1'
<1>1. /\ answers' = [answers EXCEPT ![d] = @ \ {a}]
      /\ UNCHANGED <<zones, rows, sent, inbox, pc, serial, pass, unsent, asked, queries,
                    toReceive, done>>
  BY DEF Ignore
<1>2. TypeOK'
  BY <1>1 DEF Inv1, TypeOK, zones
<1>3. Idle'
  BY <1>1 DEF Inv1, Idle, TypeOK
<1> QED
  BY <1>2, <1>3 DEF Inv1

LEMMA EndPassInv1 ==
    ASSUME Bounds, Inv1, NEW d \in Daemons, EndPass(d)
    PROVE  Inv1'
<1>1. PICK next \in {"pass", "store"} : pc' = [pc EXCEPT ![d] = next]
  BY DEF EndPass
<1>2. /\ pc[d] = "select"
      /\ UNCHANGED <<zones, rows, sent, inbox, serial, pass, unsent, asked, network,
                    toReceive, done>>
  BY DEF EndPass
<1>3. TypeOK'
  BY <1>1, <1>2 DEF Inv1, TypeOK, zones, network
<1>4. Idle'
  BY <1>1, <1>2 DEF Inv1, Idle, TypeOK, network
<1> QED
  BY <1>3, <1>4 DEF Inv1

\* What Store may make of the table.
StoredRows(d) ==
    [n \in Nodes |-> IF done[d][n] # -1 THEN [rows[n] EXCEPT ![serial[d]] = @ + 1]
                     ELSE rows[n]]

LEMMA StoreInv1 ==
    ASSUME Bounds, Inv1, NEW d \in Daemons, Store(d)
    PROVE  Inv1'
<1>1. /\ rows' = StoredRows(d) \/ rows' = rows
      /\ pc[d] = "store" /\ Quit(d)
      /\ UNCHANGED <<zones, sent, inbox, serial>>
  BY DEF Store, StoredRows
<1>2. rows' \in [Nodes -> [Serials -> Nat]]
  <2>1. rows \in [Nodes -> [Serials -> Nat]] /\ serial[d] \in Serials
    BY <1>1 DEF Inv1, TypeOK, Idle
  <2>2. ASSUME NEW n \in Nodes
        PROVE  [rows[n] EXCEPT ![serial[d]] = @ + 1] \in [Serials -> Nat]
    BY <2>1
  <2>3. StoredRows(d) \in [Nodes -> [Serials -> Nat]]
    BY <2>1, <2>2 DEF StoredRows
  <2> QED
    BY <1>1, <2>1, <2>3
<1> QED
  BY <1>1, <1>2, QuitInv1

LEMMA NextInv1 ==
    ASSUME Bounds
    PROVE  Inv1 /\ [Next]_vars => Inv1'
<1> SUFFICES ASSUME Inv1, [Next]_vars PROVE Inv1'
  OBVIOUS
<1>1. CASE UNCHANGED vars
  BY <1>1 DEF Inv1, TypeOK, Idle, vars, zones, notifier, network
<1>2. ASSUME NEW d \in Daemons, NEW a \in answers[d], Obsolete(d, a) PROVE Inv1'
  BY <1>2, QuitInv1 DEF Obsolete, Inv1, TypeOK
<1> QED
  BY <1>1, <1>2, OutsideInv1, NetworkInv1, HandleInv1, CheckLatestInv1, BeginPassInv1,
     SendQueryInv1, ReceiveInv1, IgnoreInv1, EndPassInv1, StoreInv1
     DEF Next, NotifierNext, Proceed, Finish

\* Every variable has its type; in it, that a daemon asks none but the nodes of the list,
\* and takes no message to be an answer that names something else: for any number of
\* nodes, daemons and passes, and if IDs clash and answers come twice.
THEOREM LatencyTypes ==
    ASSUME Bounds
    PROVE  Spec => []TypeOK
<1>1. Inv1 => TypeOK
  BY DEF Inv1
<1> QED
  BY <1>1, InitInv1, NextInv1, PTL DEF Spec

-----------------------------------------------------------------------------
(* A latency is that of the node that answered                             *)

\* What a node said it has, it has.
Told == \A d \in Daemons : \A a \in answers[d] : a.serial <= has[a.node]

Inv2 == Told /\ OwnAnswer

\* Steps that add no answer and measure nothing.
LEMMA CarryInv2 ==
    ASSUME Bounds, Inv1, Inv2, Inv1',
           \A n \in Nodes : has[n] <= has'[n],
           \A d \in Daemons : answers'[d] \subseteq answers[d],
           \A d \in Daemons : Measured(d)' = {} \/
                (Measured(d)' = Measured(d) /\ serial'[d] = serial[d])
    PROVE  Inv2'
<1>1. \A n \in Nodes : has[n] \in Nat /\ has'[n] \in Nat
  BY DEF Inv1, TypeOK, Serials, Bounds
<1>2. Told'
  <2> SUFFICES ASSUME NEW d \in Daemons, NEW a \in answers'[d]
               PROVE  a.serial <= has'[a.node]
    BY DEF Told
  <2>1. a \in answers[d] /\ a \in Answers
    BY DEF Inv1, TypeOK
  <2>2. a.node \in Nodes /\ a.serial \in Nat /\ a.serial <= has[a.node]
    BY <2>1 DEF Inv2, Told, Answers, Serials, Bounds
  <2> QED
    BY <1>1, <2>2
<1>3. OwnAnswer'
  <2> SUFFICES ASSUME NEW d \in Daemons, NEW n \in Measured(d)'
               PROVE  has'[n] >= serial'[d]
    BY DEF OwnAnswer
  <2>1. n \in Measured(d) /\ n \in Nodes /\ serial'[d] = serial[d]
    BY DEF Measured
  <2>2. has[n] >= serial[d] /\ serial[d] \in Nat
    BY <2>1 DEF Inv1, Inv2, OwnAnswer, TypeOK, Bounds
  <2> QED
    BY <1>1, <2>1, <2>2
<1> QED
  BY <1>2, <1>3 DEF Inv2

LEMMA NoneMeasured ==
    ASSUME NEW d \in Daemons, done[d] = NotDone
    PROVE  Measured(d) = {}
BY DEF Measured, NotDone

LEMMA QuitMeasured ==
    ASSUME Inv1, NEW d \in Daemons, Quit(d)
    PROVE  /\ Measured(d)' = {}
           /\ answers'[d] = {} /\ queries'[d] = {} /\ unsent'[d] = {}
           /\ \A e \in Daemons \ {d} :
                /\ Measured(e)' = Measured(e) /\ answers'[e] = answers[e]
                /\ queries'[e] = queries[e] /\ unsent'[e] = unsent[e]
                /\ pass'[e] = pass[e] /\ done'[e] = done[e] /\ pc'[e] = pc[e]
                /\ toReceive'[e] = toReceive[e] /\ asked'[e] = asked[e]
           /\ pc'[d] = "listen"
<1>1. done' = [done EXCEPT ![d] = NotDone] /\ done'[d] = NotDone
  BY DEF Quit, Inv1, TypeOK
<1>2. Measured(d)' = {}
  BY <1>1 DEF Measured, NotDone
<1>3. \A e \in Daemons \ {d} : Measured(e)' = Measured(e) /\ done'[e] = done[e]
  BY <1>1 DEF Measured, Inv1, TypeOK
<1> QED
  BY <1>2, <1>3 DEF Quit, Inv1, TypeOK

\* The steps that CarryInv2 is about.
LEMMA QuietInv2 ==
    ASSUME Bounds, Inv1, Inv2, Inv1',
           \/ Publish
           \/ \E n \in Nodes : Transfer(n)
           \/ \E d \in Daemons :
                \/ Send(d) \/ Lose(d) \/ Handle(d) \/ CheckLatest(d) \/ BeginPass(d)
                \/ SendQuery(d) \/ EndPass(d) \/ Store(d)
                \/ \E a \in answers[d] : Ignore(d, a) \/ Obsolete(d, a)
           \/ UNCHANGED vars
    PROVE  Inv2'
<1>1. \A n \in Nodes : has[n] <= has'[n]
  <2>1. CASE has' = has
    BY <2>1 DEF Inv1, TypeOK, Serials
  <2>2. ASSUME NEW m \in Nodes, Transfer(m) PROVE \A n \in Nodes : has[n] <= has'[n]
    <3>1. has[m] < zone /\ has' = [has EXCEPT ![m] = zone]
      BY <2>2 DEF Transfer
    <3>2. zone \in Nat /\ \A n \in Nodes : has[n] \in Nat
      BY DEF Inv1, TypeOK, Serials, Bounds
    <3>3. has'[m] = zone /\ \A n \in Nodes \ {m} : has'[n] = has[n]
      BY <3>1 DEF Inv1, TypeOK
    <3>4. has[m] <= zone /\ \A n \in Nodes : has[n] <= has[n]
      BY <3>1, <3>2
    <3> QED
      BY <3>3, <3>4
  <2> QED
    BY <2>1, <2>2 DEF Publish, Send, Lose, Handle, CheckLatest, BeginPass, SendQuery, EndPass,
       Store, Ignore, Obsolete, vars, zones
<1>2. CASE answers' = answers /\ done' = done /\ serial' = serial
  BY <1>1, <1>2, CarryInv2 DEF Measured
<1>3. ASSUME NEW d \in Daemons, Quit(d), serial' = serial PROVE Inv2'
  <2>1. \A e \in Daemons : answers'[e] \subseteq answers[e]
    BY <1>3, QuitMeasured
  <2>2. \A e \in Daemons : Measured(e)' = {} \/
            (Measured(e)' = Measured(e) /\ serial'[e] = serial[e])
    BY <1>3, QuitMeasured
  <2> QED
    BY <1>1, <2>1, <2>2, CarryInv2
<1>4. ASSUME NEW d \in Daemons, Lose(d) \/ \E a \in answers[d] : Ignore(d, a) PROVE Inv2'
  <2>1. UNCHANGED <<done, serial>>
    BY <1>4 DEF Lose, Ignore
  <2>2. \A e \in Daemons : answers'[e] \subseteq answers[e]
    <3>1. CASE Lose(d)
      BY <3>1, LoseParts DEF Inv1
    <3>2. ASSUME NEW a \in answers[d], Ignore(d, a)
          PROVE  \A e \in Daemons : answers'[e] \subseteq answers[e]
      BY <3>2, OneLess DEF Ignore, Inv1, TypeOK
    <3> QED
      BY <1>4, <3>1, <3>2
  <2> QED
    BY <1>1, <2>1, <2>2, CarryInv2 DEF Measured
<1>5. ASSUME NEW d \in Daemons, Handle(d) PROVE Inv2'
  <2>1. UNCHANGED <<answers, done>> /\ \A e \in Daemons \ {d} : serial'[e] = serial[e]
    BY <1>5 DEF Handle, network, Inv1, TypeOK
  <2>2. done'[d] = NotDone
    BY <1>5, <2>1 DEF Handle, Inv1, Idle
  <2>3. Measured(d)' = {}
    BY <2>2 DEF Measured, NotDone
  <2>4. \A e \in Daemons : Measured(e)' = {} \/
            (Measured(e)' = Measured(e) /\ serial'[e] = serial[e])
    BY <2>1, <2>3 DEF Measured
  <2> QED
    BY <1>1, <2>1, <2>4, CarryInv2
<1>6. ASSUME NEW d \in Daemons, BeginPass(d) \/ SendQuery(d) \/ EndPass(d) \/ Send(d)
      PROVE  Inv2'
  BY <1>2, <1>6 DEF BeginPass, SendQuery, EndPass, Send, network, notifier
<1>7. ASSUME NEW d \in Daemons, CheckLatest(d) PROVE Inv2'
  BY <1>2, <1>3, <1>7 DEF CheckLatest, network
<1>8. CASE UNCHANGED vars \/ Publish \/ \E n \in Nodes : Transfer(n)
  BY <1>2, <1>8 DEF Publish, Transfer, vars, notifier, network
<1> QED
  BY <1>3, <1>4, <1>5, <1>6, <1>7, <1>8 DEF Store, Obsolete

LEMMA AnswerInv2 ==
    ASSUME Bounds, Inv1, Inv2, NEW d \in Daemons, NEW q \in queries[d], Answer(d, q)
    PROVE  Inv2'
<1> DEFINE a == [node |-> q.node, pass |-> q.pass, serial |-> has[q.node]]
<1>1. answers' = [answers EXCEPT ![d] = @ \cup {a}] /\ UNCHANGED <<zones, serial, done>>
  BY DEF Answer
<1>2. q.node \in Nodes /\ a.node = q.node /\ a.serial = has[q.node]
  BY DEF Inv1, TypeOK, Queries
<1>3. a.serial <= has[a.node]
  BY <1>2 DEF Inv1, TypeOK, Serials
<1> HIDE DEF a
<1>4. Told'
  BY <1>1, <1>3 DEF Inv1, Inv2, TypeOK, Told, zones
<1>5. OwnAnswer'
  BY <1>1 DEF Inv2, OwnAnswer, Measured, zones
<1> QED
  BY <1>4, <1>5 DEF Inv2

\* Only the node that gave the answer is taken to have given it.
LEMMA ReceiveInv2 ==
    ASSUME Bounds, ~IdClash, Inv1, Inv2, NEW d \in Daemons, NEW a \in answers[d],
           Receive(d, a)
    PROVE  Inv2'
<1>1. /\ a.node \in Nodes /\ a.serial = serial[d] /\ a.pass = pass[d]
      /\ done' = [done EXCEPT ![d][a.node] = Total - (toReceive[d] - 1)]
      /\ UNCHANGED <<zones, serial>>
  <2>1. a.node \in Nodes
    BY DEF Inv1, TypeOK, Answers
  <2>2. PICK n \in Attributed(d, a) :
            done' = [done EXCEPT ![d][n] = Total - (toReceive[d] - 1)]
    BY DEF Receive
  <2>3. a.pass = pass[d] /\ n = a.node
    BY <2>2 DEF Attributed
  <2> QED
    BY <2>1, <2>2, <2>3 DEF Receive
<1>2. has[a.node] >= serial[d]
  <2>1. a.serial <= has[a.node]
    BY DEF Inv2, Told
  <2>2. has[a.node] \in Nat /\ serial[d] \in Nat
    BY <1>1 DEF Inv1, TypeOK, Serials, Bounds
  <2> QED
    BY <1>1, <2>1, <2>2
<1>3. \A e \in Daemons : answers'[e] \subseteq answers[e]
  BY ReceiveParts DEF Inv1
<1>4. Told'
  BY <1>1, <1>3 DEF Inv2, Told, zones
<1>5. OwnAnswer'
  <2> SUFFICES ASSUME NEW e \in Daemons, NEW n \in Measured(e)'
               PROVE  has[n] >= serial[e]
    BY <1>1 DEF OwnAnswer, zones
  <2>1. n \in Measured(e) \/ (e = d /\ n = a.node)
    BY <1>1 DEF Measured, Inv1, TypeOK
  <2> QED
    BY <1>2, <2>1 DEF Inv2, OwnAnswer
<1> QED
  BY <1>4, <1>5 DEF Inv2

LEMMA NextInv2 ==
    ASSUME Bounds, ~IdClash
    PROVE  Inv1 /\ Inv2 /\ [Next]_vars => Inv2'
<1> SUFFICES ASSUME Inv1, Inv2, [Next]_vars PROVE Inv2'
  OBVIOUS
<1>1. Inv1'
  BY NextInv1
<1> QED
  BY <1>1, QuietInv2, AnswerInv2, ReceiveInv2 DEF Next, NotifierNext, Proceed, Finish

\* A node that a latency is stored of has the version that was measured, or a later one,
\* as long as no query ID is used by two passes: also if answers are late, lost or come
\* twice, and whatever the other daemon does.
THEOREM AnswersAreOwn ==
    ASSUME Bounds, ~IdClash
    PROVE  Spec => []OwnAnswer
<1>1. Init => Inv1 /\ Inv2
  <2> SUFFICES ASSUME Init PROVE Told /\ OwnAnswer
    BY InitInv1 DEF Inv2
  <2>1. \A d \in Daemons : answers[d] = {} /\ done[d] = NotDone
    BY DEF Init
  <2>2. \A d \in Daemons : Measured(d) = {}
    BY <2>1, NoneMeasured
  <2> QED
    BY <2>1, <2>2 DEF Told, OwnAnswer
<1>2. Inv1 /\ Inv2 /\ [Next]_vars => Inv1' /\ Inv2'
  BY NextInv1, NextInv2
<1>3. Inv2 => OwnAnswer
  BY DEF Inv2
<1> QED
  BY <1>1, <1>2, <1>3, PTL DEF Spec

-----------------------------------------------------------------------------
(* A node is measured once                                                 *)

\* A query or an answer of the present pass.
Current(d, x) == x.pass = pass[d]

\* In a pass there is at most one of these of a node: a query still to be sent, one under
\* way, an answer under way, a latency.
Fresh(d) ==
    /\ \A x \in queries[d] \cup answers[d] : x.pass <= pass[d]
    /\ \A n \in unsent[d] : done[d][n] = -1
    /\ \A x \in queries[d] \cup answers[d] : Current(d, x) =>
            x.node \in NodeList \ unsent[d] /\ done[d][x.node] = -1
    /\ \A q \in queries[d], a \in answers[d] :
            Current(d, q) /\ Current(d, a) => q.node # a.node
    /\ \A a, b \in answers[d] :
            Current(d, a) /\ Current(d, b) /\ a.node = b.node => a = b

\* What is outstanding is what has not been measured.
Counted(d) ==
    /\ Measured(d) \subseteq NodeList
    /\ pc[d] \in {"pass", "select", "store"} =>
            Total - toReceive[d] = Cardinality(Measured(d))

\* ShareTrue, of one daemon.
Shares(d) ==
    /\ \A n \in Measured(d) : done[d][n] \in 1..Cardinality(Measured(d))
    /\ \A n, m \in Measured(d) : done[d][n] = done[d][m] => n = m

Inv3(d) == Fresh(d) /\ Counted(d) /\ Shares(d)

LEMMA InitInv3 ==
    ASSUME Bounds, Init, NEW d \in Daemons
    PROVE  Inv3(d)
<1>1. /\ done[d] = NotDone /\ queries[d] = {} /\ answers[d] = {} /\ unsent[d] = {}
      /\ pc[d] = "listen"
  BY DEF Init
<1>2. Measured(d) = {}
  BY <1>1, NoneMeasured
<1> QED
  BY <1>1, <1>2 DEF Inv3, Fresh, Counted, Shares

\* A daemon that a step leaves alone.
LEMMA FrameInv3 ==
    ASSUME NEW d \in Daemons, Inv3(d),
           pc'[d] = pc[d], pass'[d] = pass[d], unsent'[d] = unsent[d],
           queries'[d] = queries[d], answers'[d] = answers[d],
           toReceive'[d] = toReceive[d], done'[d] = done[d]
    PROVE  Inv3(d)'
<1>1. Measured(d)' = Measured(d)
  BY DEF Measured
<1>2. Fresh(d)'
  BY DEF Inv3, Fresh, Current
<1>3. Counted(d)'
  BY <1>1 DEF Inv3, Counted
<1>4. Shares(d)'
  BY <1>1 DEF Inv3, Shares
<1> QED
  BY <1>2, <1>3, <1>4 DEF Inv3

\* Fewer messages, and another step of the notifier with as much outstanding.
LEMMA FewerInv3 ==
    ASSUME NEW d \in Daemons, Inv3(d),
           pc'[d] \in {"listen", "start"} \/
                (pc[d] \in {"pass", "select", "store"} /\ toReceive'[d] = toReceive[d]),
           pass'[d] = pass[d], unsent'[d] = unsent[d], done'[d] = done[d],
           queries'[d] \subseteq queries[d], answers'[d] \subseteq answers[d]
    PROVE  Inv3(d)'
<1>1. Measured(d)' = Measured(d)
  BY DEF Measured
<1>2. Fresh(d)'
  BY DEF Inv3, Fresh, Current
<1>3. Counted(d)'
  BY <1>1 DEF Inv3, Counted
<1>4. Shares(d)'
  BY <1>1 DEF Inv3, Shares
<1> QED
  BY <1>2, <1>3, <1>4 DEF Inv3

LEMMA QuitInv3 ==
    ASSUME Inv1, NEW e \in Daemons, Quit(e), NEW d \in Daemons, Inv3(d)
    PROVE  Inv3(d)'
<1>1. CASE d = e
  <2>1. Fresh(d)'
    BY <1>1, QuitMeasured DEF Fresh
  <2>2. Counted(d)' /\ Shares(d)'
    BY <1>1, QuitMeasured DEF Counted, Shares
  <2> QED
    BY <2>1, <2>2 DEF Inv3
<1>2. CASE d # e
  BY <1>2, QuitMeasured, FrameInv3
<1> QED
  BY <1>1, <1>2

LEMMA AnswerInv3 ==
    ASSUME Inv1, NEW d \in Daemons, Inv3(d), NEW q \in queries[d], Answer(d, q)
    PROVE  Inv3(d)'
<1> DEFINE a == [node |-> q.node, pass |-> q.pass, serial |-> has[q.node]]
<1>1. /\ queries'[d] = queries[d] \ {q} /\ answers'[d] = answers[d] \cup {a}
      /\ UNCHANGED <<pc, pass, unsent, toReceive, done>>
  BY DEF Answer, Inv1, TypeOK
<1>2. a.node = q.node /\ a.pass = q.pass
  OBVIOUS
<1>3. \A r \in queries[d] : r.node = q.node /\ r.pass = q.pass => r = q
  <2>1. \A r \in queries[d] : r \in Queries
    BY DEF Inv1, TypeOK
  <2>2. \A r \in Queries : r = [node |-> r.node, pass |-> r.pass]
    BY DEF Queries
  <2> QED
    BY <2>1, <2>2
<1> HIDE DEF a
<1>4. Measured(d)' = Measured(d) /\ \A x : Current(d, x)' <=> Current(d, x)
  BY <1>1 DEF Measured, Current
<1>5. Fresh(d)'
  <2>1. \A x \in queries'[d] \cup answers'[d] :
            /\ x.pass <= pass[d]
            /\ Current(d, x) => x.node \in NodeList \ unsent[d] /\ done[d][x.node] = -1
    BY <1>1, <1>2 DEF Inv3, Fresh, Current
  <2>2. \A r \in queries'[d], b \in answers'[d] :
            Current(d, r) /\ Current(d, b) => r.node # b.node
    BY <1>1, <1>2, <1>3 DEF Inv3, Fresh, Current
  <2>3. \A b, c \in answers'[d] :
            Current(d, b) /\ Current(d, c) /\ b.node = c.node => b = c
    BY <1>1, <1>2 DEF Inv3, Fresh, Current
  <2>4. \A n \in unsent[d] : done[d][n] = -1
    BY DEF Inv3, Fresh
  <2> QED
    BY <1>1, <1>4, <2>1, <2>2, <2>3, <2>4 DEF Fresh
<1>6. Counted(d)' /\ Shares(d)'
  BY <1>1, <1>4 DEF Inv3, Counted, Shares
<1> QED
  BY <1>5, <1>6 DEF Inv3

LEMMA CheckLatestInv3 ==
    ASSUME Bounds, Inv1, NEW d \in Daemons, Inv3(d), CheckLatest(d)
    PROVE  Inv3(d)'
<1>1. CASE Quit(d)
  BY <1>1, QuitInv3
<1>2. CASE /\ pc' = [pc EXCEPT ![d] = "pass"]
           /\ toReceive' = [toReceive EXCEPT ![d] = Total]
           /\ UNCHANGED <<pass, unsent, asked, network, done>>
  <2>1. done[d] = NotDone /\ toReceive'[d] = Total
    BY <1>2 DEF CheckLatest, Inv1, Idle, TypeOK
  <2>2. Measured(d) = {} /\ Measured(d)' = Measured(d)
    BY <1>2, <2>1, NoneMeasured DEF Measured
  <2>3. Total - Total = Cardinality({})
    BY NodesCounted, FS_EmptySet
  <2>4. Fresh(d)'
    BY <1>2 DEF Inv3, Fresh, Current, network
  <2>5. Counted(d)' /\ Shares(d)'
    BY <2>1, <2>2, <2>3 DEF Counted, Shares
  <2> QED
    BY <2>4, <2>5 DEF Inv3
<1> QED
  BY <1>1, <1>2 DEF CheckLatest

LEMMA BeginPassInv3 ==
    ASSUME Bounds, Inv1, NEW d \in Daemons, Inv3(d), BeginPass(d)
    PROVE  Inv3(d)'
<1>1. /\ pc[d] = "pass"
      /\ pass'[d] = pass[d] + 1
      /\ unsent'[d] = Unmeasured(d)
      /\ toReceive'[d] = Cardinality(Unmeasured(d))
      /\ UNCHANGED <<network, done>>
  BY DEF BeginPass, Inv1, TypeOK
<1>2. Measured(d)' = Measured(d)
  BY <1>1 DEF Measured
<1>3. pass[d] \in Nat
  BY DEF Inv1, TypeOK
<1>4. Fresh(d)'
  <2>1. \A x \in queries[d] \cup answers[d] :
            x.pass \in Nat /\ x.pass <= pass[d]
    BY DEF Inv1, TypeOK, Queries, Answers, Inv3, Fresh
  <2>2. \A x \in queries[d] \cup answers[d] :
            x.pass <= pass'[d] /\ x.pass # pass'[d]
    BY <1>1, <1>3, <2>1
  <2>3. \A n \in unsent'[d] : done[d][n] = -1
    BY <1>1 DEF Unmeasured
  <2> QED
    BY <1>1, <2>2, <2>3 DEF Fresh, Current, network
<1>5. Counted(d)'
  <2>1. /\ Measured(d) \subseteq NodeList
        /\ Unmeasured(d) = NodeList \ Measured(d)
        /\ NodeList \cap Measured(d) = Measured(d)
    BY NodesCounted DEF Inv3, Counted, Measured, Unmeasured
  <2>2. Cardinality(Unmeasured(d)) = Total - Cardinality(Measured(d))
    BY <2>1, NodesCounted, FS_Difference DEF Total
  <2>3. Cardinality(Measured(d)) \in Nat /\ Total \in Nat
    BY NodesCounted DEF Measured
  <2>4. Total - Cardinality(Unmeasured(d)) = Cardinality(Measured(d))
    BY <2>2, <2>3
  <2> QED
    BY <1>1, <1>2, <2>1, <2>4 DEF Counted
<1>6. Shares(d)'
  BY <1>1, <1>2 DEF Inv3, Shares
<1> QED
  BY <1>4, <1>5, <1>6 DEF Inv3

LEMMA SendQueryInv3 ==
    ASSUME Bounds, Inv1, NEW d \in Daemons, Inv3(d), SendQuery(d)
    PROVE  Inv3(d)'
<1>1. PICK n \in unsent[d] :
        /\ unsent' = [unsent EXCEPT ![d] = @ \ {n}]
        /\ queries' = [queries EXCEPT ![d] = @ \cup {[node |-> n, pass |-> pass[d]]}]
  BY DEF SendQuery
<1> DEFINE q == [node |-> n, pass |-> pass[d]]
<1>2. /\ unsent'[d] = unsent[d] \ {n} /\ queries'[d] = queries[d] \cup {q}
      /\ UNCHANGED <<pc, pass, answers, toReceive, done>>
  BY <1>1 DEF SendQuery, Inv1, TypeOK
<1>3. q.node = n /\ q.pass = pass[d] /\ n \in NodeList /\ done[d][n] = -1
  BY DEF Inv1, TypeOK, Inv3, Fresh
<1>4. pass[d] <= pass[d]
  BY DEF Inv1, TypeOK
<1> HIDE DEF q
<1>5. Measured(d)' = Measured(d) /\ \A x : Current(d, x)' <=> Current(d, x)
  BY <1>2 DEF Measured, Current
<1>6. Fresh(d)'
  <2>1. \A x \in queries'[d] \cup answers[d] :
            /\ x.pass <= pass[d]
            /\ Current(d, x) => x.node \in NodeList \ unsent'[d] /\ done[d][x.node] = -1
    BY <1>2, <1>3, <1>4 DEF Inv3, Fresh, Current
  <2>2. \A r \in queries'[d], a \in answers[d] :
            Current(d, r) /\ Current(d, a) => r.node # a.node
    BY <1>2, <1>3 DEF Inv3, Fresh, Current
  <2>3. \A m \in unsent'[d] : done[d][m] = -1
    BY <1>2 DEF Inv3, Fresh
  <2>4. \A a, b \in answers[d] :
            Current(d, a) /\ Current(d, b) /\ a.node = b.node => a = b
    BY DEF Inv3, Fresh
  <2> QED
    BY <1>2, <1>5, <2>1, <2>2, <2>3, <2>4 DEF Fresh
<1>7. Counted(d)' /\ Shares(d)'
  BY <1>2, <1>5 DEF Inv3, Counted, Shares
<1> QED
  BY <1>6, <1>7 DEF Inv3

LEMMA ReceiveInv3 ==
    ASSUME Bounds, ~Duplicates, ~IdClash, Inv1, NEW d \in Daemons, Inv3(d),
           NEW a \in answers[d], Receive(d, a)
    PROVE  Inv3(d)'
<1> DEFINE n == a.node
<1>1. /\ a.pass = pass[d] /\ pc[d] = "select"
      /\ answers' = [answers EXCEPT ![d] = @ \ {a}]
      /\ toReceive' = [toReceive EXCEPT ![d] = @ - 1]
      /\ done' = [done EXCEPT ![d][n] = Total - (toReceive[d] - 1)]
      /\ UNCHANGED <<pc, pass, unsent, queries>>
  <2>1. PICK m \in Attributed(d, a) :
            /\ toReceive' = [toReceive EXCEPT ![d] = @ - 1]
            /\ done' = [done EXCEPT ![d][m] = Total - (toReceive[d] - 1)]
    BY DEF Receive
  <2>2. a.pass = pass[d] /\ m = n
    BY <2>1 DEF Attributed
  <2> QED
    BY <2>1, <2>2 DEF Receive, Consume, Selecting
<1>2. /\ n \in NodeList /\ n \notin unsent[d] /\ done[d][n] = -1 /\ n \in Nodes
      /\ \A q \in queries[d] : Current(d, q) => q.node # n
      /\ \A b \in answers[d] \ {a} : Current(d, b) => b.node # n
  BY <1>1, NodesCounted DEF Inv3, Fresh, Current
<1> HIDE DEF n
<1> DEFINE k == Cardinality(Measured(d))
<1>3. Measured(d) \subseteq Nodes /\ n \notin Measured(d)
  BY <1>2 DEF Measured
<1>4. k \in Nat /\ Total - toReceive[d] = k /\ toReceive[d] \in Int /\ Total \in Int
  BY <1>1, <1>3, NodesCounted DEF Inv1, TypeOK, Inv3, Counted
<1>5. Total - (toReceive[d] - 1) = k + 1
  BY <1>4
<1>6. /\ toReceive'[d] = toReceive[d] - 1 /\ answers'[d] = answers[d] \ {a}
      /\ done'[d] = [done[d] EXCEPT ![n] = k + 1]
  BY <1>1, <1>5 DEF Inv1, TypeOK
<1> HIDE DEF k
<1>7. /\ done'[d][n] = k + 1 /\ k + 1 # -1
      /\ \A m \in Nodes \ {n} : done'[d][m] = done[d][m]
  BY <1>2, <1>4, <1>6 DEF Inv1, TypeOK
<1>8. Measured(d)' = Measured(d) \cup {n}
  BY <1>2, <1>7 DEF Measured
<1>9. Cardinality(Measured(d)') = k + 1
  <2>1. IsFiniteSet(Measured(d))
    BY <1>3, NodesCounted
  <2>2. Cardinality(Measured(d) \cup {n}) = Cardinality(Measured(d)) + 1
    BY <1>3, <2>1, FS_AddElement
  <2> QED
    BY <1>8, <2>2 DEF k
<1>10. Fresh(d)'
  <2>1. \A x \in queries[d] \cup answers'[d] :
            /\ x.pass <= pass[d]
            /\ Current(d, x) =>
                x.node \in NodeList \ unsent[d] /\ done[d][x.node] = -1 /\ x.node # n
    BY <1>2, <1>6 DEF Inv3, Fresh
  <2>2. \A x \in queries[d] \cup answers'[d] : Current(d, x) => done'[d][x.node] = -1
    BY <1>7, <2>1, NodesCounted
  <2>3. \A m \in unsent[d] : done'[d][m] = -1
    <3>1. \A m \in unsent[d] : m \in Nodes \ {n} /\ done[d][m] = -1
      BY <1>2, NodesCounted DEF Inv1, TypeOK, Inv3, Fresh
    <3> QED
      BY <1>7, <3>1
  <2>4. \A x : Current(d, x)' <=> Current(d, x)
    BY <1>1 DEF Current
  <2>5. /\ \A q \in queries[d], b \in answers'[d] :
            Current(d, q) /\ Current(d, b) => q.node # b.node
        /\ \A b, c \in answers'[d] :
            Current(d, b) /\ Current(d, c) /\ b.node = c.node => b = c
    BY <1>6 DEF Inv3, Fresh
  <2> QED
    BY <1>1, <2>1, <2>2, <2>3, <2>4, <2>5 DEF Fresh
<1>11. Counted(d)'
  <2>1. Total - toReceive'[d] = k + 1
    BY <1>4, <1>6
  <2> QED
    BY <1>2, <1>8, <1>9, <2>1 DEF Inv3, Counted
<1>12. Shares(d)'
  <2>1. /\ \A m \in Measured(d) : m \in Nodes \ {n} /\ done[d][m] \in 1..k
        /\ \A m, o \in Measured(d) : done[d][m] = done[d][o] => m = o
    BY <1>3 DEF Inv3, Shares, k
  <2>2. \A m \in Measured(d) : done'[d][m] = done[d][m]
    BY <1>7, <2>1
  <2>3. \A i \in 1..k : i \in 1..(k + 1) /\ i # k + 1
    BY <1>4
  <2>4. k + 1 \in 1..(k + 1)
    BY <1>4
  <2>5. \A m \in Measured(d)' : done'[d][m] \in 1..(k + 1)
    BY <1>7, <1>8, <2>1, <2>2, <2>3, <2>4
  <2>6. \A m, o \in Measured(d)' : done'[d][m] = done'[d][o] => m = o
    BY <1>7, <1>8, <2>1, <2>2, <2>3
  <2> QED
    BY <1>9, <2>5, <2>6 DEF Shares
<1> QED
  BY <1>10, <1>11, <1>12 DEF Inv3

LEMMA NextInv3 ==
    ASSUME Bounds, ~Duplicates, ~IdClash, Inv1, [Next]_vars, NEW d \in Daemons, Inv3(d)
    PROVE  Inv3(d)'
<1>1. CASE UNCHANGED notifier
  BY <1>1, FrameInv3 DEF notifier, network
<1>2. CASE Publish \/ (\E n \in Nodes : Transfer(n)) \/ (\E e \in Daemons : Send(e))
           \/ UNCHANGED vars
  BY <1>1, <1>2 DEF Publish, Transfer, Send, vars
<1>3. ASSUME NEW e \in Daemons, Lose(e) PROVE Inv3(d)'
  <2>1. queries'[d] \subseteq queries[d] /\ answers'[d] \subseteq answers[d]
    BY <1>3, LoseParts DEF Inv1
  <2>2. UNCHANGED <<pc, pass, unsent, toReceive, done>>
    BY <1>3 DEF Lose
  <2>3. pc[d] \in {"listen", "start", "pass", "select", "store"}
    BY DEF Inv1, TypeOK
  <2> QED
    BY <2>1, <2>2, <2>3, FewerInv3
<1>4. ASSUME NEW e \in Daemons, NEW q \in queries[e], Answer(e, q) PROVE Inv3(d)'
  <2>1. CASE e = d
    BY <1>4, <2>1, AnswerInv3
  <2>2. CASE e # d
    <3>1. /\ UNCHANGED <<pc, pass, unsent, toReceive, done>>
          /\ queries'[d] = queries[d] /\ answers'[d] = answers[d]
      BY <1>4, <2>2 DEF Answer, Inv1, TypeOK
    <3> QED
      BY <3>1, FrameInv3
  <2> QED
    BY <2>1, <2>2
<1>5. ASSUME NEW e \in Daemons, Handle(e) PROVE Inv3(d)'
  <2>1. UNCHANGED <<pass, unsent, toReceive, done, queries, answers>>
    BY <1>5 DEF Handle, network
  <2>2. pc'[d] = pc[d] \/ pc'[d] = "start"
    BY <1>5 DEF Handle, Inv1, TypeOK
  <2> QED
    BY <2>1, <2>2, FrameInv3, FewerInv3
<1>6. ASSUME NEW e \in Daemons, Quit(e) PROVE Inv3(d)'
  BY <1>6, QuitInv3
<1>7. ASSUME NEW e \in Daemons, CheckLatest(e) PROVE Inv3(d)'
  <2>1. CASE e # d /\ ~Quit(e)
    BY <1>7, <2>1, FrameInv3 DEF CheckLatest, Inv1, TypeOK, network
  <2> QED
    BY <1>6, <1>7, <2>1, CheckLatestInv3
<1>8. ASSUME NEW e \in Daemons, BeginPass(e) PROVE Inv3(d)'
  <2>1. CASE e # d
    <3>1. /\ pc'[d] = pc[d] /\ pass'[d] = pass[d] /\ unsent'[d] = unsent[d]
          /\ toReceive'[d] = toReceive[d] /\ UNCHANGED <<queries, answers, done>>
      BY <1>8, <2>1 DEF BeginPass, Inv1, TypeOK, network
    <3> QED
      BY <3>1, FrameInv3
  <2> QED
    BY <1>8, <2>1, BeginPassInv3
<1>9. ASSUME NEW e \in Daemons, SendQuery(e) PROVE Inv3(d)'
  <2>1. CASE e # d
    <3>1. /\ unsent'[d] = unsent[d] /\ queries'[d] = queries[d]
          /\ UNCHANGED <<pc, pass, answers, toReceive, done>>
      BY <1>9, <2>1 DEF SendQuery, Inv1, TypeOK
    <3> QED
      BY <3>1, FrameInv3
  <2> QED
    BY <1>9, <2>1, SendQueryInv3
<1>10. ASSUME NEW e \in Daemons, NEW a \in answers[e], Receive(e, a) PROVE Inv3(d)'
  <2>1. CASE e # d
    <3>1. /\ answers' = [answers EXCEPT ![e] = @ \ {a}]
          /\ \E n : /\ toReceive' = [toReceive EXCEPT ![e] = @ - 1]
                    /\ done' = [done EXCEPT ![e][n] = Total - (toReceive[e] - 1)]
          /\ UNCHANGED <<pc, pass, unsent, queries>>
      BY <1>10 DEF Receive, Consume
    <3>2. /\ answers'[d] = answers[d] /\ toReceive'[d] = toReceive[d]
          /\ done'[d] = done[d]
      BY <2>1, <3>1 DEF Inv1, TypeOK
    <3> QED
      BY <3>1, <3>2, FrameInv3
  <2> QED
    BY <1>10, <2>1, ReceiveInv3
<1>11. ASSUME NEW e \in Daemons, NEW a \in answers[e], Ignore(e, a) PROVE Inv3(d)'
  <2>1. answers'[d] \subseteq answers[d]
    BY <1>11 DEF Ignore, Inv1, TypeOK
  <2>2. UNCHANGED <<pc, pass, unsent, queries, toReceive, done>>
    BY <1>11 DEF Ignore
  <2>3. pc[d] \in {"listen", "start", "pass", "select", "store"}
    BY DEF Inv1, TypeOK
  <2> QED
    BY <2>1, <2>2, <2>3, FewerInv3
<1>12. ASSUME NEW e \in Daemons, EndPass(e) PROVE Inv3(d)'
  <2>1. /\ UNCHANGED <<pass, unsent, toReceive, done, queries, answers>>
        /\ pc[e] = "select" /\ \A f \in Daemons : f # e => pc'[f] = pc[f]
    BY <1>12 DEF EndPass, network, Inv1, TypeOK
  <2>2. CASE d = e
    BY <2>1, <2>2, FewerInv3
  <2>3. CASE d # e
    BY <2>1, <2>3, FrameInv3
  <2> QED
    BY <2>2, <2>3
<1> QED
  BY <1>2, <1>3, <1>4, <1>5, <1>6, <1>7, <1>8, <1>9, <1>10, <1>11, <1>12
     DEF Next, NotifierNext, Proceed, Finish, Obsolete, Store

\* The share of nodes that is stored with each latency counts the nodes that had answered
\* by then, each of them once, however many passes that took; and what the notifier takes
\* for outstanding at the end is what has not been measured: unless IDs clash, or an
\* answer comes twice.
THEOREM SharesAreTrue ==
    ASSUME Bounds, ~Duplicates, ~IdClash
    PROVE  Spec => [](ShareTrue /\ OutstandingTrue)
<1> DEFINE All3 == \A d \in Daemons : Inv3(d)
<1>1. Init => Inv1 /\ All3
  BY InitInv1, InitInv3
<1>2. Inv1 /\ All3 /\ [Next]_vars => Inv1' /\ All3'
  <2> SUFFICES ASSUME Inv1, All3, [Next]_vars, NEW d \in Daemons PROVE Inv1' /\ Inv3(d)'
    BY NextInv1
  <2> QED
    BY NextInv1, NextInv3
<1>3. All3 => ShareTrue /\ OutstandingTrue
  BY DEF Inv3, Counted, Shares, ShareTrue, OutstandingTrue
<1> QED
  BY <1>1, <1>2, <1>3, PTL DEF Spec

-----------------------------------------------------------------------------
(* No serial is measured twice                                             *)

\* One daemon at a time runs a notifier: what the server has for one address family.
OneDaemon == \A d, e \in Daemons : d = e

\* Only nodes of the list are asked and measured.
Listed(d) ==
    /\ \A x \in queries[d] \cup answers[d] : x.node \in NodeList
    /\ Measured(d) \subseteq NodeList

AllListed ==
    /\ \A d \in Daemons : Listed(d)
    /\ \A n \in Nodes, s \in Serials : rows[n][s] > 0 => n \in NodeList

\* What the notifier has found in the table is older than what it measures.
Newer ==
    \A d \in Daemons : pc[d] \in {"pass", "select", "store"} =>
        \A n \in Nodes, s \in Serials : rows[n][s] > 0 => s < serial[d]

Inv4 == AllListed /\ Newer /\ MeasuredOnce

\* A set of serials has a latest.
LEMMA LatestIn ==
    ASSUME Bounds, NEW S \in SUBSET Serials, S # {}
    PROVE  \E s \in S : \A t \in S : t <= s
<1> DEFINE T == {MaxSerial - s : s \in S}
<1>1. T \in SUBSET Nat /\ T # {}
  <2>1. \A s \in S : MaxSerial - s \in Nat
    BY DEF Serials, Bounds
  <2> QED
    BY <2>1
<1> HIDE DEF T
<1>2. PICK m \in T : \A k \in T : m <= k
  <2>1. PICK m \in T : \A k \in T : ~ (<<k, m>> \in OpToRel(<, Nat))
    BY <1>1, NatLessThanWellFounded, WFMin
  <2>2. \A k \in T : ~ (k < m)
    BY <1>1, <2>1, Zenon DEF OpToRel
  <2> QED
    BY <1>1, <2>2
<1> USE DEF T
<1>3. PICK s \in S : m = MaxSerial - s
  OBVIOUS
<1>4. \A t \in S : MaxSerial - s <= MaxSerial - t
  BY <1>2, <1>3
<1>5. \A t \in S : t \in Int /\ s \in Int /\ MaxSerial \in Int
  BY DEF Serials, Bounds
<1> QED
  BY <1>4, <1>5

LEMMA LatestIsLatest ==
    ASSUME Bounds
    PROVE  /\ Latest \in 0..MaxSerial
           /\ \A n \in Nodes, s \in Serials : rows[n][s] > 0 => Latest # 0 /\ s <= Latest
           /\ Latest # 0 => \E n \in Nodes : rows[n][Latest] > 0
<1> DEFINE known == {s \in Serials : \E n \in Nodes : rows[n][s] > 0}
<1>1. CASE known = {}
  <2>1. Latest = 0
    BY <1>1 DEF Latest
  <2> QED
    BY <1>1, <2>1 DEF Bounds
<1>2. CASE known # {}
  <2>1. \E s \in known : \A t \in known : t <= s
    BY <1>2, LatestIn
  <2>2. Latest = CHOOSE s \in known : \A t \in known : t <= s
    BY <1>2 DEF Latest
  <2>3. Latest \in known /\ \A t \in known : t <= Latest
    BY <2>1, <2>2
  <2> QED
    BY <2>3 DEF Serials, Bounds
<1> QED
  BY <1>1, <1>2

LEMMA QuitListed ==
    ASSUME Inv1, NEW e \in Daemons, Quit(e), NEW d \in Daemons, Listed(d)
    PROVE  Listed(d)'
BY QuitMeasured DEF Listed

LEMMA NextListed ==
    ASSUME Bounds, Inv1, [Next]_vars, NEW d \in Daemons, Listed(d)
    PROVE  Listed(d)'
<1>1. CASE UNCHANGED <<queries, answers, done>>
  BY <1>1 DEF Listed, Measured
<1>2. ASSUME NEW e \in Daemons, Lose(e) PROVE Listed(d)'
  <2>1. queries'[d] \subseteq queries[d] /\ answers'[d] \subseteq answers[d]
    BY <1>2, LoseParts DEF Inv1
  <2> QED
    BY <1>2, <2>1 DEF Lose, Listed, Measured
<1>3. ASSUME NEW e \in Daemons, NEW q \in queries[e], Answer(e, q) PROVE Listed(d)'
  <2> DEFINE a == [node |-> q.node, pass |-> q.pass, serial |-> has[q.node]]
  <2>1. /\ queries' = [queries EXCEPT ![e] = @ \ {q}]
        /\ answers' = [answers EXCEPT ![e] = @ \cup {a}]
        /\ done' = done
    BY <1>3 DEF Answer
  <2>2. a.node = q.node
    OBVIOUS
  <2> HIDE DEF a
  <2>3. \A x \in queries'[d] \cup answers'[d] :
            \E y \in queries[d] \cup answers[d] : x.node = y.node
    BY <2>1, <2>2 DEF Inv1, TypeOK
  <2> QED
    BY <2>1, <2>3 DEF Listed, Measured
<1>4. ASSUME NEW e \in Daemons, SendQuery(e) PROVE Listed(d)'
  <2>1. PICK n \in unsent[e] :
            queries' = [queries EXCEPT ![e] = @ \cup {[node |-> n, pass |-> pass[e]]}]
    BY <1>4 DEF SendQuery
  <2>2. n \in NodeList
    BY DEF Inv1, TypeOK
  <2>3. \A x \in queries'[d] : x \in queries[d] \/ x.node = n
    BY <2>1 DEF Inv1, TypeOK
  <2> QED
    BY <1>4, <2>2, <2>3 DEF SendQuery, Listed, Measured
<1>5. ASSUME NEW e \in Daemons, NEW a \in answers[e], Receive(e, a) PROVE Listed(d)'
  <2>1. PICK n \in Attributed(e, a) :
            done' = [done EXCEPT ![e][n] = Total - (toReceive[e] - 1)]
    BY <1>5 DEF Receive
  <2>2. answers'[d] \subseteq answers[d] /\ queries' = queries
    BY <1>5, ReceiveParts DEF Receive, Inv1
  <2>3. CASE d # e
    BY <2>1, <2>2, <2>3 DEF Listed, Measured, Inv1, TypeOK
  <2>4. CASE d = e
    <3>1. n \in NodeList
      BY <2>4 DEF Attributed, Listed, Inv1, TypeOK
    <3>2. Measured(d)' \subseteq Measured(d) \cup {n}
      BY <2>1 DEF Measured, Inv1, TypeOK
    <3> QED
      BY <2>2, <3>1, <3>2 DEF Listed
  <2> QED
    BY <2>3, <2>4
<1>6. ASSUME NEW e \in Daemons, NEW a \in answers[e], Ignore(e, a) PROVE Listed(d)'
  BY <1>6 DEF Ignore, Listed, Measured, Inv1, TypeOK
<1>7. ASSUME NEW e \in Daemons, Quit(e) PROVE Listed(d)'
  BY <1>7, QuitListed
<1>8. ASSUME NEW e \in Daemons,
             Send(e) \/ Handle(e) \/ BeginPass(e) \/ EndPass(e)
      PROVE  Listed(d)'
  BY <1>1, <1>8 DEF Send, Handle, BeginPass, EndPass, notifier, network
<1>9. CASE Publish \/ (\E n \in Nodes : Transfer(n)) \/ UNCHANGED vars
  BY <1>1, <1>9 DEF Publish, Transfer, vars, notifier, network
<1>10. ASSUME NEW e \in Daemons, CheckLatest(e) PROVE Listed(d)'
  BY <1>1, <1>7, <1>10 DEF CheckLatest, network
<1> QED
  BY <1>2, <1>3, <1>4, <1>5, <1>6, <1>7, <1>8, <1>9, <1>10
     DEF Next, NotifierNext, Proceed, Finish, Obsolete, Store

\* The steps that store nothing and do not come to a serial.
LEMMA SameRowsInv4 ==
    ASSUME Inv4, rows' = rows, \A d \in Daemons : Listed(d)',
           \A d \in Daemons : pc'[d] \in {"pass", "select", "store"} =>
                pc[d] \in {"pass", "select", "store"} /\ serial'[d] = serial[d]
    PROVE  Inv4'
<1>1. AllListed'
  BY DEF Inv4, AllListed
<1>2. Newer' /\ MeasuredOnce'
  BY DEF Inv4, Newer, MeasuredOnce
<1> QED
  BY <1>1, <1>2 DEF Inv4

\* What Store adds to the table.
LEMMA StoreAdds ==
    ASSUME Bounds, Inv1, Inv4, NEW d \in Daemons, Store(d)
    PROVE  /\ serial[d] \in Serials /\ pc[d] = "store"
           /\ \A n \in Nodes, s \in Serials :
                \/ rows'[n][s] = rows[n][s]
                \/ /\ s = serial[d] /\ n \in NodeList
                   /\ rows[n][s] = 0 /\ rows'[n][s] = 1
<1>1. /\ pc[d] = "store" /\ serial[d] \in Serials
      /\ rows' = rows \/ rows' = StoredRows(d)
  BY DEF Store, StoredRows, Inv1, Idle
<1>2. ASSUME NEW n \in Nodes, NEW s \in Serials, rows' = StoredRows(d)
      PROVE  \/ rows'[n][s] = rows[n][s]
             \/ /\ s = serial[d] /\ n \in NodeList
                /\ rows[n][s] = 0 /\ rows'[n][s] = 1
  <2>1. rows'[n] = IF done[d][n] # -1 THEN [rows[n] EXCEPT ![serial[d]] = @ + 1] ELSE rows[n]
    BY <1>2 DEF StoredRows
  <2>2. rows[n] \in [Serials -> Nat]
    BY DEF Inv1, TypeOK
  <2>3. CASE done[d][n] # -1 /\ s = serial[d]
    <3>1. n \in NodeList
      BY <2>3 DEF Inv4, AllListed, Listed, Measured
    <3>2. ~(rows[n][s] > 0)
      <4>1. rows[n][s] > 0 => s < s
        BY <1>1, <2>3 DEF Inv4, Newer
      <4>2. s \in Int
        BY DEF Serials
      <4> QED
        BY <4>1, <4>2
    <3>3. rows[n][s] = 0
      BY <2>2, <3>2
    <3> QED
      BY <2>1, <2>2, <2>3, <3>1, <3>3
  <2>4. CASE ~(done[d][n] # -1 /\ s = serial[d])
    BY <2>1, <2>2, <2>4
  <2> QED
    BY <2>3, <2>4
<1> QED
  BY <1>1, <1>2

LEMMA StoreInv4 ==
    ASSUME Bounds, OneDaemon, Inv1, Inv4, NEW d \in Daemons, Store(d),
           \A e \in Daemons : Listed(e)'
    PROVE  Inv4'
<1>1. \A n \in Nodes, s \in Serials :
        \/ rows'[n][s] = rows[n][s]
        \/ s = serial[d] /\ n \in NodeList /\ rows[n][s] = 0 /\ rows'[n][s] = 1
  BY StoreAdds
<1>2. AllListed'
  BY <1>1 DEF Inv4, AllListed
<1>3. Newer'
  <2>1. \A e \in Daemons : pc'[e] = "listen"
    BY QuitMeasured DEF Store, OneDaemon
  <2> QED
    BY <2>1 DEF Newer
<1>4. MeasuredOnce'
  BY <1>1 DEF Inv4, MeasuredOnce
<1> QED
  BY <1>2, <1>3, <1>4 DEF Inv4

\* Where the notifier compares its serial with the table.
LEMMA CheckLatestInv4 ==
    ASSUME Bounds, OneDaemon, Inv1, Inv4, NEW d \in Daemons, CheckLatest(d),
           \A e \in Daemons : Listed(e)'
    PROVE  Inv4'
<1>1. UNCHANGED <<rows, serial>>
  BY DEF CheckLatest
<1>2. CASE Quit(d)
  <2>1. \A e \in Daemons : pc'[e] = "listen"
    BY <1>2, QuitMeasured DEF OneDaemon
  <2> QED
    BY <1>1, <2>1, SameRowsInv4
<1>3. CASE ~(Latest # 0 /\ Latest >= serial[d])
  <2>1. \A n \in Nodes, s \in Serials : rows[n][s] > 0 => s < serial[d]
    <3> SUFFICES ASSUME NEW n \in Nodes, NEW s \in Serials, rows[n][s] > 0
                 PROVE  s < serial[d]
      OBVIOUS
    <3>1. Latest # 0 /\ s <= Latest /\ Latest \in 0..MaxSerial
      BY LatestIsLatest
    <3>2. serial[d] \in Int /\ s \in Int /\ Latest \in Int
      BY <3>1 DEF Inv1, TypeOK, Serials
    <3> QED
      BY <1>3, <3>1, <3>2
  <2>2. Newer'
    BY <1>1, <2>1 DEF OneDaemon, Newer
  <2>3. AllListed' /\ MeasuredOnce'
    BY <1>1 DEF Inv4, AllListed, MeasuredOnce
  <2> QED
    BY <2>2, <2>3 DEF Inv4
<1> QED
  BY <1>2, <1>3 DEF CheckLatest

LEMMA NextInv4 ==
    ASSUME Bounds, OneDaemon
    PROVE  Inv1 /\ Inv4 /\ [Next]_vars => Inv4'
<1> SUFFICES ASSUME Inv1, Inv4, [Next]_vars PROVE Inv4'
  OBVIOUS
<1>1. \A d \in Daemons : Listed(d)'
  BY NextListed DEF Inv4, AllListed
<1>2. ASSUME NEW d \in Daemons, Handle(d) PROVE Inv4'
  <2>1. /\ rows' = rows
        /\ \/ UNCHANGED <<pc, serial>>
           \/ /\ pc' = [pc EXCEPT ![d] = "start"]
              /\ \E s : serial' = [serial EXCEPT ![d] = s]
    BY <1>2 DEF Handle
  <2>2. \A e \in Daemons : (pc'[e] = pc[e] /\ serial'[e] = serial[e]) \/ pc'[e] = "start"
    BY <2>1 DEF Inv1, TypeOK
  <2> QED
    BY <1>1, <2>1, <2>2, SameRowsInv4
<1>3. ASSUME NEW d \in Daemons, BeginPass(d) \/ EndPass(d) PROVE Inv4'
  <2>1. /\ UNCHANGED <<rows, serial>>
        /\ pc[d] \in {"pass", "select"}
        /\ \A e \in Daemons : e # d => pc'[e] = pc[e]
    BY <1>3 DEF BeginPass, EndPass, Inv1, TypeOK
  <2> QED
    BY <1>1, <2>1, SameRowsInv4
<1>4. CASE UNCHANGED <<rows, pc, serial>>
  BY <1>1, <1>4, SameRowsInv4
<1>5. ASSUME NEW d \in Daemons, NEW a \in answers[d], Obsolete(d, a) PROVE Inv4'
  <2>1. UNCHANGED <<rows, serial>> /\ \A e \in Daemons : pc'[e] \in {pc[e], "listen"}
    BY <1>5, QuitMeasured DEF Obsolete
  <2> QED
    BY <1>1, <2>1, SameRowsInv4
<1>6. CASE Publish \/ (\E n \in Nodes : Transfer(n)) \/ UNCHANGED vars
  BY <1>4, <1>6 DEF Publish, Transfer, vars, notifier
<1>7. ASSUME NEW d \in Daemons,
             \/ Send(d) \/ Lose(d) \/ SendQuery(d)
             \/ \E q \in queries[d] : Answer(d, q)
             \/ \E a \in answers[d] : Receive(d, a) \/ Ignore(d, a)
      PROVE  Inv4'
  BY <1>4, <1>7 DEF Send, Lose, SendQuery, Answer, Receive, Ignore, notifier
<1> QED
  BY <1>1, <1>2, <1>3, <1>5, <1>6, <1>7, StoreInv4, CheckLatestInv4
     DEF Next, NotifierNext, Proceed, Finish

LEMMA InitInv4 == ASSUME Bounds PROVE Init => Inv4
<1> SUFFICES ASSUME Init PROVE Inv4
  OBVIOUS
<1>1. /\ rows = [n \in Nodes |-> [s \in Serials |-> 0]]
      /\ \A d \in Daemons : /\ queries[d] = {} /\ answers[d] = {} /\ done[d] = NotDone
                            /\ pc[d] = "listen"
  BY DEF Init
<1>2. \A d \in Daemons : Listed(d)
  BY <1>1, NoneMeasured DEF Listed
<1> QED
  BY <1>1, <1>2 DEF Inv4, AllListed, Newer, MeasuredOnce

\* With one daemon no latency is stored twice, however often it is notified of a serial,
\* in whatever order: also if IDs clash and answers come twice.
THEOREM StoredOnce ==
    ASSUME Bounds, OneDaemon
    PROVE  Spec => []MeasuredOnce
<1>1. Init => Inv1 /\ Inv4
  BY InitInv1, InitInv4
<1>2. Inv1 /\ Inv4 /\ [Next]_vars => Inv1' /\ Inv4'
  BY NextInv1, NextInv4
<1>3. Inv4 => MeasuredOnce
  BY DEF Inv4
<1> QED
  BY <1>1, <1>2, <1>3, PTL DEF Spec

\* What one daemon stores is about a serial that is later than all that are known.
THEOREM LaterIsStored ==
    ASSUME Bounds, OneDaemon
    PROVE  Spec => [][NewestIsStored]_vars
<1>1. Init => Inv1 /\ Inv4
  BY InitInv1, InitInv4
<1>2. Inv1 /\ Inv4 /\ [Next]_vars => Inv1' /\ Inv4'
  BY NextInv1, NextInv4
<1>3. Inv1 /\ Inv4 /\ [Next]_vars => [NewestIsStored]_vars
  <2> SUFFICES ASSUME Inv1, Inv4, [Next]_vars,
                      NEW n \in Nodes, NEW s \in Serials, rows'[n][s] > rows[n][s]
               PROVE  Latest < s
    BY DEF NewestIsStored
  <2>1. rows[n][s] \in Nat
    BY DEF Inv1, TypeOK
  <2>2. rows' # rows
    BY <2>1
  <2>3. PICK d \in Daemons : Store(d)
    BY <2>2 DEF Next, NotifierNext, Proceed, Finish, Publish, Transfer, Send, Lose, Answer,
       Handle, CheckLatest, BeginPass, SendQuery, Receive, Ignore, Obsolete, EndPass, vars
  <2>4. s = serial[d] /\ s \in Serials /\ pc[d] = "store"
    BY <2>1, <2>3, StoreAdds
  <2>5. Latest \in 0..MaxSerial /\ (Latest # 0 => \E m \in Nodes : rows[m][Latest] > 0)
    BY LatestIsLatest
  <2>6. CASE Latest = 0
    BY <2>4, <2>6 DEF Serials
  <2>7. CASE Latest # 0
    <3>1. Latest \in Serials
      BY <2>5, <2>7 DEF Serials, Bounds
    <3> QED
      BY <2>4, <2>5, <2>7, <3>1 DEF Inv4, Newer
  <2> QED
    BY <2>6, <2>7
<1> QED
  BY <1>1, <1>2, <1>3, PTL DEF Spec

-----------------------------------------------------------------------------
(* RssacReports                                                            *)

CONSTANTS
    Dates, Month, Offset, Reports, LoadTime, Panels, YamlQueries, Dotted, MaxRuns

VARIABLES
    files, missing, rruns, rpc, command, todo, panels, rqueries, complete, okData

Rep ==
    INSTANCE RssacReports WITH
        Queries <- YamlQueries, runs <- rruns, pc <- rpc, queries <- rqueries

Items(s) == {s[k] : k \in DOMAIN s}

\* REPORTS and PANELS: names of reports and of plots.  The load-time report needs a query,
\* and the prefix of the files has no '.' in it.
ReportsFormat ==
    /\ Dotted = FALSE
    /\ Reports \in Seq(STRING)
    /\ \A report \in Items(Reports) :
        Panels[report] \in Seq(STRING) /\ YamlQueries[report] \in Nat
    /\ LoadTime \in Items(Reports) => YamlQueries[LoadTime] > 0

\* The first of a sequence, and the others.
LEMMA ItemsParts ==
    ASSUME NEW s \in Seq(STRING), s # <<>>
    PROVE  /\ Head(s) \in STRING /\ Tail(s) \in Seq(STRING)
           /\ Items(s) = {Head(s)} \cup Items(Tail(s))
<1>1. Head(s) = s[1] /\ Tail(s) \in Seq(STRING) /\ Len(s) \in Nat \ {0} /\ DOMAIN s = 1..Len(s)
  OBVIOUS
<1>2. /\ DOMAIN Tail(s) = 1..(Len(s) - 1)
      /\ \A k \in 1..(Len(s) - 1) : Tail(s)[k] = s[k + 1]
  OBVIOUS
<1>3. ASSUME NEW x \in Items(s) PROVE x \in {Head(s)} \cup Items(Tail(s))
  <2>1. PICK k \in 1..Len(s) : x = s[k]
    BY <1>1 DEF Items
  <2>2. CASE k = 1
    BY <1>1, <2>1, <2>2
  <2>3. CASE k # 1
    <3>1. k - 1 \in 1..(Len(s) - 1) /\ Tail(s)[k - 1] = s[k]
      BY <1>1, <1>2, <2>1, <2>3
    <3> QED
      BY <1>2, <2>1, <3>1 DEF Items
  <2> QED
    BY <2>2, <2>3
<1>4. ASSUME NEW x \in Items(Tail(s)) PROVE x \in Items(s)
  <2>1. PICK k \in 1..(Len(s) - 1) : x = s[k + 1]
    BY <1>2 DEF Items
  <2>2. k + 1 \in 1..Len(s)
    BY <1>1, <2>1
  <2> QED
    BY <1>1, <2>1, <2>2 DEF Items
<1>5. s[1] \in Items(s)
  BY <1>1 DEF Items
<1> QED
  BY <1>1, <1>3, <1>4, <1>5

LEMMA NoItems == Items(<<>>) = {}
BY DEF Items

\* Files of reports, days and labels that differ have names that differ.
LEMMA FileParts ==
    Dotted = FALSE =>
        \A r, d, l, q, e, k : Rep!File(r, d, l) = Rep!File(q, e, k) => r = q /\ d = e /\ l = k
<1> SUFFICES ASSUME Dotted = FALSE, NEW r, NEW d, NEW l, NEW q, NEW e, NEW k,
                    Rep!File(r, d, l) = Rep!File(q, e, k)
             PROVE  r = q /\ d = e /\ l = k
  OBVIOUS
<1>1. /\ Rep!File(r, d, l) = <<Month[d], r>> \o <<d, l>>
      /\ Rep!File(q, e, k) = <<Month[e], q>> \o <<e, k>>
  BY DEF Rep!File
<1>2. /\ (<<Month[d], r>> \o <<d, l>>)[2] = r /\ (<<Month[e], q>> \o <<e, k>>)[2] = q
      /\ (<<Month[d], r>> \o <<d, l>>)[3] = d /\ (<<Month[e], q>> \o <<e, k>>)[3] = e
      /\ (<<Month[d], r>> \o <<d, l>>)[4] = l /\ (<<Month[e], q>> \o <<e, k>>)[4] = k
  OBVIOUS
<1> QED
  BY <1>1, <1>2

\* A file is about the day and label of its name.
NamedFiles ==
    \A file \in DOMAIN files : \E r, d, l :
        file = Rep!File(r, d, l) /\ files[file].date = d /\ files[file].label = l

\* It is there, and whole.
Written(r, d, l) ==
    /\ Rep!File(r, d, l) \in DOMAIN files
    /\ files[Rep!File(r, d, l)].whole = TRUE

\* Data is missing that the command is to report.
Lacking == command.yaml /\ Rep!Wants(LoadTime) /\ command.date \in missing

\* The reports that are done.
Done == Items(command.wanted) \ Items(todo)

\* While main is in its loop over the reports.
InLoop ==
    /\ command \in [date : Dates, wanted : Seq(STRING), plots : BOOLEAN, yaml : BOOLEAN,
                    failed : {FALSE}, exit : {0}]
    /\ Items(command.wanted) \subseteq Items(Reports)
    /\ todo \in Seq(STRING) /\ Items(todo) \subseteq Items(command.wanted)
    /\ okData \in BOOLEAN
    /\ ~okData => Lacking
    /\ okData => \A r \in Done :
        /\ \A l \in Rep!Labels(r) : Written(r, command.date, l)
        /\ ~(r = LoadTime /\ Lacking)

\* While it makes a report.
InReport ==
    /\ todo # <<>> /\ okData = TRUE
    /\ panels \in Seq(STRING)
    /\ rpc = "fetch" => panels # <<>>
    /\ command.plots => \A l \in Items(Panels[Head(todo)]) \ Items(panels) :
        (rpc = "write" => l # "yaml") => Written(Head(todo), command.date, l)
    /\ rpc \in {"query", "write"} =>
        /\ command.yaml = TRUE /\ panels = <<>>
        /\ rqueries \in 0..YamlQueries[Head(todo)] /\ (rpc = "write" => rqueries = 0)
        /\ complete \in BOOLEAN
        /\ complete <=> ~(/\ Head(todo) = LoadTime /\ command.date \in missing
                          /\ rqueries < YamlQueries[Head(todo)])

ReportInv ==
    /\ rpc \in {"idle", "next", "panels", "fetch", "query", "write"}
    /\ NamedFiles
    /\ rpc # "idle" => InLoop
    /\ rpc \notin {"idle", "next"} => InReport
    /\ Rep!ExitTells

LEMMA InitReportInv == Rep!Init => ReportInv
<1> SUFFICES ASSUME Rep!Init PROVE ReportInv
  OBVIOUS
<1>1. files = <<>> /\ rpc = "idle" /\ command = Rep!NoCommand
  BY DEF Rep!Init
<1>2. DOMAIN files = {}
  BY <1>1
<1> QED
  BY <1>1, <1>2 DEF ReportInv, NamedFiles, Rep!ExitTells, Rep!Ended

\* A file that is written changes what it is about, and leaves the others.
LEMMA WriteParts ==
    ASSUME ReportsFormat, NamedFiles, NEW label, NEW whole, Rep!Write(label, whole)
    PROVE  /\ NamedFiles' /\ Rep!OthersKept
           /\ Rep!File(Head(todo), command.date, label) \in DOMAIN files'
           /\ files'[Rep!File(Head(todo), command.date, label)].whole = whole
           /\ \A r, d, l :
                /\ r # Head(todo) \/ d # command.date \/ l # label
                /\ Rep!File(r, d, l) \in DOMAIN files
                => /\ Rep!File(r, d, l) \in DOMAIN files'
                   /\ files'[Rep!File(r, d, l)] = files[Rep!File(r, d, l)]
<1> DEFINE name == Rep!File(Head(todo), command.date, label)
           content == Rep!Content(Head(todo), command.date, label, whole)
<1> HIDE DEF name, content
<1>0. \A r, d, l : Rep!File(r, d, l) = name => r = Head(todo) /\ d = command.date /\ l = label
  <2>1. Dotted = FALSE
    BY DEF ReportsFormat
  <2> QED
    BY <2>1, FileParts DEF name
<1>1. files' = [k \in DOMAIN files \cup {name} |-> IF k = name THEN content ELSE files[k]]
  BY DEF Rep!Write, Rep!Put, name, content
<1>2. content.date = command.date /\ content.label = label /\ content.whole = whole
  BY DEF Rep!Content, content
<1>3. ASSUME NEW file \in DOMAIN files'
      PROVE  \E r, d, l :
                file = Rep!File(r, d, l) /\ files'[file].date = d /\ files'[file].label = l
  BY <1>1, <1>2 DEF NamedFiles, name
<1>4. ASSUME NEW file \in DOMAIN files
      PROVE  /\ file \in DOMAIN files'
             /\ files'[file].date = files[file].date
             /\ files'[file].label = files[file].label
  <2>1. CASE file = name
    <3>1. PICK r, d, l : file = Rep!File(r, d, l) /\ files[file].date = d /\ files[file].label = l
      BY DEF NamedFiles
    <3>2. d = command.date /\ l = label
      BY <1>0, <2>1, <3>1
    <3> QED
      BY <1>1, <1>2, <2>1, <3>1, <3>2
  <2>2. CASE file # name
    BY <1>1, <2>2
  <2> QED
    BY <2>1, <2>2
<1>5. ASSUME NEW r, NEW d, NEW l, r # Head(todo) \/ d # command.date \/ l # label
      PROVE  Rep!File(r, d, l) # name
  BY <1>0, <1>5
<1>6. \A r, d, l :
        /\ r # Head(todo) \/ d # command.date \/ l # label
        /\ Rep!File(r, d, l) \in DOMAIN files
        => /\ Rep!File(r, d, l) \in DOMAIN files'
           /\ files'[Rep!File(r, d, l)] = files[Rep!File(r, d, l)]
  BY <1>1, <1>5
<1>7. name \in DOMAIN files' /\ files'[name].whole = whole
  BY <1>1, <1>2
<1> QED
  BY <1>3, <1>4, <1>6, <1>7 DEF NamedFiles, Rep!OthersKept, name

\* What has been written stays so while another file is written.
LEMMA WriteKeeps ==
    ASSUME ReportsFormat, NamedFiles, NEW label, NEW whole, Rep!Write(label, whole),
           command' = command,
           NEW r, NEW l, r # Head(todo) \/ l # label, Written(r, command.date, l)
    PROVE  Written(r, command.date, l)'
<1> DEFINE f == Rep!File(r, command.date, l)
<1>1. f \in DOMAIN files /\ files[f].whole = TRUE
  BY DEF Written
<1>2. f \in DOMAIN files' /\ files'[f] = files[f]
  BY <1>1, WriteParts
<1>3. f = Rep!File(r, command.date, l)'
  BY DEF Rep!File
<1> QED
  BY <1>1, <1>2, <1>3 DEF Written

\* Reports that are done stay so while another is made.
LEMMA LoopKeeps ==
    ASSUME ReportsFormat, InLoop, NamedFiles, todo # <<>>, UNCHANGED <<command, missing, todo, okData>>,
           files' = files \/ \E label, whole : Rep!Write(label, whole)
    PROVE  InLoop'
<1>1. ASSUME NEW r \in Done, NEW l \in Rep!Labels(r), Written(r, command.date, l)
      PROVE  Written(r, command.date, l)'
  <2>1. r # Head(todo)
    BY ItemsParts DEF Done, InLoop
  <2> QED
    BY <1>1, <2>1, WriteKeeps DEF Written, Rep!File
<1>2. \A r : Rep!Labels(r)' = Rep!Labels(r)
  BY DEF Rep!Labels
<1>3. Lacking' = Lacking /\ Done' = Done
  BY DEF Lacking, Rep!Wants, Done
<1> QED
  BY <1>1, <1>2, <1>3 DEF InLoop

\* The report that is being made is one of those wanted, and of REPORTS.
LEMMA HeadParts ==
    ASSUME ReportsFormat, InLoop, todo # <<>>
    PROVE  /\ Head(todo) \in Items(command.wanted)
           /\ Panels[Head(todo)] \in Seq(STRING) /\ YamlQueries[Head(todo)] \in Nat
           /\ Head(todo) = LoadTime => YamlQueries[Head(todo)] > 0 /\ Rep!Wants(LoadTime)
           /\ Tail(todo) \in Seq(STRING)
           /\ Items(Tail(todo)) \subseteq Items(command.wanted)
           /\ Items(command.wanted) \ Items(Tail(todo)) \subseteq Done \cup {Head(todo)}
<1>1. /\ Tail(todo) \in Seq(STRING) /\ Items(todo) = {Head(todo)} \cup Items(Tail(todo))
  BY ItemsParts DEF InLoop
<1>2. Head(todo) \in Items(command.wanted) /\ Head(todo) \in Items(Reports)
  BY <1>1 DEF InLoop
<1>3. Items(command.wanted) \ Items(Tail(todo)) \subseteq Done \cup {Head(todo)}
  BY <1>1 DEF Done
<1>4. Head(todo) = LoadTime => Rep!Wants(LoadTime)
  BY <1>2 DEF Items, Rep!Wants
<1> QED
  BY <1>1, <1>2, <1>3, <1>4 DEF ReportsFormat, InLoop

\* A report that is done, and the loop that goes on.
LEMMA ReportDone ==
    ASSUME ReportsFormat, InLoop, todo # <<>>, okData = TRUE,
           UNCHANGED <<command, missing>>, todo' = Tail(todo),
           okData' \in BOOLEAN, ~okData' => Lacking,
           \A r, l : r # Head(todo) /\ Written(r, command.date, l)
                        => Written(r, command.date, l)',
           \A r : okData' /\ r = Head(todo) =>
                /\ \A l \in Rep!Labels(r) : Written(r, command.date, l)'
                /\ ~(r = LoadTime /\ Lacking)
    PROVE  InLoop'
<1>1. /\ Tail(todo) \in Seq(STRING) /\ Items(Tail(todo)) \subseteq Items(command.wanted)
      /\ Items(command.wanted) \ Items(Tail(todo)) \subseteq Done \cup {Head(todo)}
  BY HeadParts
<1>2. /\ Lacking' = Lacking
      /\ \A r : Rep!Labels(r)' = Rep!Labels(r)
  BY DEF Lacking, Rep!Wants, Rep!Labels
<1>3. Head(todo) \notin Done
  BY ItemsParts DEF Done, InLoop
<1>4. ASSUME okData' = TRUE, NEW r \in Done'
      PROVE  /\ \A l \in Rep!Labels(r) : Written(r, command.date, l)'
             /\ ~(r = LoadTime /\ Lacking)
  <2>1. r \in Done \/ r = Head(todo)
    BY <1>1, <1>4 DEF Done
  <2>2. CASE r \in Done
    <3>1. /\ \A l \in Rep!Labels(r) : Written(r, command.date, l)
          /\ ~(r = LoadTime /\ Lacking)
      BY <2>2 DEF InLoop
    <3> QED
      BY <1>3, <2>2, <3>1
  <2>3. CASE r = Head(todo)
    BY <1>4, <2>3
  <2> QED
    BY <2>1, <2>2, <2>3
<1> QED
  BY <1>1, <1>2, <1>4 DEF InLoop

\* Steps that write nothing.
LEMMA SameFiles ==
    ASSUME files' = files
    PROVE  /\ \A r, d, l : Written(r, d, l)' <=> Written(r, d, l)
           /\ NamedFiles' <=> NamedFiles
           /\ Rep!OthersKept
BY DEF Written, NamedFiles, Rep!File, Rep!OthersKept

LEMMA StartInLoop ==
    ASSUME ReportsFormat, ReportInv, Rep!Start
    PROVE  ReportInv' /\ Rep!OthersKept
<1>1. PICK date \in Dates, wanted \in {Reports} \cup {<<Reports[k]>> : k \in DOMAIN Reports},
           plots \in BOOLEAN, yaml \in BOOLEAN :
        /\ command' = [date |-> date, wanted |-> wanted, plots |-> plots, yaml |-> yaml,
                       failed |-> FALSE, exit |-> 0]
        /\ todo' = wanted
  BY DEF Rep!Start
<1>2. /\ command'.failed = FALSE /\ command'.exit = 0 /\ command'.plots = plots
      /\ command'.yaml = yaml /\ command'.wanted = wanted
  BY <1>1
<1>3. wanted \in Seq(STRING) /\ Items(wanted) \subseteq Items(Reports)
  <2>1. CASE wanted = Reports
    BY <2>1 DEF ReportsFormat
  <2>2. ASSUME NEW k \in DOMAIN Reports, wanted = <<Reports[k]>>
        PROVE  wanted \in Seq(STRING) /\ Items(wanted) \subseteq Items(Reports)
    <3>1. Reports[k] \in STRING
      BY DEF ReportsFormat
    <3>2. DOMAIN wanted = {1} /\ wanted[1] = Reports[k]
      BY <2>2
    <3> QED
      BY <2>2, <3>1, <3>2 DEF Items
  <2> QED
    BY <2>1, <2>2
<1>4. Done' = {}
  BY <1>1, <1>2 DEF Done
<1>5. files' = files /\ rpc' = "next" /\ okData' = TRUE
  BY DEF Rep!Start
<1>6. InLoop'
  BY <1>1, <1>2, <1>3, <1>4, <1>5 DEF InLoop
<1> QED
  BY <1>5, <1>6, SameFiles DEF ReportInv, Rep!ExitTells, Rep!Ended

\* The steps inside a report that write nothing.
LEMMA MakeReportInReport ==
    ASSUME ReportsFormat, ReportInv, Rep!MakeReport
    PROVE  ReportInv' /\ Rep!OthersKept
<1>1. /\ files' = files /\ rpc' = "panels" /\ rpc = "next"
      /\ UNCHANGED <<command, missing, todo, okData>> /\ todo # <<>>
      /\ panels' = IF command.plots THEN Panels[Head(todo)] ELSE <<>>
  BY DEF Rep!MakeReport
<1>2. InLoop /\ okData = TRUE
  BY <1>1 DEF ReportInv, InLoop, Rep!MakeReport
<1>3. InLoop'
  BY <1>1, <1>2, LoopKeeps DEF ReportInv
<1>4. panels' \in Seq(STRING) /\ (command.plots => panels' = Panels[Head(todo)])
  <2>1. Panels[Head(todo)] \in Seq(STRING) /\ <<>> \in Seq(STRING)
    BY <1>1, <1>2, HeadParts
  <2> QED
    BY <1>1, <2>1
<1>5. InReport'
  BY <1>1, <1>2, <1>4 DEF InReport
<1> QED
  BY <1>1, <1>3, <1>5, SameFiles DEF ReportInv, Rep!ExitTells, Rep!Ended

LEMMA SkipReportInReport ==
    ASSUME ReportsFormat, ReportInv, Rep!SkipReport
    PROVE  ReportInv' /\ Rep!OthersKept
<1>1. /\ files' = files /\ rpc' = rpc /\ rpc = "next" /\ todo' = Tail(todo) /\ todo # <<>>
      /\ UNCHANGED <<command, missing, okData>> /\ okData # TRUE
  BY DEF Rep!SkipReport
<1>2. InLoop
  BY <1>1 DEF ReportInv
<1>3. Tail(todo) \in Seq(STRING) /\ Items(Tail(todo)) \subseteq Items(command.wanted)
  BY <1>1, <1>2, HeadParts
<1>4. Lacking' = Lacking
  BY <1>1 DEF Lacking, Rep!Wants
<1>5. InLoop'
  BY <1>1, <1>2, <1>3, <1>4 DEF InLoop
<1> QED
  BY <1>1, <1>5, SameFiles DEF ReportInv, Rep!ExitTells, Rep!Ended

LEMMA MakeYamlInReport ==
    ASSUME ReportsFormat, ReportInv, Rep!MakeYaml
    PROVE  ReportInv' /\ Rep!OthersKept
<1>1. /\ files' = files /\ rpc' = "query" /\ rpc = "panels"
      /\ UNCHANGED <<command, missing, todo, panels, okData>>
      /\ panels = <<>> /\ command.yaml
      /\ rqueries' = YamlQueries[Head(todo)] /\ complete' = TRUE
  BY DEF Rep!MakeYaml
<1>2. InLoop /\ InReport
  BY <1>1 DEF ReportInv
<1>3. InLoop'
  BY <1>1, <1>2, LoopKeeps DEF ReportInv, InReport
<1>4. rqueries' \in 0..YamlQueries[Head(todo)]
  <2>1. YamlQueries[Head(todo)] \in Nat
    BY <1>1, <1>2, HeadParts DEF InReport
  <2> QED
    BY <1>1, <2>1
<1>5. command.plots => \A l \in Items(Panels[Head(todo)]) \ Items(panels) :
                                Written(Head(todo), command.date, l)
  BY <1>1, <1>2 DEF InReport
<1>6. \A r, d, l : Written(r, d, l) => Written(r, d, l)'
  BY <1>1, SameFiles
<1>7. command.plots => \A l \in Items(Panels[Head(todo)]) \ Items(panels) :
                                Rep!File(Head(todo), command.date, l) \in DOMAIN files
                                /\ files[Rep!File(Head(todo), command.date, l)].whole = TRUE
  BY <1>5 DEF Written
<1>8. complete' <=> ~(/\ Head(todo) = LoadTime /\ command.date \in missing
                      /\ rqueries' < YamlQueries[Head(todo)])
  BY <1>1, <1>4
<1>9. InReport'
  BY <1>1, <1>2, <1>4, <1>7, <1>8 DEF InReport, InLoop, Written, Rep!File
<1> QED
  BY <1>1, <1>3, <1>9, SameFiles DEF ReportInv, Rep!ExitTells, Rep!Ended

LEMMA QueryInReport ==
    ASSUME ReportsFormat, ReportInv, Rep!Query
    PROVE  ReportInv' /\ Rep!OthersKept
<1>1. /\ files' = files /\ rpc' = "query" /\ rpc = "query"
      /\ UNCHANGED <<command, missing, todo, panels, okData>>
      /\ rqueries > 0 /\ rqueries' = rqueries - 1
      /\ complete' = (complete /\ ~(Head(todo) = LoadTime /\ command.date \in missing))
  BY DEF Rep!Query
<1>2. InLoop /\ InReport
  BY <1>1 DEF ReportInv
<1>3. InLoop'
  BY <1>1, <1>2, LoopKeeps DEF ReportInv, InReport
<1>4. /\ YamlQueries[Head(todo)] \in Nat /\ rqueries \in 0..YamlQueries[Head(todo)]
      /\ complete \in BOOLEAN
  BY <1>1, <1>2, HeadParts DEF InReport
<1>5. /\ rqueries' \in 0..YamlQueries[Head(todo)] /\ complete' \in BOOLEAN
      /\ complete' <=> ~(/\ Head(todo) = LoadTime /\ command.date \in missing
                         /\ rqueries' < YamlQueries[Head(todo)])
  <2>1. complete <=> ~(/\ Head(todo) = LoadTime /\ command.date \in missing
                       /\ rqueries < YamlQueries[Head(todo)])
    BY <1>1, <1>2 DEF InReport
  <2>2. CASE Head(todo) = LoadTime /\ command.date \in missing
    <3>1. complete' = FALSE
      BY <1>1, <2>2
    <3>2. rqueries' < YamlQueries[Head(todo)]
      BY <1>1, <1>4
    <3> QED
      BY <1>1, <1>4, <2>2, <3>1, <3>2
  <2>3. CASE ~(Head(todo) = LoadTime /\ command.date \in missing)
    BY <1>1, <1>4, <2>1, <2>3
  <2> QED
    BY <2>2, <2>3
<1>6. InReport'
  BY <1>1, <1>2, <1>5 DEF InReport, Written, Rep!File
<1> QED
  BY <1>1, <1>3, <1>6, SameFiles DEF ReportInv, Rep!ExitTells, Rep!Ended

\* The steps inside a report that write a file.
LEMMA OpenPanelInReport ==
    ASSUME ReportsFormat, ReportInv, Rep!OpenPanel
    PROVE  ReportInv' /\ Rep!OthersKept
<1>1. /\ rpc' = "fetch" /\ rpc = "panels" /\ panels # <<>>
      /\ UNCHANGED <<command, missing, todo, panels, okData>>
      /\ Rep!Write(Head(panels), FALSE)
  BY DEF Rep!OpenPanel
<1>2. InLoop /\ InReport /\ NamedFiles
  BY <1>1 DEF ReportInv
<1>3. InLoop'
  BY <1>1, <1>2, LoopKeeps DEF InReport
<1>4. NamedFiles' /\ Rep!OthersKept
  BY <1>1, <1>2, WriteParts
<1>5. ASSUME command.plots, NEW r, r = Head(todo), NEW l \in Items(Panels[r]) \ Items(panels)
      PROVE  Written(r, command.date, l)'
  <2>1. Written(r, command.date, l)
    BY <1>1, <1>2, <1>5 DEF InReport
  <2>2. l # Head(panels)
    BY <1>1, <1>2, <1>5, ItemsParts DEF InReport
  <2> QED
    BY <1>1, <1>2, <2>1, <2>2, WriteKeeps DEF Written, Rep!File
<1>6. InReport'
  BY <1>1, <1>2, <1>5 DEF InReport
<1> QED
  BY <1>1, <1>3, <1>4, <1>6 DEF ReportInv, Rep!ExitTells, Rep!Ended

LEMMA FetchPanelInReport ==
    ASSUME ReportsFormat, ReportInv, Rep!FetchPanel
    PROVE  ReportInv' /\ Rep!OthersKept
<1>1. /\ rpc' = "panels" /\ rpc = "fetch" /\ panels' = Tail(panels)
      /\ UNCHANGED <<command, missing, todo, okData>>
      /\ Rep!Write(Head(panels), TRUE)
  BY DEF Rep!FetchPanel
<1>2. InLoop /\ InReport /\ NamedFiles /\ panels # <<>>
  BY <1>1 DEF ReportInv, InReport
<1>3. InLoop'
  BY <1>1, <1>2, LoopKeeps DEF InReport
<1>4. NamedFiles' /\ Rep!OthersKept
  BY <1>1, <1>2, WriteParts
<1>5. Tail(panels) \in Seq(STRING) /\ Items(panels) = {Head(panels)} \cup Items(Tail(panels))
  BY <1>2, ItemsParts DEF InReport
<1>6. ASSUME command.plots, NEW r, r = Head(todo), NEW l \in Items(Panels[r]) \ Items(Tail(panels))
      PROVE  Written(r, command.date, l)'
  <2>1. CASE l = Head(panels)
    <3>1. /\ Rep!File(r, command.date, l) \in DOMAIN files'
          /\ files'[Rep!File(r, command.date, l)].whole = TRUE
      BY <1>1, <1>2, <1>6, <2>1, WriteParts
    <3>2. Rep!File(r, command.date, l)' = Rep!File(r, command.date, l)
      BY <1>1 DEF Rep!File
    <3> QED
      BY <3>1, <3>2 DEF Written
  <2>2. CASE l # Head(panels)
    <3>1. Written(r, command.date, l)
      BY <1>1, <1>2, <1>5, <1>6, <2>2 DEF InReport
    <3> QED
      BY <1>1, <1>2, <2>2, <3>1, WriteKeeps DEF Written, Rep!File
  <2> QED
    BY <2>1, <2>2
<1>7. InReport'
  BY <1>1, <1>2, <1>5, <1>6 DEF InReport
<1> QED
  BY <1>1, <1>3, <1>4, <1>7 DEF ReportInv, Rep!ExitTells, Rep!Ended

LEMMA OpenYamlInReport ==
    ASSUME ReportsFormat, ReportInv, Rep!OpenYaml
    PROVE  ReportInv' /\ Rep!OthersKept
<1>1. /\ rpc' = "write" /\ rpc = "query" /\ rqueries = 0
      /\ UNCHANGED <<command, missing, todo, panels, rqueries, complete, okData>>
      /\ Rep!Write("yaml", FALSE)
  BY DEF Rep!OpenYaml
<1>2. InLoop /\ InReport /\ NamedFiles
  BY <1>1 DEF ReportInv
<1>3. InLoop'
  BY <1>1, <1>2, LoopKeeps DEF InReport
<1>4. NamedFiles' /\ Rep!OthersKept
  BY <1>1, <1>2, WriteParts
<1>5. ASSUME command.plots, NEW r, r = Head(todo), NEW l \in Items(Panels[r]) \ Items(panels),
             l # "yaml"
      PROVE  Written(r, command.date, l)'
  <2>1. Written(r, command.date, l)
    BY <1>1, <1>2, <1>5 DEF InReport
  <2> QED
    BY <1>1, <1>2, <1>5, <2>1, WriteKeeps DEF Written, Rep!File
<1>6. InReport'
  BY <1>1, <1>2, <1>5 DEF InReport
<1> QED
  BY <1>1, <1>3, <1>4, <1>6 DEF ReportInv, Rep!ExitTells, Rep!Ended

\* The steps that end a report.
LEMMA NoYamlInReport ==
    ASSUME ReportsFormat, ReportInv, Rep!NoYaml
    PROVE  ReportInv' /\ Rep!OthersKept
<1>1. /\ rpc' = "next" /\ rpc = "panels" /\ panels = <<>> /\ todo' = Tail(todo)
      /\ UNCHANGED <<command, missing, okData>> /\ files' = files
      /\ ~command.yaml
  BY DEF Rep!NoYaml
<1>2. InLoop /\ InReport /\ NamedFiles
  BY <1>1 DEF ReportInv
<1>3. \A r, d, l : Written(r, d, l) => Written(r, d, l)'
  BY <1>1, SameFiles
<1>4. ASSUME NEW r, r = Head(todo)
      PROVE  /\ \A l \in Rep!Labels(r) : Written(r, command.date, l)
             /\ ~(r = LoadTime /\ Lacking)
  BY <1>1, <1>2, <1>4, NoItems DEF InReport, Rep!Labels, Items, Lacking
<1>5. /\ \A r, l : Written(r, command.date, l) => Written(r, command.date, l)'
      /\ okData' \in BOOLEAN /\ (~okData' => Lacking) /\ okData = TRUE /\ todo # <<>>
  BY <1>1, <1>2, <1>3 DEF InLoop, InReport, Written, Rep!File
<1>6. InLoop'
  BY <1>1, <1>2, <1>4, <1>5, ReportDone
<1> QED
  BY <1>1, <1>6, SameFiles DEF ReportInv, Rep!ExitTells, Rep!Ended

LEMMA WriteYamlInReport ==
    ASSUME ReportsFormat, ReportInv, Rep!WriteYaml
    PROVE  ReportInv' /\ Rep!OthersKept
<1>1. /\ rpc' = "next" /\ rpc = "write" /\ todo' = Tail(todo)
      /\ UNCHANGED <<command, missing>> /\ okData' = complete
      /\ Rep!Write("yaml", TRUE)
  BY DEF Rep!WriteYaml
<1>2. InLoop /\ InReport /\ NamedFiles
  BY <1>1 DEF ReportInv
<1>3. NamedFiles' /\ Rep!OthersKept
  BY <1>1, <1>2, WriteParts
<1>4. ASSUME NEW r, NEW l, r # Head(todo) \/ l # "yaml", Written(r, command.date, l)
      PROVE  Written(r, command.date, l)'
  BY <1>1, <1>2, <1>4, WriteKeeps DEF Written, Rep!File
<1>5. ASSUME NEW r, r = Head(todo), NEW l \in Rep!Labels(r)
      PROVE  Written(r, command.date, l)'
  <2>1. CASE l = "yaml"
    <3>1. /\ Rep!File(r, command.date, l) \in DOMAIN files'
          /\ files'[Rep!File(r, command.date, l)].whole = TRUE
      BY <1>1, <1>2, <1>5, <2>1, WriteParts
    <3>2. Rep!File(r, command.date, l)' = Rep!File(r, command.date, l)
      BY <1>1 DEF Rep!File
    <3> QED
      BY <3>1, <3>2 DEF Written
  <2>2. CASE l # "yaml"
    <3>1. command.plots /\ l \in Items(Panels[r]) /\ panels = <<>>
      BY <1>1, <1>2, <1>5, <2>2 DEF Rep!Labels, Items, InReport
    <3>2. Written(r, command.date, l)
      BY <1>1, <1>2, <1>5, <2>2, <3>1, NoItems DEF InReport
    <3> QED
      BY <1>4, <2>2, <3>2
  <2> QED
    BY <2>1, <2>2
<1>6. complete <=> ~(Head(todo) = LoadTime /\ command.date \in missing)
  BY <1>1, <1>2, HeadParts DEF InReport
<1>7. /\ okData' \in BOOLEAN /\ (~okData' => Lacking)
      /\ okData' => ~(Head(todo) = LoadTime /\ Lacking)
      /\ okData = TRUE /\ todo # <<>>
  BY <1>1, <1>2, <1>6, HeadParts DEF InReport, Lacking
<1>8. InLoop'
  BY <1>1, <1>2, <1>4, <1>5, <1>7, ReportDone
<1> QED
  BY <1>1, <1>3, <1>8 DEF ReportInv, Rep!ExitTells, Rep!Ended

\* The steps that end a command.
LEMMA EndInReport ==
    ASSUME ReportsFormat, ReportInv, Rep!End
    PROVE  ReportInv' /\ Rep!OthersKept
<1>1. /\ rpc' = "idle" /\ rpc = "next" /\ todo = <<>>
      /\ UNCHANGED <<missing, todo, okData>> /\ files' = files
      /\ command' = [command EXCEPT !.exit = IF okData THEN 0 ELSE 1]
  BY DEF Rep!End
<1>2. InLoop /\ NamedFiles
  BY <1>1 DEF ReportInv
<1>3. \A file \in DOMAIN files : \E r, d, l :
        file = Rep!File(r, d, l) /\ files[file].date = d /\ files[file].label = l
  BY <1>2 DEF NamedFiles
<1>4. Done = Items(command.wanted)
  BY <1>1, NoItems DEF Done
<1>5. /\ ~okData => Lacking
      /\ okData => ~Lacking
      /\ okData => \A r \in Items(command.wanted) :
            \A l \in Rep!Labels(r) : Written(r, command.date, l)
      /\ okData \in BOOLEAN /\ command.failed = FALSE
  BY <1>2, <1>4 DEF InLoop, Lacking, Rep!Wants, Items
<1>6. ASSUME okData = TRUE, NEW r, Rep!Wants(r) PROVE Rep!Generated(r)
  <2>1. SUFFICES ASSUME NEW l \in Rep!Labels(r)
                 PROVE  /\ Rep!File(r, command.date, l) \in DOMAIN files
                        /\ files[Rep!File(r, command.date, l)].whole
                        /\ files[Rep!File(r, command.date, l)].date = command.date
                        /\ files[Rep!File(r, command.date, l)].label = l
    BY DEF Rep!Generated
  <2>2. r \in Items(command.wanted)
    BY <1>6 DEF Rep!Wants, Items
  <2>3. Written(r, command.date, l)
    BY <1>5, <1>6, <2>1, <2>2
  <2>4. PICK q, d, k : /\ Rep!File(r, command.date, l) = Rep!File(q, d, k)
                       /\ files[Rep!File(r, command.date, l)].date = d
                       /\ files[Rep!File(r, command.date, l)].label = k
    BY <1>3, <2>3 DEF Written
  <2>5. d = command.date /\ k = l
    BY <2>4, FileParts DEF ReportsFormat
  <2> QED
    BY <2>3, <2>4, <2>5 DEF Written
<1>7. /\ command'.date = command.date /\ command'.wanted = command.wanted
      /\ command'.plots = command.plots /\ command'.yaml = command.yaml
      /\ command'.failed = FALSE /\ command'.exit = IF okData THEN 0 ELSE 1
  BY <1>1, <1>2 DEF InLoop
<1>8. \A r : (Rep!Wants(r)' <=> Rep!Wants(r)) /\ (Rep!Generated(r)' <=> Rep!Generated(r))
  BY <1>1, <1>7 DEF Rep!Wants, Rep!Generated, Rep!Labels, Rep!File
<1>9. (command'.exit # 0) <=> Lacking
  BY <1>5, <1>7
<1>10. Rep!ExitTells'
  <2>1. Rep!Wants(LoadTime)' <=> Rep!Wants(LoadTime)
    BY <1>8
  <2>2. (command'.exit # 0) <=>
            (command'.failed \/ (command'.yaml /\ Rep!Wants(LoadTime)' /\ command'.date \in missing'))
    BY <1>1, <1>7, <1>9, <2>1 DEF Lacking
  <2>3. ASSUME command'.exit = 0, NEW r, Rep!Wants(r)' PROVE Rep!Generated(r)'
    <3>1. okData = TRUE
      BY <1>5, <1>7, <2>3
    <3> QED
      BY <1>6, <1>8, <2>3, <3>1
  <2> QED
    BY <2>2, <2>3 DEF Rep!ExitTells
<1>11. NamedFiles' /\ Rep!OthersKept
  BY <1>1, <1>2, SameFiles
<1> QED
  BY <1>1, <1>10, <1>11 DEF ReportInv

LEMMA FailInReport ==
    ASSUME ReportsFormat, ReportInv, Rep!Fail
    PROVE  ReportInv' /\ Rep!OthersKept
<1>1. /\ rpc' = "idle" /\ rpc # "idle" /\ files' = files
      /\ command' = [command EXCEPT !.failed = TRUE, !.exit = 1]
  BY DEF Rep!Fail
<1>2. NamedFiles' /\ Rep!OthersKept
  BY <1>1, SameFiles DEF ReportInv
<1>3. InLoop
  BY <1>1 DEF ReportInv
<1>4. command'.failed = TRUE /\ command'.exit = 1
  BY <1>1, <1>3 DEF InLoop
<1>5. Rep!ExitTells'
  BY <1>4 DEF Rep!ExitTells
<1> QED
  BY <1>1, <1>2, <1>5 DEF ReportInv

LEMMA NextReportInv ==
    ASSUME ReportsFormat, ReportInv, [Rep!Next]_Rep!vars
    PROVE  ReportInv' /\ (Rep!OthersKept \/ UNCHANGED Rep!vars)
<1>1. CASE UNCHANGED Rep!vars
  <2>1. /\ UNCHANGED <<files, missing, rpc, command, todo, panels, rqueries, complete, okData>>
    BY <1>1 DEF Rep!vars
  <2>2. InLoop' = InLoop /\ InReport' = InReport /\ NamedFiles' = NamedFiles
    BY <2>1 DEF InLoop, InReport, NamedFiles, Lacking, Done, Written, Rep!File, Rep!Wants,
                Rep!Labels
  <2>3. Rep!ExitTells' = Rep!ExitTells
    BY <2>1 DEF Rep!ExitTells, Rep!Ended, Rep!Generated, Rep!File, Rep!Wants, Rep!Labels
  <2> QED
    BY <1>1, <2>1, <2>2, <2>3 DEF ReportInv
<1>2. CASE Rep!Next
  BY <1>2, StartInLoop, MakeReportInReport, SkipReportInReport, OpenPanelInReport,
     FetchPanelInReport, MakeYamlInReport, NoYamlInReport, QueryInReport, OpenYamlInReport,
     WriteYamlInReport, EndInReport, FailInReport DEF Rep!Next
<1> QED
  BY <1>1, <1>2

\* What dsv-rssac-reports exits with is true: not 0 after an error or when the load-time
\* YAML file is missing data, and only then; after 0 every file that the options ask for is
\* there, whole, and of the day.
THEOREM ReportsExitTells == ReportsFormat /\ Rep!Spec => []Rep!ExitTells
<1> SUFFICES ASSUME ReportsFormat PROVE Rep!Spec => []Rep!ExitTells
  OBVIOUS
<1>1. Rep!Init => ReportInv
  BY InitReportInv
<1>2. ReportInv /\ [Rep!Next]_Rep!vars => ReportInv'
  BY NextReportInv
<1>3. ReportInv => Rep!ExitTells
  BY DEF ReportInv
<1> QED
  BY <1>1, <1>2, <1>3, PTL DEF Rep!Spec

\* Whatever a command writes, a file of another day or report stays what it was about.
THEOREM ReportsKept == ReportsFormat /\ Rep!Spec => [][Rep!OthersKept]_Rep!vars
<1> SUFFICES ASSUME ReportsFormat PROVE Rep!Spec => [][Rep!OthersKept]_Rep!vars
  OBVIOUS
<1>1. Rep!Init => ReportInv
  BY InitReportInv
<1>2. ReportInv /\ [Rep!Next]_Rep!vars => ReportInv' /\ [Rep!OthersKept]_Rep!vars
  BY NextReportInv
<1> QED
  BY <1>1, <1>2, PTL DEF Rep!Spec

-----------------------------------------------------------------------------
(* RssacFigures                                                            *)

CONSTANTS
    Days, ZoneSerials, NodeCount, MaxLatency, Threshold, Messages, MaxMessages, NoLength, Unit,
    QueryTop, ResponseTop, Split

VARIABLES latencies, messages

Fig == INSTANCE RssacFigures WITH
    Serials <- ZoneSerials, Total <- NodeCount, None <- NoLength

\* Ranges of sizes have a width that the last of them is a multiple of.  A message has a
\* transport and an IP version, and a length for the query, the response or both.
SizesFormat ==
    /\ Unit \in Nat \ {0}
    /\ \A top \in {QueryTop, ResponseTop} : top \in Nat /\ top % Unit = 0
    /\ Split \in Nat
    /\ NoLength \notin Nat
    /\ \A m \in Messages :
        /\ m.tcp \in BOOLEAN /\ m.ipv6 \in BOOLEAN
        /\ m.query \in Nat \cup {NoLength} /\ m.response \in Nat \cup {NoLength}

\* Cardinality as the instance has it.
LEMMA SameCardinality == \A S : Fig!Cardinality(S) = Cardinality(S)
BY DEF Fig!Cardinality, Cardinality

\* What a sequence has at a place is one of its elements.
LEMMA ElementOf == \A T : \A s \in Seq(T) : \A i \in 1..Len(s) : s[i] \in T
OBVIOUS

\* A length is in the range of its multiple of the width.
LEMMA RangeParts ==
    ASSUME SizesFormat, NEW l \in Nat
    PROVE  /\ l \div Unit \in Nat /\ Fig!RangeOf(l) \in Nat
           /\ Fig!RangeOf(l) =< l /\ l < Fig!RangeOf(l) + Unit
BY DEF SizesFormat, Fig!RangeOf

\* What is counted in the last range starts there; the others are those of the panels.
LEMMA BucketParts ==
    ASSUME SizesFormat, NEW top \in {QueryTop, ResponseTop}, NEW l \in Nat
    PROVE  /\ Fig!InRange(l, top)
           /\ \A b \in Fig!Buckets(top) \ {top} :
                (Fig!Bucket(l, top) = b) <=> (Fig!RangeOf(l) = b)
<1> DEFINE last == top \div Unit
<1>1. Unit \in Nat \ {0} /\ top \in Nat /\ top % Unit = 0
  BY DEF SizesFormat
<1>2. last \in Nat /\ top = last * Unit
  BY <1>1
<1>3. \A b \in Fig!Buckets(top) \ {top} : b \in Nat /\ b + Unit =< top
  <2> SUFFICES ASSUME NEW b \in Fig!Buckets(top) \ {top} PROVE b \in Nat /\ b + Unit =< top
    OBVIOUS
  <2>1. PICK k \in 0..last : b = Unit * k
    BY DEF Fig!Buckets
  <2> HIDE DEF last
  <2>2. k # last
    BY <1>1, <1>2, <2>1
  <2>3. k + 1 =< last /\ k \in Nat
    BY <1>2, <2>1, <2>2
  <2>4. (k + 1) * Unit =< last * Unit
    BY <1>1, <1>2, <2>3
  <2> QED
    BY <1>1, <1>2, <2>1, <2>3, <2>4
<1>4. CASE l > top
  <2>1. Fig!Bucket(l, top) = top
    BY <1>1, <1>2, <1>4 DEF Fig!Bucket
  <2>2. \A b \in Fig!Buckets(top) \ {top} : Fig!RangeOf(l) # b
    BY <1>1, <1>3, <1>4, RangeParts
  <2>3. Fig!InRange(l, top)
    BY <1>1, <1>4, <2>1 DEF Fig!InRange
  <2> QED
    BY <2>1, <2>2, <2>3
<1>5. CASE l =< top
  <2>1. Fig!Bucket(l, top) = Fig!RangeOf(l)
    BY <1>1, <1>5 DEF Fig!Bucket, Fig!RangeOf
  <2>2. Fig!InRange(l, top)
    BY <1>1, <1>5, <2>1, RangeParts DEF Fig!InRange
  <2> QED
    BY <2>1, <2>2
<1> QED
  BY <1>1, <1>4, <1>5

MessagesType == messages \in Seq([m : Messages, day : Days])

LEMMA FiguresStart == Fig!Init => MessagesType
BY DEF Fig!Init, MessagesType

LEMMA FiguresNext ==
    ASSUME MessagesType, [Fig!Next]_Fig!vars
    PROVE  MessagesType'
<1>1. CASE Fig!StoreLatencies
  BY <1>1 DEF Fig!StoreLatencies, MessagesType
<1>2. CASE Fig!SeeMessage
  BY <1>2 DEF Fig!SeeMessage, MessagesType
<1>3. CASE UNCHANGED Fig!vars
  BY <1>3 DEF Fig!vars, MessagesType
<1> QED
  BY <1>1, <1>2, <1>3 DEF Fig!Next

\* What is seen on a day is some of the messages.
LEMMA SeenParts ==
    ASSUME SizesFormat, MessagesType, NEW day, NEW i \in Fig!Seen(day)
    PROVE  /\ i \in 1..Len(messages)
           /\ messages[i].m \in Messages
           /\ messages[i].m.tcp \in BOOLEAN /\ messages[i].m.ipv6 \in BOOLEAN
           /\ messages[i].m.query \in Nat \cup {NoLength}
           /\ messages[i].m.response \in Nat \cup {NoLength}
<1>1. i \in 1..Len(messages)
  BY DEF Fig!Seen
<1>2. messages[i] \in [m : Messages, day : Days]
  BY <1>1, ElementOf DEF MessagesType
<1>3. messages[i].m \in Messages
  BY <1>2
<1> QED
  BY <1>1, <1>3 DEF SizesFormat

LEMMA SeenFinite ==
    ASSUME MessagesType, NEW day, NEW S \in SUBSET Fig!Seen(day)
    PROVE  IsFiniteSet(S) /\ Cardinality(S) \in Nat
<1>1. Len(messages) \in Nat /\ S \subseteq 1..Len(messages)
  BY DEF MessagesType, Fig!Seen
<1>2. IsFiniteSet(1..Len(messages))
  BY <1>1, FS_Interval
<1> QED
  BY <1>1, <1>2, FS_Subset, FS_CardinalityType

\* A message is counted in the range that its length is in.
LEMMA LengthsInRange == SizesFormat /\ MessagesType => Fig!InItsRange
<1> SUFFICES ASSUME SizesFormat, MessagesType, NEW i \in 1..Len(messages)
             PROVE  LET m == messages[i].m IN
                    /\ m.query # NoLength => Fig!InRange(m.query, QueryTop)
                    /\ m.response # NoLength => Fig!InRange(m.response, ResponseTop)
  BY DEF Fig!InItsRange
<1>1. messages[i] \in [m : Messages, day : Days]
  BY ElementOf DEF MessagesType
<1>2. messages[i].m.query \in Nat \cup {NoLength} /\ messages[i].m.response \in Nat \cup {NoLength}
  BY <1>1 DEF SizesFormat
<1> QED
  BY <1>2, BucketParts

\* The plots of sizes count what the ranges of the file do.
LEMMA SizesAgree ==
    ASSUME SizesFormat, MessagesType, NEW day, NEW tcp \in BOOLEAN
    PROVE  /\ \A b \in Fig!Buckets(QueryTop) \ {QueryTop} :
                /\ Fig!RequestSizes(day, tcp)[b] =
                    Fig!SmallQueries(day, tcp, b) + Fig!BigQueries(day, tcp, b)
                /\ (IF b < Split THEN Fig!BigQueries(day, tcp, b)
                    ELSE Fig!SmallQueries(day, tcp, b)) = 0
           /\ \A b \in Fig!Buckets(ResponseTop) \ {ResponseTop} :
                /\ Fig!ResponseSizes(day, tcp)[b] =
                    Fig!SmallResponses(day, tcp, b) + Fig!BigResponses(day, tcp, b)
                /\ (IF b < Split THEN Fig!BigResponses(day, tcp, b)
                    ELSE Fig!SmallResponses(day, tcp, b)) = 0
<1>1. ASSUME NEW b \in Fig!Buckets(QueryTop) \ {QueryTop}
      PROVE  /\ Fig!RequestSizes(day, tcp)[b] =
                Fig!SmallQueries(day, tcp, b) + Fig!BigQueries(day, tcp, b)
             /\ (IF b < Split THEN Fig!BigQueries(day, tcp, b)
                ELSE Fig!SmallQueries(day, tcp, b)) = 0
  <2> DEFINE All == {i \in Fig!Queries(day, tcp) : Fig!Bucket(messages[i].m.query, QueryTop) = b}
             Small == {i \in Fig!Queries(day, tcp) :
                        Fig!Below(messages[i].m.query) /\ Fig!RangeOf(messages[i].m.query) = b}
             Big == {i \in Fig!Queries(day, tcp) :
                        ~Fig!Below(messages[i].m.query) /\ Fig!RangeOf(messages[i].m.query) = b}
  <2>1. Cardinality(All) \in Nat
    BY SeenFinite DEF Fig!Queries
  <2>2. \A i \in Fig!Queries(day, tcp) :
            (Fig!Bucket(messages[i].m.query, QueryTop) = b) <=> (Fig!RangeOf(messages[i].m.query) = b)
    BY SeenParts, BucketParts DEF Fig!Queries
  <2>3. IF b < Split THEN Small = All /\ Big = {} ELSE Small = {} /\ Big = All
    BY <2>2 DEF Fig!Below
  <2>4. /\ Fig!RequestSizes(day, tcp)[b] = Cardinality(All)
        /\ Fig!SmallQueries(day, tcp, b) = Cardinality(Small)
        /\ Fig!BigQueries(day, tcp, b) = Cardinality(Big)
    BY SameCardinality DEF Fig!RequestSizes, Fig!SmallQueries, Fig!BigQueries
  <2> HIDE DEF All, Small, Big
  <2> QED
    BY <2>1, <2>3, <2>4, FS_EmptySet
<1>2. ASSUME NEW b \in Fig!Buckets(ResponseTop) \ {ResponseTop}
      PROVE  /\ Fig!ResponseSizes(day, tcp)[b] =
                Fig!SmallResponses(day, tcp, b) + Fig!BigResponses(day, tcp, b)
             /\ (IF b < Split THEN Fig!BigResponses(day, tcp, b)
                ELSE Fig!SmallResponses(day, tcp, b)) = 0
  <2> DEFINE All == {i \in Fig!Responses(day, tcp) :
                        Fig!Bucket(messages[i].m.response, ResponseTop) = b}
             Small == {i \in Fig!Responses(day, tcp) :
                        Fig!Below(messages[i].m.response) /\ Fig!RangeOf(messages[i].m.response) = b}
             Big == {i \in Fig!Responses(day, tcp) :
                        ~Fig!Below(messages[i].m.response) /\ Fig!RangeOf(messages[i].m.response) = b}
  <2>1. Cardinality(All) \in Nat
    BY SeenFinite DEF Fig!Responses
  <2>2. \A i \in Fig!Responses(day, tcp) :
            (Fig!Bucket(messages[i].m.response, ResponseTop) = b)
                <=> (Fig!RangeOf(messages[i].m.response) = b)
    BY SeenParts, BucketParts DEF Fig!Responses
  <2>3. IF b < Split THEN Small = All /\ Big = {} ELSE Small = {} /\ Big = All
    BY <2>2 DEF Fig!Below
  <2>4. /\ Fig!ResponseSizes(day, tcp)[b] = Cardinality(All)
        /\ Fig!SmallResponses(day, tcp, b) = Cardinality(Small)
        /\ Fig!BigResponses(day, tcp, b) = Cardinality(Big)
    BY SameCardinality DEF Fig!ResponseSizes, Fig!SmallResponses, Fig!BigResponses
  <2> HIDE DEF All, Small, Big
  <2> QED
    BY <2>1, <2>3, <2>4, FS_EmptySet
<1> QED
  BY <1>1, <1>2

\* So do those of volumes, codes and sources.
LEMMA VolumesAgree ==
    ASSUME SizesFormat, MessagesType, NEW day, NEW tcp \in BOOLEAN, NEW ipv6 \in BOOLEAN
    PROVE  /\ Fig!VolumePanel(day, tcp, ipv6).queries = Fig!QueryVolume(day, tcp, ipv6)
           /\ Fig!VolumePanel(day, tcp, ipv6).responses = Fig!ResponseVolume(day, tcp, ipv6)
           /\ Fig!QueryVolume(day, tcp, ipv6) =
                Fig!ResponseVolume(day, tcp, ipv6) + Fig!DifferencePanel(day, tcp, ipv6)
<1> DEFINE Q == {i \in Fig!Queries(day, tcp) : messages[i].m.ipv6 = ipv6}
           R == {i \in Fig!Responses(day, tcp) : messages[i].m.ipv6 = ipv6}
           PQ == {i \in Fig!Transport(day, tcp, ipv6) : messages[i].m.query # NoLength}
           PR == {i \in Fig!Transport(day, tcp, ipv6) : messages[i].m.response # NoLength}
<1>1. Q = PQ /\ R = PR
  BY DEF Fig!Queries, Fig!Responses, Fig!Transport
<1>2. Cardinality(Q) \in Nat /\ Cardinality(R) \in Nat
  BY SeenFinite DEF Fig!Queries, Fig!Responses
<1>3. /\ Fig!QueryVolume(day, tcp, ipv6) = Cardinality(Q)
      /\ Fig!ResponseVolume(day, tcp, ipv6) = Cardinality(R)
  BY SameCardinality DEF Fig!QueryVolume, Fig!ResponseVolume
<1>4. Fig!VolumePanel(day, tcp, ipv6) = [queries |-> Cardinality(PQ), responses |-> Cardinality(PR)]
  BY SameCardinality DEF Fig!VolumePanel
<1> HIDE DEF Q, R, PQ, PR
<1>5. Fig!DifferencePanel(day, tcp, ipv6) = Cardinality(PQ) - Cardinality(PR)
  BY <1>4 DEF Fig!DifferencePanel
<1> QED
  BY <1>1, <1>2, <1>3, <1>4, <1>5

LEMMA CodesAndSourcesAgree ==
    ASSUME SizesFormat, MessagesType, NEW day
    PROVE  /\ Fig!RcodePanel(day) = Fig!RcodeVolume(day)
           /\ Fig!SourcesPanel(day) =
                [ipv664 |-> Cardinality(Fig!Aggregate(day)),
                 ipv6 |-> Cardinality(Fig!Sources(day, TRUE)),
                 ipv4 |-> Cardinality(Fig!Sources(day, FALSE))]
<1>1. ASSUME NEW rcode
      PROVE  {i \in Fig!Seen(day) : messages[i].m.response # NoLength /\ messages[i].m.rcode = rcode}
                = {i \in Fig!Responses(day, TRUE) \cup Fig!Responses(day, FALSE) :
                        messages[i].m.rcode = rcode}
  BY SeenParts DEF Fig!Responses
<1>2. Fig!RcodePanel(day) = Fig!RcodeVolume(day)
  BY <1>1, SameCardinality DEF Fig!RcodePanel, Fig!RcodeVolume
<1>3. /\ {k \in Fig!Seen(day) : messages[k].m.ipv6} = {k \in Fig!Seen(day) : messages[k].m.ipv6 = TRUE}
      /\ {k \in Fig!Seen(day) : ~messages[k].m.ipv6} = {k \in Fig!Seen(day) : messages[k].m.ipv6 = FALSE}
  BY SeenParts
<1>4. /\ {messages[i].m.source : i \in {k \in Fig!Seen(day) : messages[k].m.ipv6}} = Fig!Sources(day, TRUE)
      /\ {messages[i].m.source : i \in {k \in Fig!Seen(day) : ~messages[k].m.ipv6}} = Fig!Sources(day, FALSE)
  BY <1>3 DEF Fig!Sources
<1>5. Fig!SourcesPanel(day) =
        [ipv664 |-> Cardinality(Fig!Aggregate(day)),
         ipv6 |-> Cardinality(Fig!Sources(day, TRUE)),
         ipv4 |-> Cardinality(Fig!Sources(day, FALSE))]
  BY <1>4, SameCardinality DEF Fig!SourcesPanel, Fig!Aggregate
<1> QED
  BY <1>2, <1>5

\* The plots and the YAML files of the RSSAC reports say the same of any messages, for any
\* width of the ranges, any last range, and wherever the plots of sizes are split.
THEOREM PlotsShowReports == SizesFormat /\ Fig!Spec => []Fig!PlotsAgree
<1> SUFFICES ASSUME SizesFormat PROVE Fig!Spec => []Fig!PlotsAgree
  OBVIOUS
<1>1. Fig!Init => MessagesType
  BY FiguresStart
<1>2. MessagesType /\ [Fig!Next]_Fig!vars => MessagesType'
  BY FiguresNext
<1>3. MessagesType => Fig!PlotsAgree
  BY SizesAgree, VolumesAgree, CodesAndSourcesAgree, SameCardinality DEF Fig!PlotsAgree
<1> QED
  BY <1>1, <1>2, <1>3, PTL DEF Fig!Spec

\* Each message is counted in the range that its length is in, the last one being open.
THEOREM CountedInRange == SizesFormat /\ Fig!Spec => []Fig!InItsRange
<1> SUFFICES ASSUME SizesFormat PROVE Fig!Spec => []Fig!InItsRange
  OBVIOUS
<1>1. Fig!Init => MessagesType
  BY FiguresStart
<1>2. MessagesType /\ [Fig!Next]_Fig!vars => MessagesType'
  BY FiguresNext
<1>3. MessagesType => Fig!InItsRange
  BY LengthsInRange
<1> QED
  BY <1>1, <1>2, <1>3, PTL DEF Fig!Spec

\* A percentage of the nodes of a server that has some.
TimesFormat ==
    NodeCount \in Nat \ {0} /\ MaxLatency \in Nat /\ Threshold \in 1..100

\* A set of numbers has a least.
LEMMA LeastNumber ==
    ASSUME NEW S \in SUBSET Nat, S # {}
    PROVE  /\ Fig!Least(S) \in S /\ \A n \in S : Fig!Least(S) =< n
<1>1. PICK least \in S : \A n \in S : ~ (<<n, least>> \in OpToRel(<, Nat))
  BY NatLessThanWellFounded, WFMin
<1>2. \A n \in S : ~ (n < least)
  BY <1>1, Zenon DEF OpToRel
<1>3. \A n \in S : least =< n
  BY <1>2
<1> QED
  BY <1>3 DEF Fig!Least

LEMMA LeastIs ==
    ASSUME NEW S \in SUBSET Nat, NEW least \in S, \A n \in S : least =< n
    PROVE  Fig!Least(S) = least
<1>1. Fig!Least(S) \in S /\ Fig!Least(S) =< least
  BY LeastNumber
<1>2. least =< Fig!Least(S) /\ least \in Nat /\ Fig!Least(S) \in Nat
  BY <1>1
<1> QED
  BY <1>1, <1>2

\* Sets of which one has a member for each of the other have the same size.
LEMMA SameSize ==
    ASSUME NEW S, NEW T, IsFiniteSet(S), NEW f \in [S -> T],
           \A a, b \in S : f[a] = f[b] => a = b,
           \A t \in T : \E a \in S : f[a] = t
    PROVE  IsFiniteSet(T) /\ Cardinality(T) = Cardinality(S)
<1>1. f \in Bijection(S, T)
  BY DEF Bijection, Injection, Surjection, IsInjective
<1>2. ExistsBijection(S, T)
  BY <1>1 DEF ExistsBijection
<1> QED
  BY <1>2, FS_Bijection

\* Numbers that grow from each to the next grow throughout.
LEMMA GrowThroughout ==
    ASSUME NEW n \in Nat, NEW l \in [1..n -> Nat],
           \A k \in 1..(n - 1) : l[k] =< l[k + 1]
    PROVE  \A j, k \in 1..n : j =< k => l[j] =< l[k]
<1> SUFFICES ASSUME NEW j \in 1..n PROVE \A k \in j..n : l[j] =< l[k]
  OBVIOUS
<1> DEFINE S == {k \in j..n : ~ (l[j] =< l[k])}
<1>1. CASE S = {}
  BY <1>1
<1>2. CASE S # {}
  <2>1. S \subseteq Nat
    OBVIOUS
  <2>2. PICK k \in S : \A i \in S : k =< i
    BY <1>2, <2>1, LeastNumber
  <2>3. k # j /\ k - 1 \in j..n /\ k - 1 \notin S /\ k - 1 \in 1..(n - 1)
    BY <2>2
  <2>4. l[j] =< l[k - 1] /\ l[k - 1] =< l[k]
    BY <2>3
  <2>5. l[j] \in Nat /\ l[k - 1] \in Nat /\ l[k] \in Nat
    BY <2>2, <2>3
  <2> QED
    BY <2>2, <2>4, <2>5
<1> QED
  BY <1>1, <1>2

\* The row of the k-th answer.
RowOf(sn, latency, days, k) ==
    [serial |-> sn, node |-> k, latency |-> latency[k], day |-> days[k],
     percent |-> (k * 100) \div NodeCount]

RowsOf(sn, n, latency, days) == {RowOf(sn, latency, days, k) : k \in 1..n}

\* The rows of a serial are those of the first answers, in the order of their latencies.
SerialRows(sn, rs) ==
    \E n \in 0..NodeCount : \E latency \in [1..n -> 0..MaxLatency] : \E days :
        /\ \A j, k \in 1..n : j =< k => latency[j] =< latency[k]
        /\ rs = {RowOf(sn, latency, days, k) : k \in 1..n}

LatencyRows ==
    /\ IsFiniteSet(latencies)
    /\ \A sn : SerialRows(sn, Fig!Measured(sn))

LEMMA TimesStart == TimesFormat /\ Fig!Init => LatencyRows
<1> SUFFICES ASSUME TimesFormat, Fig!Init, NEW sn
             PROVE  IsFiniteSet(latencies) /\ SerialRows(sn, Fig!Measured(sn))
  BY DEF LatencyRows
<1>1. IsFiniteSet(latencies) /\ Fig!Measured(sn) = {}
  BY FS_EmptySet DEF Fig!Init, Fig!Measured
<1>2. /\ 0 \in 0..NodeCount /\ 1..0 = {} /\ [k \in 1..0 |-> 0] \in [1..0 -> 0..MaxLatency]
  BY DEF TimesFormat
<1>3. Fig!Measured(sn) = {RowOf(sn, [j \in 1..0 |-> 0], <<>>, k) : k \in 1..0}
  BY <1>1, <1>2
<1> QED
  BY <1>1, <1>2, <1>3 DEF SerialRows

LEMMA TimesNext ==
    ASSUME TimesFormat, LatencyRows, [Fig!Next]_Fig!vars
    PROVE  LatencyRows'
<1>1. CASE latencies' = latencies
  BY <1>1 DEF LatencyRows, Fig!Measured
<1>2. CASE Fig!StoreLatencies
  <2>1. PICK sn \in ZoneSerials, day \in Days, n \in 0..NodeCount, midnight \in 0..(MaxLatency + 1) :
        /\ \A row \in latencies : row.serial # sn
        /\ \E latency \in [1..n -> 0..MaxLatency] :
            /\ \A k \in 1..(n - 1) : latency[k] <= latency[k + 1]
            /\ latencies' = latencies \cup
                {[serial |-> sn, node |-> k, latency |-> latency[k],
                  day |-> IF latency[k] < midnight THEN day ELSE day + 1,
                  percent |-> (k * 100) \div NodeCount] : k \in 1..n}
    BY <1>2 DEF Fig!StoreLatencies
  <2>2. PICK latency \in [1..n -> 0..MaxLatency] :
            /\ \A k \in 1..(n - 1) : latency[k] <= latency[k + 1]
            /\ latencies' = latencies \cup
                {[serial |-> sn, node |-> k, latency |-> latency[k],
                  day |-> IF latency[k] < midnight THEN day ELSE day + 1,
                  percent |-> (k * 100) \div NodeCount] : k \in 1..n}
    BY <2>1
  <2> DEFINE days == [k \in 1..n |-> IF latency[k] < midnight THEN day ELSE day + 1]
             new == {RowOf(sn, latency, days, k) : k \in 1..n}
  <2>3. \A k \in 1..n :
            RowOf(sn, latency, days, k) =
                [serial |-> sn, node |-> k, latency |-> latency[k],
                 day |-> IF latency[k] < midnight THEN day ELSE day + 1,
                 percent |-> (k * 100) \div NodeCount]
    BY DEF RowOf
  <2>4. latencies' = latencies \cup new
    BY <2>2, <2>3
  <2>5. \A row \in new : row.serial = sn
    BY DEF RowOf
  <2>6. n \in Nat /\ latency \in [1..n -> Nat]
    BY DEF TimesFormat
  <2>7. \A j, k \in 1..n : j =< k => latency[j] =< latency[k]
    BY <2>2, <2>6, GrowThroughout
  <2>8. IsFiniteSet(new)
    <3>1. IsFiniteSet(1..n)
      BY <2>6, FS_Interval
    <3> DEFINE f == [k \in 1..n |-> RowOf(sn, latency, days, k)]
    <3>2. f \in [1..n -> new] /\ \A row \in new : \E k \in 1..n : f[k] = row
      OBVIOUS
    <3>3. \A j, k \in 1..n : f[j] = f[k] => j = k
      BY DEF RowOf
    <3> HIDE DEF f, new
    <3> QED
      BY <3>1, <3>2, <3>3, SameSize
  <2>9. IsFiniteSet(latencies')
    <3> HIDE DEF new
    <3> QED
      BY <2>4, <2>8, FS_Union DEF LatencyRows
  <2>10. \A s : Fig!Measured(s)' = IF s = sn THEN new ELSE Fig!Measured(s)
    <3> HIDE DEF new
    <3> QED
      BY <2>1, <2>4, <2>5 DEF Fig!Measured
  <2>11. SerialRows(sn, new)
    BY <2>7 DEF SerialRows
  <2>12. \A s : SerialRows(s, Fig!Measured(s))
    BY DEF LatencyRows
  <2>13. \A s : SerialRows(s, Fig!Measured(s)')
    <3> HIDE DEF new
    <3> QED
      BY <2>10, <2>11, <2>12
  <2>14. \A s : SerialRows(s, Fig!Measured(s))' <=> SerialRows(s, Fig!Measured(s)')
    BY DEF SerialRows
  <2> QED
    BY <2>9, <2>13, <2>14 DEF LatencyRows
<1> QED
  BY <1>1, <1>2 DEF Fig!Next, Fig!SeeMessage, Fig!vars

\* The serials with a row that reaches the threshold.
Met(day) == {row.serial : row \in {r \in Fig!Rows(day) : Fig!Reached(r)}}

\* The times of a serial's rows that do.
MetTimes(day, sn) ==
    {r.latency : r \in {s \in Fig!Rows(day) : s.serial = sn /\ Fig!Reached(s)}}

\* The line of a serial.
LineOf(day, sn) ==
    [serial |-> sn, time |-> IF sn \in Met(day) THEN Fig!Least(MetTimes(day, sn)) ELSE -1]

LEMMA LinesAre ==
    ASSUME NEW day
    PROVE  Fig!LoadTime(day) = {LineOf(day, sn) : sn \in {row.serial : row \in Fig!Rows(day)}}
<1> DEFINE shown == {row.serial : row \in Fig!Rows(day)}
<1>1. Met(day) \subseteq shown /\ Fig!Missed(day) = shown \ Met(day)
  BY DEF Met, Fig!Missed
<1>2. \A sn \in Fig!Missed(day) : LineOf(day, sn) = [serial |-> sn, time |-> -1]
  BY <1>1 DEF LineOf
<1>3. \A sn \in Met(day) :
        LineOf(day, sn) = [serial |-> sn, time |-> Fig!Least(MetTimes(day, sn))]
  BY DEF LineOf
<1>4. Fig!LoadTime(day) = {[serial |-> sn, time |-> Fig!Least(MetTimes(day, sn))] : sn \in Met(day)}
                            \cup {[serial |-> sn, time |-> -1] : sn \in Fig!Missed(day)}
  BY DEF Fig!LoadTime, Met, MetTimes
<1>5. Fig!LoadTime(day) = {LineOf(day, sn) : sn \in Met(day)}
                            \cup {LineOf(day, sn) : sn \in Fig!Missed(day)}
  BY <1>2, <1>3, <1>4
<1> HIDE DEF shown
<1> QED
  BY <1>1, <1>5 DEF shown

\* The file has one line for each serial that has a point in the plot.
LEMMA LinesOnce == LatencyRows => Fig!OneLine
<1> SUFFICES ASSUME LatencyRows, NEW day
             PROVE  LET shown == {point[1] : point \in Fig!LoadTimePanel(day)} IN
                    /\ {line.serial : line \in Fig!LoadTime(day)} = shown
                    /\ Cardinality(Fig!LoadTime(day)) = Cardinality(shown)
  BY SameCardinality DEF Fig!OneLine
<1> DEFINE shown == {point[1] : point \in Fig!LoadTimePanel(day)}
           lines == {LineOf(day, sn) : sn \in shown}
           f == [sn \in shown |-> LineOf(day, sn)]
<1>1. shown = {row.serial : row \in Fig!Rows(day)}
  <2>1. \A row : <<row.serial, row.latency>>[1] = row.serial
    OBVIOUS
  <2> QED
    BY <2>1 DEF Fig!LoadTimePanel
<1>2. Fig!LoadTime(day) = lines
  BY <1>1, LinesAre
<1>3. \A sn : LineOf(day, sn).serial = sn
  BY DEF LineOf
<1>4. IsFiniteSet(shown)
  <2>1. IsFiniteSet(Fig!Rows(day))
    BY FS_Subset DEF LatencyRows, Fig!Rows
  <2> DEFINE g == [row \in Fig!Rows(day) |-> row.serial]
  <2>2. g \in Surjection(Fig!Rows(day), shown)
    BY <1>1 DEF Surjection
  <2> QED
    BY <2>1, <2>2, FS_Surjection
<1> HIDE DEF shown
<1>5. f \in [shown -> lines] /\ \A line \in lines : \E sn \in shown : f[sn] = line
  OBVIOUS
<1>6. \A a, b \in shown : f[a] = f[b] => a = b
  BY <1>3
<1> HIDE DEF f
<1>7. Cardinality(lines) = Cardinality(shown)
  <2> HIDE DEF lines
  <2> QED
    BY <1>4, <1>5, <1>6, SameSize
<1>8. {line.serial : line \in lines} = shown
  BY <1>3
<1> QED
  BY <1>2, <1>7, <1>8 DEF shown

\* A share of the nodes is a percentage of them.
LEMMA ShareParts ==
    ASSUME TimesFormat, NEW k \in Nat
    PROVE  (((k * 100) \div NodeCount) >= Threshold) <=> (100 * k >= Threshold * NodeCount)
<1> DEFINE q == (k * 100) \div NodeCount
<1>1. NodeCount \in Nat \ {0} /\ Threshold \in Nat
  BY DEF TimesFormat
<1>2. q \in Nat /\ k * 100 >= q * NodeCount /\ k * 100 < (q + 1) * NodeCount
  BY <1>1
<1> HIDE DEF q
<1>3. CASE q >= Threshold
  <2>1. q * NodeCount >= Threshold * NodeCount
    BY <1>1, <1>2, <1>3
  <2> QED
    BY <1>1, <1>2, <1>3, <2>1 DEF q
<1>4. CASE q + 1 =< Threshold
  <2>1. (q + 1) * NodeCount =< Threshold * NodeCount
    BY <1>1, <1>2, <1>4
  <2> QED
    BY <1>1, <1>2, <1>4, <2>1 DEF q
<1> QED
  BY <1>1, <1>2, <1>3, <1>4

\* The rows, and the places in their order, of the answers that took at most t.
Soon(rs, t) == {row \in rs : row.latency <= t}
FirstBy(n, latency, t) == {k \in 1..n : latency[k] <= t}

\* How many answers took at most t is how many nodes are counted.
LEMMA AnswersCounted ==
    ASSUME NEW sn, NEW n \in Nat, NEW latency, NEW days
    PROVE  \A t : Cardinality(Soon(RowsOf(sn, n, latency, days), t)) =
                  Cardinality(FirstBy(n, latency, t))
<1> SUFFICES ASSUME NEW t
             PROVE  Cardinality(Soon(RowsOf(sn, n, latency, days), t)) =
                    Cardinality(FirstBy(n, latency, t))
  OBVIOUS
<1> DEFINE K == {k \in 1..n : latency[k] <= t}
           R == {row \in RowsOf(sn, n, latency, days) : row.latency <= t}
           f == [k \in K |-> RowOf(sn, latency, days, k)]
<1>1. \A k : RowOf(sn, latency, days, k).latency = latency[k]
             /\ RowOf(sn, latency, days, k).node = k
  BY DEF RowOf
<1>2. IsFiniteSet(K)
  <2>1. IsFiniteSet(1..n)
    BY FS_Interval
  <2> QED
    BY <2>1, FS_Subset
<1>3. f \in [K -> R] /\ (\A row \in R : \E k \in K : f[k] = row)
      /\ (\A j, k \in K : f[j] = f[k] => j = k)
  BY <1>1 DEF RowsOf
<1> HIDE DEF f, K, R
<1>4. Cardinality(R) = Cardinality(K)
  BY <1>2, <1>3, SameSize
<1> QED
  BY <1>4 DEF K, R, Soon, FirstBy

\* Enough nodes are the required share of them.
Enough(k) == 100 * k >= Threshold * NodeCount

LEMMA EnoughParts ==
    ASSUME TimesFormat
    PROVE  ~ Enough(0) /\ \A j, k \in Nat : Enough(j) /\ j =< k => Enough(k)
<1>1. NodeCount \in Nat \ {0} /\ Threshold \in Nat \ {0}
  BY DEF TimesFormat
<1>2. \A a, b \in Nat \ {0} : a * b \in Nat \ {0}
  OBVIOUS
<1>3. Threshold * NodeCount \in Nat \ {0}
  BY <1>1, <1>2
<1> HIDE DEF TimesFormat
<1> QED
  BY <1>3 DEF Enough

\* A set of the first numbers is no larger than its last.
LEMMA SizeParts ==
    ASSUME NEW n \in Nat, NEW S \in SUBSET (1..n)
    PROVE  /\ IsFiniteSet(S) /\ Cardinality(S) \in 0..n
           /\ \A m \in 0..n : S \subseteq 1..m => Cardinality(S) =< m
           /\ \A m \in 0..n : 1..m \subseteq S => m =< Cardinality(S)
<1>1. \A m \in 0..n : IsFiniteSet(1..m) /\ Cardinality(1..m) = m
  BY FS_Interval
<1>2. IsFiniteSet(S) /\ Cardinality(S) \in Nat
  <2>1. IsFiniteSet(1..n)
    BY <1>1
  <2> QED
    BY <2>1, FS_Subset, FS_CardinalityType
<1>3. ASSUME NEW m \in 0..n, S \subseteq 1..m PROVE Cardinality(S) =< m
  <2>1. IsFiniteSet(1..m) /\ Cardinality(1..m) = m /\ S \in SUBSET (1..m)
    BY <1>1, <1>3
  <2> QED
    BY <2>1, FS_Subset
<1>4. \A m \in 0..n : 1..m \subseteq S => m =< Cardinality(S)
  BY <1>1, <1>2, FS_Subset
<1>5. Cardinality(S) =< n
  <2>1. n \in 0..n /\ S \subseteq 1..n
    OBVIOUS
  <2> QED
    BY <1>3, <2>1
<1> QED
  BY <1>2, <1>3, <1>4, <1>5

\* Of latencies in their order, the first that is enough answers is the least time after
\* which there are enough.
LEMMA FirstEnough ==
    ASSUME TimesFormat, NEW n \in Nat, NEW l \in [1..n -> 0..MaxLatency],
           \A j, k \in 1..n : j =< k => l[j] =< l[k],
           NEW times, times = {t \in 0..MaxLatency : Enough(Cardinality(FirstBy(n, l, t)))},
           NEW met, met = {l[k] : k \in {j \in 1..n : Enough(j)}}
    PROVE  /\ met = {} <=> times = {}
           /\ met # {} => Fig!Least(met) = Fig!Least(times)
<1> DEFINE By(t) == FirstBy(n, l, t)
           Reaching == {j \in 1..n : Enough(j)}
<1>1. MaxLatency \in Nat /\ \A k \in 1..n : l[k] \in 0..MaxLatency
  BY DEF TimesFormat
<1>2. \A t : /\ Cardinality(By(t)) \in 0..n
             /\ \A m \in 0..n : By(t) \subseteq 1..m => Cardinality(By(t)) =< m
             /\ \A m \in 0..n : 1..m \subseteq By(t) => m =< Cardinality(By(t))
  BY SizeParts DEF FirstBy
<1>3. times = {t \in 0..MaxLatency : Enough(Cardinality(By(t)))} /\ met = {l[k] : k \in Reaching}
  OBVIOUS
<1>4. CASE Reaching = {}
  <2>1. \A k \in 0..n : ~ Enough(k)
    BY <1>4, EnoughParts
  <2> HIDE DEF By
  <2> QED
    BY <1>2, <1>3, <1>4, <2>1
<1>5. CASE Reaching # {}
  <2>1. Reaching \subseteq Nat
    OBVIOUS
  <2> DEFINE first == Fig!Least(Reaching)
  <2>2. first \in Reaching /\ \A k \in Reaching : first =< k
    BY <1>5, <2>1, LeastNumber
  <2> HIDE DEF first
  <2>3. first \in 1..n /\ Enough(first) /\ l[first] \in 0..MaxLatency
    BY <1>1, <2>2
  <2>4. Enough(Cardinality(By(l[first])))
    <3>1. 1..first \subseteq By(l[first])
      BY <2>3 DEF FirstBy
    <3> HIDE DEF By
    <3>2. first =< Cardinality(By(l[first]))
      BY <1>2, <2>3, <3>1
    <3> QED
      BY <1>2, <2>3, <3>2, EnoughParts
  <2>5. ASSUME NEW t \in 0..MaxLatency, Enough(Cardinality(By(t))) PROVE l[first] =< t
    <3> SUFFICES ASSUME ~ (l[first] =< t) PROVE FALSE
      OBVIOUS
    <3>1. \A k \in 1..n : l[k] <= t => k < first
      BY <1>1, <2>3
    <3>2. By(t) \subseteq 1..(first - 1)
      BY <2>3, <3>1 DEF FirstBy
    <3> HIDE DEF By
    <3>3. Cardinality(By(t)) =< first - 1 /\ Cardinality(By(t)) \in 0..n
      <4>1. first - 1 \in 0..n
        BY <2>3
      <4> QED
        BY <1>2, <3>2, <4>1
    <3>4. Enough(first - 1)
      BY <2>3, <2>5, <3>3, EnoughParts
    <3>5. first - 1 \in Reaching
      BY <2>3, <3>4, EnoughParts
    <3> QED
      BY <2>2, <2>3, <3>5
  <2>6. Fig!Least(times) = l[first] /\ times # {}
    <3>1. times \in SUBSET Nat /\ l[first] \in times
      BY <1>3, <2>3, <2>4
    <3>2. \A t \in times : l[first] =< t
      BY <1>3, <2>5
    <3> QED
      BY <3>1, <3>2, LeastIs
  <2>7. Fig!Least(met) = l[first] /\ met # {}
    <3>1. met \in SUBSET Nat /\ l[first] \in met
      BY <1>1, <1>3, <2>2
    <3>2. \A t \in met : l[first] =< t
      BY <1>3, <2>2, <2>3
    <3> QED
      BY <3>1, <3>2, LeastIs
  <2> QED
    BY <2>6, <2>7
<1> QED
  BY <1>4, <1>5

\* The load time is when the share of nodes that is required was reached.
LEMMA TimesTrue == TimesFormat /\ LatencyRows => Fig!LoadTimeTrue
<1> SUFFICES ASSUME TimesFormat, LatencyRows, NEW day \in Days, NEW line \in Fig!LoadTime(day),
                    Fig!OneDay(line.serial)
             PROVE  line.time = IF Fig!Enough(line.serial) = {} THEN -1
                                ELSE Fig!Least(Fig!Enough(line.serial))
  BY DEF Fig!LoadTimeTrue
<1>1. PICK row \in Fig!Rows(day) : line = LineOf(day, row.serial)
  BY LinesAre
<1>2. PICK sn : sn = row.serial
  OBVIOUS
<1>3. line.serial = sn /\ line.time = IF sn \in Met(day) THEN Fig!Least(MetTimes(day, sn)) ELSE -1
  BY <1>2, <1>1 DEF LineOf
<1>4. PICK n \in 0..NodeCount : \E latency \in [1..n -> 0..MaxLatency] : \E days :
        /\ \A j, k \in 1..n : j =< k => latency[j] =< latency[k]
        /\ Fig!Measured(sn) = {RowOf(sn, latency, days, k) : k \in 1..n}
  BY DEF LatencyRows, SerialRows
<1>5. PICK latency \in [1..n -> 0..MaxLatency] : \E days :
        /\ \A j, k \in 1..n : j =< k => latency[j] =< latency[k]
        /\ Fig!Measured(sn) = {RowOf(sn, latency, days, k) : k \in 1..n}
  BY <1>4
<1>6. PICK days :
        /\ \A j, k \in 1..n : j =< k => latency[j] =< latency[k]
        /\ Fig!Measured(sn) = {RowOf(sn, latency, days, k) : k \in 1..n}
  BY <1>5
<1>7. n \in Nat
  BY DEF TimesFormat
<1>8. \A k \in 1..n : /\ RowOf(sn, latency, days, k).latency = latency[k]
                      /\ Fig!Reached(RowOf(sn, latency, days, k)) <=> Enough(k)
  BY <1>7, ShareParts DEF Fig!Reached, RowOf, Enough
<1>9. {s \in Fig!Rows(day) : s.serial = sn} = {RowOf(sn, latency, days, k) : k \in 1..n}
  <2>1. row \in Fig!Measured(sn) /\ row.day = day
    BY <1>2 DEF Fig!Rows, Fig!Measured
  <2>2. \A r \in Fig!Measured(sn) : r.day = day
    BY <1>3, <2>1 DEF Fig!OneDay
  <2>3. {s \in Fig!Rows(day) : s.serial = sn} = Fig!Measured(sn)
    BY <2>2 DEF Fig!Rows, Fig!Measured
  <2> QED
    BY <1>6, <2>3
<1>10. MetTimes(day, sn) = {latency[k] : k \in {j \in 1..n : Enough(j)}}
  <2>1. {s \in Fig!Rows(day) : s.serial = sn /\ Fig!Reached(s)}
            = {RowOf(sn, latency, days, k) : k \in {j \in 1..n : Enough(j)}}
    BY <1>8, <1>9
  <2> QED
    BY <1>8, <2>1 DEF MetTimes
<1>11. sn \in Met(day) <=> MetTimes(day, sn) # {}
  BY DEF Met, MetTimes
<1>12. Fig!Enough(sn) = {t \in 0..MaxLatency : Enough(Cardinality(FirstBy(n, latency, t)))}
  <2>1. Fig!Measured(sn) = RowsOf(sn, n, latency, days)
    BY <1>6 DEF RowsOf
  <2>2. \A t : Cardinality(Soon(Fig!Measured(sn), t)) = Cardinality(FirstBy(n, latency, t))
    BY <1>7, <2>1, AnswersCounted
  <2>3. Fig!Enough(sn) = {t \in 0..MaxLatency : Enough(Cardinality(Soon(Fig!Measured(sn), t)))}
    BY SameCardinality DEF Fig!Enough, Enough, Soon
  <2> QED
    BY <2>2, <2>3
<1>13. /\ MetTimes(day, sn) = {} <=> Fig!Enough(sn) = {}
       /\ MetTimes(day, sn) # {} => Fig!Least(MetTimes(day, sn)) = Fig!Least(Fig!Enough(sn))
  BY <1>6, <1>7, <1>10, <1>12, FirstEnough
<1> QED
  BY <1>3, <1>11, <1>13

\* The load-time file has one line for each serial that has a point in the plot of the day.
THEOREM SerialsHaveALine == TimesFormat /\ Fig!Spec => []Fig!OneLine
<1> SUFFICES ASSUME TimesFormat PROVE Fig!Spec => []Fig!OneLine
  OBVIOUS
<1>1. Fig!Init => LatencyRows
  BY TimesStart
<1>2. LatencyRows /\ [Fig!Next]_Fig!vars => LatencyRows'
  BY TimesNext
<1>3. LatencyRows => Fig!OneLine
  BY LinesOnce
<1> QED
  BY <1>1, <1>2, <1>3, PTL DEF Fig!Spec

\* Its time is that after which the required share of the nodes had the zone, and '-' just if
\* that share was never reached, for a serial that was measured within a day.
THEOREM LoadTimesTrue == TimesFormat /\ Fig!Spec => []Fig!LoadTimeTrue
<1> SUFFICES ASSUME TimesFormat PROVE Fig!Spec => []Fig!LoadTimeTrue
  OBVIOUS
<1>1. Fig!Init => LatencyRows
  BY TimesStart
<1>2. LatencyRows /\ [Fig!Next]_Fig!vars => LatencyRows'
  BY TimesNext
<1>3. LatencyRows => Fig!LoadTimeTrue
  BY TimesTrue
<1> QED
  BY <1>1, <1>2, <1>3, PTL DEF Fig!Spec
=============================================================================
