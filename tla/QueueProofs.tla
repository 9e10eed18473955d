---------------------------- MODULE QueueProofs -----------------------------
(***************************************************************************)
(* What dsv-queue-details counts and what dsv-import chooses.              *)
(*                                                                         *)
(* QueueReport: dsv-queue-details misses no file while the import moves    *)
(* it, for any files and nodes, and any number of reports.  What a count   *)
(* has passed it has seen, as files that stay queued go only from          *)
(* directories that are counted early to one that is counted later.        *)
(*                                                                         *)
(* ImportChoice: dsv-import takes the files of any nodes in turn, and of   *)
(* each the most recent first, while files arrive and filters are edited.  *)
(* The turns come in rounds: in each, a node that has files left has one   *)
(* taken.                                                                  *)
(***************************************************************************)
EXTENDS QueueReport, FiniteSetTheorems, SequenceTheorems, TLAPS

-----------------------------------------------------------------------------
(* QueueReport                                                             *)

\* There are finitely many files, each of a node.
FilesOfNodes == IsFiniteSet(Files) /\ NodeOf \in [Files -> Nodes]

\* The only step from a queue to a queue, also when an operator queues files again.
LEMMA QueuedMove ==
    ASSUME NEW kind \in Kinds, NEW step \in Steps(kind) \cup StepsAgain(kind),
           step[1] \in Queued, step[2] \in Queued
    PROVE  kind = "cdns" /\ step = <<"incoming", "incoming/pending">>
BY DEF Kinds, Steps, StepsAgain, Queued

\* No file that stays is an error of now and was queued, or the other way round.
LEMMA StayingMove ==
    ASSUME NEW kind \in Kinds, NEW step \in Steps(kind) \cup StepsAgain(kind),
           SameState(step[1], step[2])
    PROVE  step[1] \in Queued /\ step[2] \in Queued
BY DEF Kinds, Steps, StepsAgain, Queued, Errors, SameState

\* Each directory is counted once, incoming before the links of its files.
LEMMA CountsAre ==
    /\ Len(Counts) = 7 /\ DOMAIN Counts = 1..7
    /\ Counts[1] = <<"cdns", "incoming">> /\ Counts[2] = <<"cdns", "incoming/pending">>
    /\ Counts[3] = <<"tsv", "incoming/pending">> /\ Counts[4] = <<"pcap", "pcap/pending">>
    /\ \A k \in 5..7 : Counts[k][2] \notin Queued
    /\ \A k \in 1..7 : Counts[k][1] \in Kinds
<1>1. /\ Len(Counts) = 7 /\ DOMAIN Counts = 1..7
      /\ Counts[1] = <<"cdns", "incoming">> /\ Counts[2] = <<"cdns", "incoming/pending">>
      /\ Counts[3] = <<"tsv", "incoming/pending">>
      /\ Counts[4] = <<"pcap", "pcap/pending">>
      /\ Counts[5] = <<"cdns", "cdns-to-tsv">> /\ Counts[6] = <<"tsv", "import-tsv">>
      /\ Counts[7] = <<"pcap", "cdns-to-pcap">>
  BY DEF Counts
<1>2. /\ Counts[5][2] \notin Queued /\ Counts[6][2] \notin Queued
      /\ Counts[7][2] \notin Queued
  BY <1>1 DEF Queued
<1>3. \A k \in 1..7 : k = 1 \/ k = 2 \/ k = 3 \/ k = 4 \/ k = 5 \/ k = 6 \/ k = 7
  OBVIOUS
<1>4. \A k \in 5..7 : k = 5 \/ k = 6 \/ k = 7
  OBVIOUS
<1>5. \A k \in 5..7 : Counts[k][2] \notin Queued
  BY <1>2, <1>4
<1>6. \A k \in 1..7 : Counts[k][1] \in Kinds
  BY <1>1, <1>3 DEF Kinds
<1> QED
  BY <1>1, <1>5, <1>6

-----------------------------------------------------------------------------
(* The invariant                                                           *)

Places == Queued \cup Errors \cup {"none", "cbor", "gone"}

\* What the counts so far found, of one kind.
FoundBy(k) == UNION {counted[j] : j \in {i \in 1..k : Counts[i][1] = Counts[k][1]}}

\* A file that has stayed and is in a directory of a count that was made has been
\* found, there or where it was before.
Seen ==
    \A k \in DOMAIN counted : \A f \in stayed[Counts[k][1]] :
        place[Counts[k][1]][f] = Counts[k][2] /\ Counts[k][2] \in Queued =>
            f \in FoundBy(k)

\* The rows of the report.
Rows ==
    [node \in listed |->
        [k \in DOMAIN counted |-> Cardinality({f \in counted[k] : NodeOf[f] = node})]]

IInv ==
    /\ pc \in {"idle", "count", "report", "reported"}
    /\ place \in [Kinds -> [Files -> Places]]
    /\ stayed \in [Kinds -> SUBSET Files]
    /\ table \subseteq Nodes
    /\ counted \in Seq(SUBSET Files) /\ Len(counted) <= Len(Counts)
    /\ pc = "idle" => counted = <<>>
    /\ pc \in {"report", "reported"} => Len(counted) = Len(Counts) /\ info = Rows
    /\ pc \in {"count", "report"} => stored = <<>>
    /\ pc = "reported" => stored = <<>> \/ stored = [node \in table \cap DOMAIN info |-> info[node]]
    /\ Seen

\* The nodes of all files have a directory, and those of the files that stay were met.
Homes ==
    /\ \A kind \in Kinds, f \in Files : place[kind][f] # "none" => NodeOf[f] \in dirs
    /\ \A kind \in Kinds : \A f \in stayed[kind] :
        /\ NodeOf[f] \in dirs
        /\ counted # <<>> => NodeOf[f] \in listed

LEMMA SameSeen ==
    ASSUME Seen, UNCHANGED <<place, stayed, counted>>
    PROVE  Seen'
<1>1. \A k : FoundBy(k)' = FoundBy(k)
  BY DEF FoundBy
<1> QED
  BY <1>1 DEF Seen

LEMMA InitIInv == Init => IInv
<1> SUFFICES ASSUME Init PROVE IInv
  OBVIOUS
<1>1. Len(Counts) = 7
  BY CountsAre
<1>2. place \in [Kinds -> [Files -> Places]] /\ stayed \in [Kinds -> SUBSET Files]
  BY DEF Init, Places
<1>3. counted \in Seq(SUBSET Files) /\ Len(counted) = 0 /\ DOMAIN counted = {}
  BY DEF Init
<1>4. Seen
  BY <1>3 DEF Seen
<1> QED
  BY <1>1, <1>2, <1>3, <1>4 DEF Init, IInv

LEMMA FoundIn ==
    ASSUME NEW k \in 1..Len(Counts), NEW f, f \in counted[k]
    PROVE  f \in FoundBy(k)
<1>1. k \in 1..k /\ k \in 1..7
  BY CountsAre
<1> QED
  BY <1>1 DEF FoundBy

\* The import moves a file: if it stays queued, it was counted where it came from.
LEMMA MoveIInv == IInv /\ Move => IInv'
<1> SUFFICES ASSUME IInv, Move PROVE IInv'
  OBVIOUS
<1>0. PICK kind \in Kinds, g \in Files : \E step \in Steps(kind) \cup StepsAgain(kind) :
        /\ place[kind][g] = step[1]
        /\ place' = [place EXCEPT ![kind][g] = step[2]]
        /\ stayed' = IF SameState(step[1], step[2]) THEN stayed
                     ELSE [stayed EXCEPT ![kind] = @ \ {g}]
  BY DEF Move
<1>1. PICK step \in Steps(kind) \cup StepsAgain(kind) :
        /\ place[kind][g] = step[1]
        /\ place' = [place EXCEPT ![kind][g] = step[2]]
        /\ stayed' = IF SameState(step[1], step[2]) THEN stayed
                     ELSE [stayed EXCEPT ![kind] = @ \ {g}]
  BY <1>0
<1>2. UNCHANGED <<table, pc, counted, listed, info, stored>>
  BY DEF Move
<1>3. step[2] \in Places
  BY DEF Kinds, Steps, StepsAgain, Places, Queued, Errors
<1>4. place' \in [Kinds -> [Files -> Places]]
  BY <1>1, <1>3 DEF IInv
<1>5. /\ stayed' \in [Kinds -> SUBSET Files]
      /\ \A other \in Kinds : stayed'[other] \subseteq stayed[other]
  BY <1>1 DEF IInv
<1>6. ASSUME NEW k \in DOMAIN counted, NEW f \in stayed'[Counts[k][1]],
             place'[Counts[k][1]][f] = Counts[k][2], Counts[k][2] \in Queued
      PROVE  f \in FoundBy(k)
  <2>1. k \in 1..7 /\ k \in 1..Len(Counts) /\ Counts[k][1] \in Kinds
    BY <1>6, CountsAre DEF IInv
  <2>2. f \in Files /\ f \in stayed[Counts[k][1]]
    BY <1>5, <2>1 DEF IInv
  <2>3. CASE kind = Counts[k][1] /\ f = g
    <3>1. place'[kind][g] = step[2] /\ step[2] \in Queued
      BY <1>1, <1>6, <2>3 DEF IInv
    <3>2. SameState(step[1], step[2])
      BY <1>1, <1>6, <2>3 DEF IInv
    <3>3. step = <<"incoming", "incoming/pending">> /\ kind = "cdns"
      BY <3>2, QueuedMove, StayingMove
    <3>4. k \in 1..7 /\ Counts[k] # Counts[1]
      BY <2>1, <2>3, <3>1, <3>3, <1>6, CountsAre
    <3>5. place[Counts[1][1]][f] = Counts[1][2] /\ f \in stayed[Counts[1][1]]
      BY <1>1, <2>2, <2>3, <3>3, CountsAre
    <3>6. 1 \in DOMAIN counted /\ Counts[1][2] \in Queued
      BY <2>1, CountsAre DEF IInv, Queued
    <3>7. f \in FoundBy(1)
      BY <3>5, <3>6 DEF IInv, Seen
    <3>8. Counts[1][1] = Counts[k][1] /\ 1 \in 1..k
      BY <2>1, <2>3, <3>3, CountsAre
    <3>9. f \in counted[1]
      BY <3>7 DEF FoundBy
    <3> QED
      BY <3>8, <3>9 DEF FoundBy
  <2>4. CASE ~(kind = Counts[k][1] /\ f = g)
    <3>1. place[Counts[k][1]][f] = Counts[k][2]
      BY <1>1, <1>6, <2>1, <2>2, <2>4 DEF IInv
    <3> QED
      BY <1>6, <2>2, <3>1 DEF IInv, Seen
  <2> QED
    BY <2>3, <2>4
<1>7. Seen'
  BY <1>2, <1>6 DEF Seen, FoundBy
<1> QED
  BY <1>2, <1>4, <1>5, <1>7 DEF IInv, Rows

\* The next directory is counted.
LEMMA CountIInv == IInv /\ Count => IInv'
<1> SUFFICES ASSUME IInv, Count PROVE IInv'
  OBVIOUS
<1> DEFINE n == Len(counted) + 1
           found == {f \in Files : place[Counts[n][1]][f] = Counts[n][2]}
<1>1. /\ counted' = Append(counted, found)
      /\ UNCHANGED <<place, table, pc, info, stored, stayed>>
      /\ Len(counted) < Len(Counts) /\ pc = "count"
  BY DEF Count
<1>2. found \in SUBSET Files
  OBVIOUS
<1> HIDE DEF found
<1>3. /\ counted' \in Seq(SUBSET Files)
      /\ Len(counted') = n /\ Len(counted') <= Len(Counts)
      /\ DOMAIN counted' = 1..n /\ n \in Nat
      /\ counted'[n] = found /\ \A k \in DOMAIN counted : k \in 1..n /\ counted'[k] = counted[k]
      /\ \A k \in 1..n : k = n \/ k \in DOMAIN counted
      /\ DOMAIN counted = 1..(n - 1)
  BY <1>1, <1>2, CountsAre DEF IInv
<1>4. ASSUME NEW k \in DOMAIN counted', NEW f \in stayed[Counts[k][1]],
             place[Counts[k][1]][f] = Counts[k][2], Counts[k][2] \in Queued
      PROVE  f \in FoundBy(k)'
  <2>1. k \in 1..7 /\ k \in 1..k /\ k \in Nat
    BY <1>3, CountsAre
  <2>2. CASE k = n
    <3>1. f \in counted'[k]
      BY <1>3, <1>4, <2>1, <2>2, CountsAre DEF found, IInv
    <3> QED
      BY <2>1, <3>1 DEF FoundBy
  <2>3. CASE k # n
    <3>1. k \in DOMAIN counted
      BY <1>3, <2>3
    <3>2. f \in FoundBy(k)
      BY <1>4, <3>1 DEF IInv, Seen
    <3>3. \A j \in 1..k : counted'[j] = counted[j]
      BY <1>3, <2>1, <3>1
    <3> QED
      BY <3>2, <3>3 DEF FoundBy
  <2> QED
    BY <2>2, <2>3
<1>5. Seen'
  BY <1>1, <1>4 DEF Seen
<1> QED
  BY <1>1, <1>3, <1>5 DEF IInv

\* The report begins, and what it collects is stored or not.
LEMMA ReportIInv == IInv /\ (Begin \/ Collect \/ Store \/ NotStored \/ End) => IInv'
<1> SUFFICES ASSUME IInv, Begin \/ Collect \/ Store \/ NotStored \/ End PROVE IInv'
  OBVIOUS
<1>1. Len(Counts) \in Nat
  BY CountsAre
<1>2. CASE Begin
  <2>1. counted = <<>> /\ counted' = counted
    BY <1>2 DEF Begin, IInv
  <2>2. stayed' \in [Kinds -> SUBSET Files]
    BY <1>2 DEF Begin
  <2>3. DOMAIN counted' = {}
    BY <2>1
  <2>4. Seen'
    BY <2>3 DEF Seen
  <2> QED
    BY <1>2, <2>1, <2>2, <2>4 DEF Begin, IInv
<1>3. CASE Collect
  <2>1. UNCHANGED <<place, stayed, counted, listed, table, stored>> /\ info' = Rows'
    BY <1>3 DEF Collect, Rows
  <2>2. Seen'
    BY <2>1, SameSeen DEF IInv
  <2> QED
    BY <1>3, <2>1, <2>2 DEF Collect, IInv
<1>4. CASE Store \/ NotStored
  <2>1. /\ UNCHANGED <<place, stayed, counted, listed, table, info>>
        /\ pc = "report" /\ pc' = "reported"
        /\ stored' = <<>> \/ stored' = [node \in table' \cap DOMAIN info' |-> info'[node]]
    BY <1>4 DEF Store, NotStored, IInv
  <2>2. Seen' /\ Rows' = Rows
    BY <2>1, SameSeen DEF IInv, Rows
  <2> QED
    BY <2>1, <2>2 DEF IInv
<1>5. CASE End
  <2>1. /\ counted' = <<>> /\ counted' \in Seq(SUBSET Files) /\ Len(counted') = 0
        /\ DOMAIN counted' = {} /\ stayed' \in [Kinds -> SUBSET Files]
    BY <1>5 DEF End
  <2>2. Seen'
    BY <2>1 DEF Seen
  <2> QED
    BY <1>1, <1>5, <2>1, <2>2 DEF End, IInv
<1> QED
  BY <1>2, <1>3, <1>4, <1>5

LEMMA NextIInv == IInv /\ [Next]_vars => IInv'
<1>1. IInv /\ UNCHANGED vars => IInv'
  BY SameSeen DEF vars, IInv, Rows
<1> QED
  BY <1>1, MoveIInv, CountIInv, ReportIInv DEF Next

\* Only C-DNS files come from nowhere, and no file goes there.
LEMMA ComesFrom ==
    ASSUME NEW kind \in Kinds, NEW step \in Steps(kind) \cup StepsAgain(kind)
    PROVE  /\ step[2] # "none"
           /\ kind # "cdns" => "none" \notin MadeFrom(kind)
BY DEF Kinds, Steps, StepsAgain, MadeFrom

\* The move of a file makes a directory if there was none.
LEMMA MoveHomes == IInv /\ Homes /\ Move => Homes'
<1> SUFFICES ASSUME IInv, Homes, Move PROVE Homes'
  OBVIOUS
<1>1. PICK kind \in Kinds, g \in Files : \E step \in Steps(kind) \cup StepsAgain(kind) :
        /\ place[kind][g] = step[1]
        /\ kind # "cdns" /\ step[1] = "none" => place["cdns"][g] \in MadeFrom(kind)
        /\ place' = [place EXCEPT ![kind][g] = step[2]]
        /\ dirs' = IF kind = "cdns" /\ step[1] = "none" THEN dirs \cup {NodeOf[g]} ELSE dirs
        /\ stayed' = IF SameState(step[1], step[2]) THEN stayed
                     ELSE [stayed EXCEPT ![kind] = @ \ {g}]
  BY DEF Move
<1>2. PICK step \in Steps(kind) \cup StepsAgain(kind) :
        /\ place[kind][g] = step[1]
        /\ kind # "cdns" /\ step[1] = "none" => place["cdns"][g] \in MadeFrom(kind)
        /\ place' = [place EXCEPT ![kind][g] = step[2]]
        /\ dirs' = IF kind = "cdns" /\ step[1] = "none" THEN dirs \cup {NodeOf[g]} ELSE dirs
        /\ stayed' = IF SameState(step[1], step[2]) THEN stayed
                     ELSE [stayed EXCEPT ![kind] = @ \ {g}]
  BY <1>1
<1>3. UNCHANGED <<counted, listed>> /\ dirs \subseteq dirs'
  BY <1>2 DEF Move
<1>4. /\ \A other \in Kinds : stayed'[other] \subseteq stayed[other]
  BY <1>2 DEF IInv
<1>5. NodeOf[g] \in dirs'
  <2>1. CASE step[1] # "none"
    BY <1>2, <1>3, <2>1 DEF Homes
  <2>2. CASE step[1] = "none" /\ kind = "cdns"
    BY <1>2, <2>2
  <2>3. CASE step[1] = "none" /\ kind # "cdns"
    <3>1. place["cdns"][g] # "none" /\ "cdns" \in Kinds
      BY <1>2, <2>3, ComesFrom DEF Kinds
    <3> QED
      BY <1>3, <3>1 DEF Homes
  <2> QED
    BY <2>1, <2>2, <2>3
<1>6. ASSUME NEW other \in Kinds, NEW f \in Files, place'[other][f] # "none"
      PROVE  NodeOf[f] \in dirs'
  <2>1. CASE f = g
    BY <1>5, <2>1
  <2>2. CASE f # g
    <3>1. place'[other][f] = place[other][f]
      BY <1>2, <2>2 DEF IInv
    <3> QED
      BY <1>3, <1>6, <3>1 DEF Homes
  <2> QED
    BY <2>1, <2>2
<1> QED
  BY <1>3, <1>4, <1>6 DEF Homes

\* The files that stay are of nodes that the first count met.
LEMMA NextHomes == IInv /\ Homes /\ [Next]_vars => Homes'
<1> SUFFICES ASSUME IInv, Homes, [Next]_vars PROVE Homes'
  OBVIOUS
<1>1. CASE Begin
  <2>1. UNCHANGED <<place, dirs, listed, counted>> /\ counted = <<>>
    BY <1>1 DEF Begin, IInv
  <2>2. \A kind \in Kinds : \A f \in stayed'[kind] : f \in Files /\ place[kind][f] # "none"
    BY <1>1 DEF Begin, Queued, Errors
  <2> QED
    BY <2>1, <2>2 DEF Homes
<1>2. CASE Count
  <2>1. UNCHANGED <<place, dirs, stayed>> /\ listed' = IF counted = <<>> THEN dirs ELSE listed
    BY <1>2 DEF Count
  <2> QED
    BY <2>1 DEF Homes
<1>3. CASE Collect \/ Store \/ NotStored \/ UNCHANGED vars
  <2>1. UNCHANGED <<place, dirs, stayed, listed, counted>>
    BY <1>3 DEF Collect, Store, NotStored, vars
  <2> QED
    BY <2>1 DEF Homes
<1>4. CASE End
  BY <1>4 DEF End, Homes
<1> QED
  BY <1>1, <1>2, <1>3, <1>4, MoveHomes DEF Next

-----------------------------------------------------------------------------
(* What the report tells                                                   *)

\* A file that a count found has a share in the row of its node, if there is one.
LEMMA RowOfFound ==
    ASSUME FilesOfNodes, IInv, pc = "reported", NEW k \in 1..Len(Counts),
           NEW f \in counted[k], NodeOf[f] \in listed
    PROVE  NodeOf[f] \in DOMAIN info /\ info[NodeOf[f]][k] > 0
<1> DEFINE node == NodeOf[f]
           same == {g \in counted[k] : NodeOf[g] = node}
<1>1. k \in 1..7 /\ k \in DOMAIN counted /\ counted[k] \subseteq Files
  <2>1. counted \in Seq(SUBSET Files) /\ Len(counted) = 7 /\ Len(Counts) = 7
    BY CountsAre DEF IInv
  <2>2. k \in DOMAIN counted /\ k \in 1..7
    BY <2>1
  <2>3. counted[k] \in SUBSET Files
    BY <2>1, <2>2, ElementOfSeq
  <2> QED
    BY <2>2, <2>3
<1>2. info = Rows /\ node \in DOMAIN info
  BY DEF IInv, Rows
<1>3. info[node][k] = Cardinality(same)
  BY <1>1, <1>2 DEF Rows
<1>4. IsFiniteSet(same) /\ f \in same
  BY <1>1, FS_Subset DEF FilesOfNodes
<1>5. Cardinality(same) \in Nat /\ Cardinality(same) # 0
  BY <1>4, FS_CardinalityType, FS_EmptySet
<1> QED
  BY <1>2, <1>3, <1>5

\* What the report says of a file of a kind: it is in the row of its node, also among those
\* that are stored.
Reported(kind, f) ==
    /\ f \in Found(kind)
    /\ NodeOf[f] \in DOMAIN info /\ \E k \in CountsOf(kind) : info[NodeOf[f]][k] > 0
    /\ stored # <<>> /\ NodeOf[f] \in table =>
            NodeOf[f] \in DOMAIN stored /\ stored[NodeOf[f]] = info[NodeOf[f]]

\* Where a report looks, it misses no queued file, also when an operator queues files
\* again from the archive and from error directories.
CountedFound ==
    pc = "reported" => \A k \in DOMAIN Counts : \A f \in stayed[Counts[k][1]] :
        place[Counts[k][1]][f] = Counts[k][2] /\ Counts[k][2] \in Queued =>
            Reported(Counts[k][1], f)

LEMMA SeenIsFound == FilesOfNodes /\ IInv /\ Homes => CountedFound
<1> SUFFICES ASSUME FilesOfNodes, IInv, Homes, pc = "reported", NEW k \in DOMAIN Counts,
                    NEW f \in stayed[Counts[k][1]],
                    place[Counts[k][1]][f] = Counts[k][2], Counts[k][2] \in Queued
             PROVE  Reported(Counts[k][1], f)
  BY DEF CountedFound
<1>1. k \in 1..7 /\ DOMAIN counted = 1..7 /\ DOMAIN Counts = 1..7 /\ Len(Counts) = 7
  BY CountsAre DEF IInv
<1>2. f \in FoundBy(k)
  BY <1>1 DEF IInv, Seen
<1>3. PICK j \in 1..k : Counts[j][1] = Counts[k][1] /\ f \in counted[j]
  BY <1>2 DEF FoundBy
<1>4. j \in 1..7
  BY <1>1, <1>3
<1>5. j \in CountsOf(Counts[k][1])
  BY <1>1, <1>3, <1>4 DEF CountsOf
<1>6. f \in Found(Counts[k][1])
  BY <1>3, <1>5 DEF Found
<1>7. NodeOf[f] \in listed
  <2>1. counted # <<>> /\ Counts[k][1] \in Kinds
    <3>1. 1 \in DOMAIN counted /\ DOMAIN <<>> = {}
      BY <1>1
    <3> QED
      BY <1>1, <3>1, CountsAre
  <2> QED
    BY <2>1 DEF Homes
<1>8. NodeOf[f] \in DOMAIN info /\ info[NodeOf[f]][j] > 0
  BY <1>1, <1>3, <1>4, <1>7, RowOfFound
<1>9. stored # <<>> /\ NodeOf[f] \in table =>
        NodeOf[f] \in DOMAIN stored /\ stored[NodeOf[f]] = info[NodeOf[f]]
  BY <1>8 DEF IInv
<1> QED
  BY <1>5, <1>6, <1>8, <1>9 DEF Reported

\* The counts of dsv-queue-details find each file that is in one of the directories they
\* look into and has been queued all the while, wherever it was at first, whatever an
\* operator queues again; and the row of its node shows it, also the stored one.
THEOREM CountedAreFound ==
    ASSUME FilesOfNodes
    PROVE  Spec => []CountedFound
<1>1. Init => Homes
  BY DEF Init, Homes
<1> QED
  BY <1>1, InitIInv, NextIInv, NextHomes, SeenIsFound, PTL DEF Spec

\* Unless an operator queues files again, they wait where the counts look.
Counted ==
    /\ place \in [Kinds -> [Files -> Places]]
    /\ \A kind \in Kinds, f \in Files : place[kind][f] \in Queued =>
            \E k \in DOMAIN Counts : Counts[k] = <<kind, place[kind][f]>>

LEMMA QueuedSteps ==
    ASSUME NEW kind \in Kinds, NEW step \in Steps(kind), step[2] \in Queued
    PROVE  \/ kind = "cdns" /\ step[2] \in {"incoming", "incoming/pending"}
           \/ kind = "tsv" /\ step[2] = "incoming/pending"
           \/ kind = "pcap" /\ step[2] = "pcap/pending"
BY DEF Kinds, Steps, Queued

LEMMA MoveCounted == ~Reprocessing /\ Counted /\ Move => Counted'
<1> SUFFICES ASSUME ~Reprocessing, Counted, Move PROVE Counted'
  OBVIOUS
<1>1. PICK kind \in Kinds, g \in Files : \E step \in Steps(kind) :
        place' = [place EXCEPT ![kind][g] = step[2]]
  <2>1. PICK kind \in Kinds, g \in Files :
            \E step \in Steps(kind) \cup IF Reprocessing THEN StepsAgain(kind) ELSE {} :
                /\ place[kind][g] = step[1]
                /\ kind # "cdns" /\ step[1] = "none" => place["cdns"][g] \in MadeFrom(kind)
                /\ place' = [place EXCEPT ![kind][g] = step[2]]
                /\ dirs' = IF kind = "cdns" /\ step[1] = "none" THEN dirs \cup {NodeOf[g]} ELSE dirs
                /\ stayed' = IF SameState(step[1], step[2]) THEN stayed
                             ELSE [stayed EXCEPT ![kind] = @ \ {g}]
    BY Zenon DEF Move
  <2>2. PICK step \in Steps(kind) \cup IF Reprocessing THEN StepsAgain(kind) ELSE {} :
            place' = [place EXCEPT ![kind][g] = step[2]]
    BY <2>1
  <2> QED
    BY <2>2
<1>2. PICK step \in Steps(kind) : place' = [place EXCEPT ![kind][g] = step[2]]
  BY <1>1
<1>3. step[2] \in Places
  BY DEF Kinds, Steps, Places, Queued, Errors
<1>4. step[2] \in Queued => \E k \in DOMAIN Counts : Counts[k] = <<kind, step[2]>>
  BY QueuedSteps, CountsAre
<1> QED
  BY <1>2, <1>3, <1>4 DEF Counted

\* dsv-queue-details misses no file that is queued all the while its counts are made,
\* though the import moves it from one directory to another between them: a count finds
\* it, and the row of its node shows it, also among those that are stored, if Postgres knows
\* the node.
THEOREM QueuedAreCounted ==
    ASSUME FilesOfNodes, ~Reprocessing
    PROVE  Spec => []NoneMissed
<1>1. Init => Counted
  BY DEF Init, Counted, Places, Queued
<1>2. Counted /\ [Next]_vars => Counted'
  <2>1. Counted /\ UNCHANGED place => Counted'
    BY DEF Counted
  <2>2. Begin \/ Count \/ Collect \/ Store \/ NotStored \/ End \/ UNCHANGED vars
            => UNCHANGED place
    BY DEF Begin, Count, Collect, Store, NotStored, End, vars
  <2> QED
    BY <2>1, <2>2, MoveCounted DEF Next
<1>3. IInv /\ Counted /\ CountedFound => NoneMissed
  <2> SUFFICES ASSUME IInv, Counted, CountedFound, pc = "reported",
                      NEW kind \in Kinds, NEW f \in stayed[kind], place[kind][f] \in Queued
               PROVE  Reported(kind, f)
    BY DEF NoneMissed, Reported
  <2>1. f \in Files
    BY DEF IInv
  <2>2. PICK k \in DOMAIN Counts : Counts[k] = <<kind, place[kind][f]>>
    BY <2>1 DEF Counted
  <2>3. Counts[k][1] = kind /\ Counts[k][2] = place[kind][f]
    BY <2>2
  <2> QED
    BY <2>3 DEF CountedFound
<1> QED
  BY <1>1, <1>2, <1>3, InitIInv, NextIInv, CountedAreFound, PTL DEF Spec

-----------------------------------------------------------------------------
(* ImportChoice                                                            *)

CONSTANTS
    SiteNodes, Dates, Global, Texts, NoText, Commands, Edited, Arriving

VARIABLES
    texts, store, command, ipc, server_filters, listing, unseen, nodefiles, turn, done, since

Choice == INSTANCE ImportChoice WITH Nodes <- SiteNodes, pc <- ipc

\* What a sequence has at a place is one of its elements.
LEMMA ElementOf == \A T : \A s \in Seq(T) : \A i \in 1..Len(s) : s[i] \in T
OBVIOUS

LEMMA AllElements == \A T : \A n \in Nat : \A s : s = [k \in 1..n |-> s[k]] /\ (\A k \in 1..n : s[k] \in T) => s \in Seq(T)
OBVIOUS

\* The files of a node.
FilesOf(node) == {file \in Choice!Files : file[1] = node}

Sources == {"incoming", "cbor", "pcap", "error", "pending"}

QueueNames == {"cdns-to-tsv", "cdns-to-pcap", "import-tsv"}

\* What is decided.
Decisions == [file : Choice!Files, listing : Nat, queues : SUBSET QueueNames]

\* The arguments are as dsv-import has them, the dates of files are numbers, and there is a
\* node.  What sorted(reverse=True) makes of the files of a node is a list of them, the most
\* recent first.
ChoiceFormat ==
    /\ Dates \subseteq Nat /\ SiteNodes # {} /\ Arriving \subseteq Choice!Files
    /\ \A c \in Commands : c.source \in Sources
    /\ \A node \in SiteNodes : \A S \in SUBSET FilesOf(node) :
        /\ Choice!NewestFirstOf(S) \in Seq(S)
        /\ \A i, j \in DOMAIN Choice!NewestFirstOf(S) :
            i < j => Choice!DateOf(Choice!NewestFirstOf(S)[i])
                        > Choice!DateOf(Choice!NewestFirstOf(S)[j])

\* The lists of files: one of each node that has been listed.
Listing ==
    /\ unseen \subseteq SiteNodes
    /\ nodefiles \in Seq([node : SiteNodes, files : Seq(Choice!Files)])
    /\ \A k \in DOMAIN nodefiles : nodefiles[k].files \in Seq(FilesOf(nodefiles[k].node))
    /\ \A k \in DOMAIN nodefiles : nodefiles[k].node \notin unseen
    /\ \A j, k \in DOMAIN nodefiles : nodefiles[j].node = nodefiles[k].node => j = k
    /\ \A node \in SiteNodes \ unseen : \E k \in DOMAIN nodefiles : nodefiles[k].node = node

\* They are in order, and what is left of them is older than what has been taken.
Ordered ==
    \A k \in DOMAIN nodefiles :
        /\ \A i, j \in DOMAIN nodefiles[k].files :
            i < j => Choice!DateOf(nodefiles[k].files[i]) > Choice!DateOf(nodefiles[k].files[j])
        /\ \A d \in DOMAIN done, i \in DOMAIN nodefiles[k].files :
            done[d].listing = listing /\ done[d].file[1] = nodefiles[k].node =>
                Choice!DateOf(done[d].file) > Choice!DateOf(nodefiles[k].files[i])

\* How many files a node has had taken when the turn is t of round r, if it has any left.
Due(k, t, r) == IF k < t THEN r + 1 ELSE r

\* In each round a node that has files left has one taken.
Rounds ==
    \E r \in Nat : \A k \in DOMAIN nodefiles :
        /\ Cardinality(Choice!Taken(nodefiles[k].node)) =< Due(k, turn, r)
        /\ nodefiles[k].files # <<>> =>
            Cardinality(Choice!Taken(nodefiles[k].node)) = Due(k, turn, r)

ChoiceInv ==
    /\ ipc \in {"idle", "list", "take", "failed"}
    /\ store \in [Choice!Dirs -> SUBSET Choice!Files]
    /\ ipc # "idle" => command.source \in Sources
    /\ listing \in Nat
    /\ ipc # "idle" => listing \in 1..Len(Choice!Listings[command.source])
    /\ done \in Seq(Decisions)
    /\ \A k \in DOMAIN done : done[k].listing <= listing
    /\ ipc # "take" => \A k \in DOMAIN done : done[k].listing < listing
    /\ ipc \in {"list", "take"} => Listing /\ Ordered
    /\ ipc = "list" => turn = 1
    /\ ipc = "take" => /\ unseen = {} /\ turn \in DOMAIN nodefiles
                       /\ Rounds
    /\ ipc # "failed" => \A site \in DOMAIN server_filters : server_filters[site].ok
    /\ Choice!NewestFirst

Fit(list) == list[1] \in Choice!Dirs /\ list[2] \in SUBSET QueueNames

LEMMA FitPair == \A dir \in Choice!Dirs, queues \in SUBSET QueueNames : Fit(<<dir, queues>>)
BY DEF Fit

\* Each listing is of a directory, for some queues.
LEMMA ListingsAre ==
    ASSUME NEW source \in Sources
    PROVE  /\ Len(Choice!Listings[source]) \in Nat \ {0}
           /\ \A k \in 1..Len(Choice!Listings[source]) : Fit(Choice!Listings[source][k])
<1> DEFINE L == Choice!Listings[source]
<1>1. /\ \A k \in 1..1 : k = 1
      /\ \A k \in 1..3 : k = 1 \/ k = 2 \/ k = 3
      /\ \A k \in 1..5 : k = 1 \/ k = 2 \/ k = 3 \/ k = 4 \/ k = 5
  OBVIOUS
<1>2. CASE source = "incoming"
  <2>1. /\ Len(L) = 1
        /\ L[1] = <<"incoming", {"cdns-to-tsv", "cdns-to-pcap"}>>
    BY <1>2 DEF Choice!Listings
  <2>2. Fit(L[1])
    BY <2>1 DEF Choice!Dirs, QueueNames, Fit
  <2> QED
    BY <1>1, <2>1, <2>2
<1>3. CASE source = "cbor"
  <2>1. /\ Len(L) = 1
        /\ L[1] = <<"cbor", {"cdns-to-tsv"}>>
    BY <1>3 DEF Choice!Listings
  <2>2. Fit(L[1])
    BY <2>1 DEF Choice!Dirs, QueueNames, Fit
  <2> QED
    BY <1>1, <2>1, <2>2
<1>4. CASE source = "pcap"
  <2>1. /\ Len(L) = 1
        /\ L[1] = <<"cbor", {"cdns-to-pcap"}>>
    BY <1>4 DEF Choice!Listings
  <2>2. Fit(L[1])
    BY <2>1 DEF Choice!Dirs, QueueNames, Fit
  <2> QED
    BY <1>1, <2>1, <2>2
<1>5. CASE source = "error"
  <2>1. /\ Len(L) = 3
        /\ L[1] = <<"cdns-to-tsv", {"cdns-to-tsv"}>>
        /\ L[2] = <<"cdns-to-pcap", {"cdns-to-pcap"}>>
        /\ L[3] = <<"import-tsv", {"import-tsv"}>>
    BY <1>5 DEF Choice!Listings
  <2>2. Fit(L[1]) /\ Fit(L[2]) /\ Fit(L[3])
    BY <2>1 DEF Choice!Dirs, QueueNames, Fit
  <2> QED
    BY <1>1, <2>1, <2>2
<1>6. CASE source = "pending"
  <2>1. Len(L) = 5
    BY <1>6 DEF Choice!Listings
  <2>2. Fit(L[1])
    <3>1. L[1] = <<"incoming/pending", {"cdns-to-tsv"}>>
      BY <1>6 DEF Choice!Listings
    <3>2. "incoming/pending" \in Choice!Dirs /\ {"cdns-to-tsv"} \in SUBSET QueueNames
      BY DEF Choice!Dirs, QueueNames
    <3> QED
      BY <3>1, <3>2, FitPair
  <2>3. Fit(L[2])
    <3>1. L[2] = <<"cbor/pending", {"cdns-to-tsv"}>>
      BY <1>6 DEF Choice!Listings
    <3>2. "cbor/pending" \in Choice!Dirs /\ {"cdns-to-tsv"} \in SUBSET QueueNames
      BY DEF Choice!Dirs, QueueNames
    <3> QED
      BY <3>1, <3>2, FitPair
  <2>4. Fit(L[3])
    <3>1. L[3] = <<"incoming/pending TSV", {"import-tsv"}>>
      BY <1>6 DEF Choice!Listings
    <3>2. "incoming/pending TSV" \in Choice!Dirs /\ {"import-tsv"} \in SUBSET QueueNames
      BY DEF Choice!Dirs, QueueNames
    <3> QED
      BY <3>1, <3>2, FitPair
  <2>5. Fit(L[4])
    <3>1. L[4] = <<"cbor/pending TSV", {"import-tsv"}>>
      BY <1>6 DEF Choice!Listings
    <3>2. "cbor/pending TSV" \in Choice!Dirs /\ {"import-tsv"} \in SUBSET QueueNames
      BY DEF Choice!Dirs, QueueNames
    <3> QED
      BY <3>1, <3>2, FitPair
  <2>6. Fit(L[5])
    <3>1. L[5] = <<"pcap/pending", {"cdns-to-pcap"}>>
      BY <1>6 DEF Choice!Listings
    <3>2. "pcap/pending" \in Choice!Dirs /\ {"cdns-to-pcap"} \in SUBSET QueueNames
      BY DEF Choice!Dirs, QueueNames
    <3> QED
      BY <3>1, <3>2, FitPair
  <2>7. \A k \in 1..5 : Fit(L[k])
    BY <1>1, <2>2, <2>3, <2>4, <2>5, <2>6
  <2>8. 5 \in Nat \ {0}
    OBVIOUS
  <2> QED
    BY <2>1, <2>7, <2>8
<1> QED
  BY <1>2, <1>3, <1>4, <1>5, <1>6 DEF Sources

LEMMA ChoiceStart == Choice!Init => ChoiceInv
BY DEF Choice!Init, Choice!Idle, ChoiceInv, Choice!NewestFirst

LEMMA TakenFinite ==
    ASSUME done \in Seq(Decisions), NEW node
    PROVE  /\ IsFiniteSet(Choice!Taken(node)) /\ Cardinality(Choice!Taken(node)) \in Nat
           /\ Choice!Taken(node) \subseteq 1..Len(done)
<1>1. Len(done) \in Nat /\ Choice!Taken(node) \subseteq 1..Len(done)
  BY DEF Choice!Taken
<1>2. IsFiniteSet(1..Len(done))
  BY <1>1, FS_Interval
<1> QED
  BY <1>1, <1>2, FS_Subset, FS_CardinalityType

LEMMA NothingDone == done = <<>> => Choice!NewestFirst
BY DEF Choice!NewestFirst

LEMMA StartKeepsChoice ==
    ASSUME ChoiceFormat, ChoiceInv, Choice!Start
    PROVE  ChoiceInv'
<1>1. /\ ipc' \in {"list", "failed"} /\ done' = <<>> /\ turn' = 1 /\ listing' = 1
      /\ unseen' = SiteNodes /\ nodefiles' = <<>>
      /\ server_filters' = [site \in {Global} |-> Choice!Filter(Choice!TextOf(Global))]
      /\ ipc' = "list" => Choice!Filter(Choice!TextOf(Global)).ok
  BY Zenon DEF Choice!Start
<1>2. Listing' /\ Ordered'
  BY <1>1 DEF Listing, Ordered
<1>4. store' = store /\ command'.source \in Sources
  BY DEF Choice!Start, ChoiceFormat
<1>5. listing' \in 1..Len(Choice!Listings[command'.source])
  BY <1>1, <1>4, ListingsAre
<1>3. Choice!NewestFirst'
  BY <1>1 DEF Choice!NewestFirst
<1> QED
  BY <1>1, <1>2, <1>3, <1>4, <1>5 DEF ChoiceInv

\* The list of one more node.
LEMMA ListKeepsChoice ==
    ASSUME ChoiceFormat, ChoiceInv, Choice!List
    PROVE  ChoiceInv'
<1>1. PICK node \in unseen :
        LET found == {file \in store[Choice!Directory] : file[1] = node}
        IN  /\ unseen' = unseen \ {node}
            /\ server_filters' = Choice!ReadAt(node[1], found)
            /\ nodefiles' = Append(nodefiles,
                    [node |-> node, files |-> Choice!NewestFirstOf({f \in found : Choice!InRange(f)})])
            /\ ipc' = IF node[1] \in DOMAIN server_filters' => server_filters'[node[1]].ok
                      THEN ipc ELSE "failed"
  BY DEF Choice!List
<1> DEFINE found == {file \in store[Choice!Directory] : file[1] = node}
           S == {f \in found : Choice!InRange(f)}
           files == Choice!NewestFirstOf(S)
<1>2. /\ ipc = "list" /\ UNCHANGED <<done, turn, listing>> /\ turn = 1
      /\ \A k \in DOMAIN done : done[k].listing < listing
      /\ Listing /\ Ordered
  BY DEF Choice!List, ChoiceInv
<1>3. /\ unseen' = unseen \ {node} /\ nodefiles' = Append(nodefiles, [node |-> node, files |-> files])
      /\ server_filters' = Choice!ReadAt(node[1], found)
      /\ ipc' = IF node[1] \in DOMAIN server_filters' => server_filters'[node[1]].ok
                THEN "list" ELSE "failed"
  BY <1>1, <1>2
<1>4. node \in SiteNodes /\ S \in SUBSET FilesOf(node)
  <2>1. Choice!Directory \in Choice!Dirs
    BY <1>2, ListingsAre DEF ChoiceInv, Choice!Directory, Fit
  <2> QED
    BY <1>2, <2>1 DEF ChoiceInv, Listing, FilesOf
<1> HIDE DEF S
<1>5. /\ files \in Seq(FilesOf(node))
      /\ \A i, j \in DOMAIN files : i < j => Choice!DateOf(files[i]) > Choice!DateOf(files[j])
  <2>1. files \in Seq(S) /\ \A i, j \in DOMAIN files :
            i < j => Choice!DateOf(files[i]) > Choice!DateOf(files[j])
    BY <1>4 DEF ChoiceFormat
  <2> QED
    BY <1>4, <2>1
<1>6. files \in Seq(Choice!Files)
  BY <1>5 DEF FilesOf
<1> HIDE DEF files, found
<1> DEFINE new == [node |-> node, files |-> files]
           n == Len(nodefiles)
<1>7. /\ n \in Nat /\ DOMAIN nodefiles = 1..n /\ DOMAIN nodefiles' = 1..(n + 1)
      /\ nodefiles'[n + 1] = new /\ \A k \in 1..n : nodefiles'[k] = nodefiles[k]
      /\ nodefiles' \in Seq([node : SiteNodes, files : Seq(Choice!Files)])
  <2> DEFINE Lists == [node : SiteNodes, files : Seq(Choice!Files)]
  <2>1. nodefiles \in Seq(Lists) /\ new \in Lists
    BY <1>2, <1>4, <1>6 DEF Listing
  <2> HIDE DEF Lists, new
  <2>2. nodefiles' = Append(nodefiles, new)
    BY <1>3 DEF new
  <2>3. nodefiles' \in Seq(Lists)
    BY <2>1, <2>2
  <2>4. /\ n \in Nat /\ DOMAIN nodefiles = 1..n /\ DOMAIN nodefiles' = 1..(n + 1)
        /\ nodefiles'[n + 1] = new /\ \A k \in 1..n : nodefiles'[k] = nodefiles[k]
    BY <2>1, <2>2
  <2> QED
    BY <2>3, <2>4 DEF Lists
<1>8. new.node = node /\ new.files = files
  OBVIOUS
<1> HIDE DEF new, n
<1>9. \A k \in 1..(n + 1) : k \in DOMAIN nodefiles \/ k = n + 1
  BY <1>7
<1>10. \A k \in 1..(n + 1) :
        /\ nodefiles'[k].files \in Seq(FilesOf(nodefiles'[k].node))
        /\ nodefiles'[k].node \notin unseen'
        /\ \A i, j \in DOMAIN nodefiles'[k].files :
            i < j => Choice!DateOf(nodefiles'[k].files[i]) > Choice!DateOf(nodefiles'[k].files[j])
  <2> SUFFICES ASSUME NEW k \in 1..(n + 1)
               PROVE  /\ nodefiles'[k].files \in Seq(FilesOf(nodefiles'[k].node))
                      /\ nodefiles'[k].node \notin unseen'
                      /\ \A i, j \in DOMAIN nodefiles'[k].files :
                            i < j => Choice!DateOf(nodefiles'[k].files[i])
                                        > Choice!DateOf(nodefiles'[k].files[j])
    OBVIOUS
  <2>1. CASE k \in DOMAIN nodefiles
    <3>1. nodefiles'[k] = nodefiles[k]
      BY <1>7, <2>1
    <3> QED
      BY <1>2, <1>3, <2>1, <3>1 DEF Listing, Ordered
  <2>2. CASE k = n + 1
    BY <1>3, <1>5, <1>7, <1>8, <2>2
  <2> QED
    BY <1>9, <2>1, <2>2
<1>11. ASSUME NEW j \in 1..(n + 1), NEW k \in 1..(n + 1), nodefiles'[j].node = nodefiles'[k].node
       PROVE  j = k
  <2>1. \A i \in DOMAIN nodefiles : nodefiles'[i] = nodefiles[i] /\ nodefiles[i].node # node
    BY <1>2, <1>7 DEF Listing
  <2>2. nodefiles'[n + 1].node = node
    BY <1>7, <1>8
  <2> QED
    BY <1>2, <1>9, <1>11, <2>1, <2>2 DEF Listing
<1>12. \A m \in SiteNodes \ unseen' : \E k \in 1..(n + 1) : nodefiles'[k].node = m
  <2>1. n + 1 \in 1..(n + 1) /\ \A k \in DOMAIN nodefiles : k \in 1..(n + 1) /\ nodefiles'[k] = nodefiles[k]
    BY <1>7
  <2> QED
    BY <1>2, <1>3, <1>7, <1>8, <2>1 DEF Listing
<1>13. Listing'
  BY <1>2, <1>3, <1>7, <1>10, <1>11, <1>12 DEF Listing
<1>14. Ordered'
  <2>1. \A d \in DOMAIN done' : done'[d].listing # listing'
    BY <1>2 DEF ChoiceInv
  <2> QED
    BY <1>7, <1>10, <2>1 DEF Ordered, Choice!DateOf
<1>15. ipc' = "list" => \A site \in DOMAIN server_filters' : server_filters'[site].ok
  <2>1. \A site \in DOMAIN server_filters : server_filters[site].ok
    BY <1>2 DEF ChoiceInv
  <2>2. CASE server_filters' = server_filters
    BY <2>1, <2>2
  <2>3. CASE server_filters' # server_filters
    <3>1. /\ DOMAIN server_filters' = DOMAIN server_filters \cup {node[1]}
          /\ \A site \in DOMAIN server_filters' :
                site # node[1] => server_filters'[site] = server_filters[site]
      BY <1>3, <2>3 DEF Choice!ReadAt
    <3> QED
      BY <1>3, <2>1, <3>1
  <2> QED
    BY <2>2, <2>3
<1>16. store' = store /\ command' = command /\ ipc' \in {"list", "failed"}
  BY <1>3 DEF Choice!List
<1> QED
  BY <1>2, <1>13, <1>14, <1>15, <1>16 DEF ChoiceInv, Choice!NewestFirst

LEMMA ListedKeepsChoice ==
    ASSUME ChoiceFormat, ChoiceInv, Choice!Listed
    PROVE  ChoiceInv'
<1>1. /\ ipc = "list" /\ ipc' = "take" /\ unseen = {} /\ unseen' = {} /\ turn = 1
      /\ \A k \in DOMAIN done : done[k].listing < listing
      /\ UNCHANGED <<store, command, server_filters, listing, nodefiles, turn, done>>
      /\ Listing /\ Ordered
  BY DEF Choice!Listed, ChoiceInv
<1>2. Listing' /\ Ordered' /\ Choice!NewestFirst'
  <2>1. Listing'
    BY <1>1 DEF Listing
  <2>2. Ordered'
    BY <1>1 DEF Ordered
  <2> QED
    BY <1>1, <2>1, <2>2 DEF Choice!NewestFirst, ChoiceInv
<1>3. 1 \in DOMAIN nodefiles
  <2>1. nodefiles \in Seq([node : SiteNodes, files : Seq(Choice!Files)])
    BY <1>1 DEF Listing
  <2>2. nodefiles # <<>>
    BY <1>1 DEF Listing, ChoiceFormat
  <2> QED
    BY <2>1, <2>2
<1>4. Rounds'
  <2>1. \A node : Choice!Taken(node)' = {}
    BY <1>1 DEF Choice!Taken, ChoiceInv
  <2>2. Cardinality({}) = 0
    BY FS_EmptySet
  <2>3. \A k \in DOMAIN nodefiles : ~ (k < turn)
    BY <1>1 DEF Listing
  <2>4. \A k \in DOMAIN nodefiles' :
            /\ Cardinality(Choice!Taken(nodefiles[k].node)') =< Due(k, turn', 0)
            /\ nodefiles'[k].files # <<>> =>
                Cardinality(Choice!Taken(nodefiles[k].node)') = Due(k, turn', 0)
    <3>1. nodefiles' = nodefiles /\ turn' = turn
      BY <1>1
    <3>2. \A k \in DOMAIN nodefiles : Due(k, turn', 0) = 0
      BY <2>3, <3>1 DEF Due
    <3>3. \A k : Cardinality(Choice!Taken(nodefiles[k].node)') = 0
      BY <2>1, <2>2
    <3> QED
      BY <3>1, <3>2, <3>3
  <2>5. 0 \in Nat
    OBVIOUS
  <2> QED
    BY <1>1, <2>4, <2>5 DEF Rounds
<1> QED
  BY <1>1, <1>2, <1>3, <1>4 DEF ChoiceInv

\* The turn u of round q comes after the turn t of round r.
NextDue(n, t, r, u, q) ==
    \A k \in 1..n : Due(k, u, q) = IF k = t THEN r + 1 ELSE Due(k, t, r)

\* A turn that is over: the nodes before the next one have had theirs in this round.
LEMMA TurnOver ==
    ASSUME NEW n \in Nat, NEW t \in 1..n, NEW r \in Nat, NEW u, u = (t % n) + 1
    PROVE  /\ u \in 1..n
           /\ \E q \in Nat : NextDue(n, t, r, u, q)
<1> USE DEF NextDue
<1>1. CASE t = n
  <2>1. u = 1
    BY <1>1
  <2>2. r + 1 \in Nat /\ \A k \in 1..n : Due(k, 1, r + 1) = IF k = t THEN r + 1 ELSE Due(k, t, r)
    BY <1>1 DEF Due
  <2> QED
    BY <2>1, <2>2
<1>2. CASE t # n
  <2>1. u = t + 1
    BY <1>2
  <2>2. \A k \in 1..n : Due(k, t + 1, r) = IF k = t THEN r + 1 ELSE Due(k, t, r)
    BY DEF Due
  <2> QED
    BY <2>1, <2>2
<1> QED
  BY <1>1, <1>2

LEMMA SkipKeepsChoice ==
    ASSUME ChoiceFormat, ChoiceInv, Choice!Skip
    PROVE  ChoiceInv'
<1>1. /\ ipc = "take" /\ ipc' = "take" /\ nodefiles[turn].files = <<>>
      /\ turn' = (turn % Len(nodefiles)) + 1
      /\ UNCHANGED <<store, command, server_filters, listing, unseen, nodefiles, done>>
      /\ Listing /\ Ordered /\ Rounds /\ unseen = {} /\ turn \in DOMAIN nodefiles
  BY DEF Choice!Skip, Choice!NextTurn, ChoiceInv
<1>2. Listing' /\ Ordered' /\ Choice!NewestFirst'
  <2>1. Listing'
    BY <1>1 DEF Listing
  <2>2. Ordered'
    BY <1>1 DEF Ordered
  <2>3. Choice!NewestFirst'
    BY <1>1 DEF Choice!NewestFirst, ChoiceInv
  <2> QED
    BY <2>1, <2>2, <2>3
<1> DEFINE n == Len(nodefiles)
<1>3. n \in Nat /\ DOMAIN nodefiles = 1..n
  BY <1>1 DEF Listing
<1>4. \A node : Choice!Taken(node)' = Choice!Taken(node)
  BY <1>1 DEF Choice!Taken
<1>5. PICK r \in Nat : \A k \in DOMAIN nodefiles :
        /\ Cardinality(Choice!Taken(nodefiles[k].node)) =< Due(k, turn, r)
        /\ nodefiles[k].files # <<>> =>
            Cardinality(Choice!Taken(nodefiles[k].node)) = Due(k, turn, r)
  BY <1>1 DEF Rounds
<1> HIDE DEF n
<1>6. /\ turn' \in 1..n
      /\ \E q \in Nat : NextDue(n, turn, r, turn', q)
  <2>1. turn \in 1..n /\ turn' = (turn % n) + 1
    BY <1>1, <1>3 DEF n
  <2> QED
    BY <1>3, <2>1, TurnOver
<1>7. PICK q \in Nat : NextDue(n, turn, r, turn', q)
  BY <1>6
<1>8. ASSUME NEW k \in DOMAIN nodefiles
      PROVE  /\ Cardinality(Choice!Taken(nodefiles[k].node)) =< Due(k, turn', q)
             /\ nodefiles[k].files # <<>> =>
                    Cardinality(Choice!Taken(nodefiles[k].node)) = Due(k, turn', q)
  <2>1. Due(k, turn', q) = IF k = turn THEN r + 1 ELSE Due(k, turn, r)
    BY <1>3, <1>7 DEF NextDue
  <2>2. Cardinality(Choice!Taken(nodefiles[k].node)) \in Nat
    BY TakenFinite DEF ChoiceInv
  <2>3. CASE k = turn
    BY <1>1, <1>3, <1>5, <2>1, <2>2, <2>3 DEF Due
  <2>4. CASE k # turn
    BY <1>5, <2>1, <2>4
  <2> QED
    BY <2>3, <2>4
<1>9. Rounds'
  BY <1>1, <1>4, <1>8 DEF Rounds
<1> QED
  BY <1>1, <1>2, <1>3, <1>6, <1>9 DEF ChoiceInv

\* The file whose turn it is.
LEMMA TakeKeepsChoice ==
    ASSUME ChoiceFormat, ChoiceInv, Choice!Take
    PROVE  ChoiceInv'
<1> DEFINE n == Len(nodefiles)
           left == nodefiles[turn].files
           file == Head(left)
           node == nodefiles[turn].node
           decision == [file |-> file, listing |-> listing,
                        queues |-> {queue \in Choice!Queues : Choice!Wanted(queue, file)}]
<1>1. /\ ipc = "take" /\ ipc' = "take" /\ left # <<>>
      /\ nodefiles' = [nodefiles EXCEPT ![turn].files = Tail(@)]
      /\ done' = Append(done, decision)
      /\ store' \in Choice!Afterwards(file)
      /\ turn' = (turn % n) + 1
      /\ UNCHANGED <<command, server_filters, listing, unseen>>
  BY DEF Choice!Take, Choice!NextTurn
<1>2. Listing /\ Ordered /\ Rounds /\ unseen = {} /\ turn \in DOMAIN nodefiles
  BY <1>1 DEF ChoiceInv
<1>3. n \in Nat /\ DOMAIN nodefiles = 1..n /\ DOMAIN nodefiles' = 1..n
  BY <1>1, <1>2 DEF Listing
<1>4. /\ node \in SiteNodes /\ left \in Seq(FilesOf(node))
      /\ file \in FilesOf(node) /\ Tail(left) \in Seq(FilesOf(node))
  <2>1. nodefiles[turn] \in [node : SiteNodes, files : Seq(Choice!Files)]
    BY <1>2, <1>3, ElementOf DEF Listing
  <2>2. left \in Seq(FilesOf(node))
    BY <1>2 DEF Listing
  <2> HIDE DEF left
  <2>3. Head(left) \in FilesOf(node) /\ Tail(left) \in Seq(FilesOf(node))
    BY <1>1, <2>2
  <2> QED
    BY <2>1, <2>2, <2>3
<1>5. file \in Choice!Files /\ file[1] = node
  BY <1>4 DEF FilesOf
<1>6. /\ \A k \in 1..n : nodefiles'[k].node = nodefiles[k].node
      /\ \A k \in 1..n : k # turn => nodefiles'[k] = nodefiles[k]
      /\ nodefiles'[turn].files = Tail(left)
      /\ nodefiles' \in Seq([node : SiteNodes, files : Seq(Choice!Files)])
  <2> DEFINE Lists == [node : SiteNodes, files : Seq(Choice!Files)]
  <2>1. nodefiles \in Seq(Lists) /\ \A k \in 1..n : nodefiles[k] \in Lists
    <3>1. nodefiles \in Seq(Lists)
      BY <1>2 DEF Listing
    <3> HIDE DEF Lists
    <3> QED
      BY <3>1, <1>3, ElementOf
  <2>2. Tail(left) \in Seq(Choice!Files)
    BY <1>4 DEF FilesOf
  <2>3. \A k \in 1..n : nodefiles'[k] =
            IF k = turn THEN [nodefiles[turn] EXCEPT !.files = Tail(left)] ELSE nodefiles[k]
    BY <1>1, <1>2, <1>3
  <2>4. [nodefiles[turn] EXCEPT !.files = Tail(left)] \in Lists
        /\ [nodefiles[turn] EXCEPT !.files = Tail(left)].node = node
        /\ [nodefiles[turn] EXCEPT !.files = Tail(left)].files = Tail(left)
    BY <1>2, <1>3, <2>1, <2>2
  <2>5. \A k \in 1..n : nodefiles'[k] \in Lists
    BY <2>1, <2>3, <2>4
  <2> HIDE DEF Lists
  <2>7. nodefiles' = [k \in 1..n |-> nodefiles'[k]]
    BY <1>1, <1>2, <1>3
  <2>6. nodefiles' \in Seq(Lists)
    BY <1>3, <2>5, <2>7, AllElements
  <2> QED
    BY <1>2, <1>3, <2>3, <2>4, <2>6 DEF Lists
<1>7. decision \in Decisions /\ decision.listing = listing
  <2>1. Choice!Queues \in SUBSET QueueNames /\ listing \in Nat
    BY <1>1, ListingsAre DEF ChoiceInv, Choice!Queues, Fit
  <2> QED
    BY <1>5, <2>1 DEF Decisions
<1> DEFINE last == Len(done) + 1
<1>8. /\ done \in Seq(Decisions)
      /\ done' \in Seq(Decisions)
      /\ last \in Nat /\ DOMAIN done = 1..(last - 1) /\ DOMAIN done' = 1..last
      /\ done'[last].file = file /\ done'[last].listing = listing
      /\ \A d \in DOMAIN done : done'[d] = done[d]
  <2>1. done \in Seq(Decisions) /\ decision \in Decisions /\ decision.file = file
    BY <1>7 DEF ChoiceInv
  <2> HIDE DEF decision
  <2>2. /\ done' \in Seq(Decisions) /\ last \in Nat /\ DOMAIN done = 1..(last - 1)
        /\ DOMAIN done' = 1..last /\ done'[last] = decision
        /\ \A d \in DOMAIN done : done'[d] = done[d]
    BY <1>1, <2>1
  <2> QED
    BY <1>7, <2>1, <2>2
<1>9. store' \in [Choice!Dirs -> SUBSET Choice!Files]
  <2>1. store \in [Choice!Dirs -> SUBSET Choice!Files]
    BY DEF ChoiceInv
  <2>2. CASE store' = store
    BY <2>1, <2>2
  <2>3. CASE store' = [store EXCEPT ![Choice!Directory] = @ \ {file}]
    BY <2>1, <2>3
  <2>4. CASE store' = [store EXCEPT !["incoming"] = @ \ {file}, !["cbor"] = @ \cup {file}]
    BY <1>5, <2>1, <2>4
  <2> QED
    BY <1>1, <2>2, <2>3, <2>4 DEF Choice!Afterwards
<1>10. /\ left \in Seq(Choice!Files) /\ 1 \in DOMAIN left /\ left[1] = file
       /\ \A i \in DOMAIN Tail(left) : i + 1 \in DOMAIN left /\ Tail(left)[i] = left[i + 1] /\ 1 < i + 1
  <2>1. left \in Seq(Choice!Files)
    BY <1>4 DEF FilesOf
  <2> HIDE DEF left
  <2> QED
    BY <1>1, <2>1
<1>11. \A j, k \in 1..n : nodefiles[j].node = nodefiles[k].node => j = k
  BY <1>2, <1>3 DEF Listing
<1> HIDE DEF n, left, file, node, decision, last
<1>12. node = nodefiles[turn].node /\ left = nodefiles[turn].files /\ turn \in 1..n
  BY <1>2, <1>3 DEF node, left
<1>13. Listing'
  <2>1. \A k \in 1..n : nodefiles'[k].files \in Seq(FilesOf(nodefiles'[k].node))
    BY <1>2, <1>3, <1>4, <1>6, <1>12 DEF Listing
  <2>2. unseen' = {} /\ unseen' \subseteq SiteNodes
    BY <1>1, <1>2
  <2>3. \A j, k \in 1..n : nodefiles'[j].node = nodefiles'[k].node => j = k
    BY <1>6, <1>11
  <2>4. \A m \in SiteNodes : \E k \in 1..n : nodefiles[k].node = m
    BY <1>2, <1>3 DEF Listing
  <2>5. \A m \in SiteNodes \ unseen' : \E k \in 1..n : nodefiles'[k].node = m
    BY <1>6, <2>4
  <2> QED
    BY <1>3, <1>6, <2>1, <2>2, <2>3, <2>5 DEF Listing
<1>14. \A i, j \in DOMAIN left : i < j => Choice!DateOf(left[i]) > Choice!DateOf(left[j])
  BY <1>2, <1>12 DEF Ordered
<1>15. \A d \in DOMAIN done, i \in DOMAIN left :
        done[d].listing = listing /\ done[d].file[1] = node => Choice!DateOf(done[d].file) > Choice!DateOf(left[i])
  BY <1>2, <1>12 DEF Ordered
<1>16. \A d \in 1..last : d \in DOMAIN done \/ d = last
  BY <1>8
<1>17. ASSUME NEW k \in 1..n
       PROVE  /\ \A i, j \in DOMAIN nodefiles'[k].files :
                    i < j => Choice!DateOf(nodefiles'[k].files[i]) > Choice!DateOf(nodefiles'[k].files[j])
              /\ \A d \in 1..last, i \in DOMAIN nodefiles'[k].files :
                    done'[d].listing = listing /\ done'[d].file[1] = nodefiles'[k].node =>
                        Choice!DateOf(done'[d].file) > Choice!DateOf(nodefiles'[k].files[i])
  <2>1. CASE k = turn
    <3>1. nodefiles'[k].files = Tail(left) /\ nodefiles'[k].node = node
      BY <1>6, <1>12, <2>1
    <3>2. ASSUME NEW i \in DOMAIN Tail(left), NEW j \in DOMAIN Tail(left), i < j
          PROVE  Choice!DateOf(Tail(left)[i]) > Choice!DateOf(Tail(left)[j])
      <4>1. i + 1 \in DOMAIN left /\ j + 1 \in DOMAIN left /\ i + 1 < j + 1
            /\ Tail(left)[i] = left[i + 1] /\ Tail(left)[j] = left[j + 1]
        <5>1. i \in Nat /\ j \in Nat
          BY <1>4
        <5> QED
          BY <1>10, <3>2, <5>1
      <4> QED
        BY <1>14, <4>1
    <3>3. ASSUME NEW d \in 1..last, NEW i \in DOMAIN Tail(left),
                 done'[d].listing = listing, done'[d].file[1] = node
          PROVE  Choice!DateOf(done'[d].file) > Choice!DateOf(Tail(left)[i])
      <4>1. i + 1 \in DOMAIN left /\ 1 < i + 1 /\ Tail(left)[i] = left[i + 1]
        BY <1>10
      <4>2. CASE d = last
        BY <1>8, <1>10, <1>14, <4>1, <4>2
      <4>3. CASE d \in DOMAIN done
        <5>1. done'[d] = done[d]
          BY <1>8, <4>3
        <5> QED
          BY <1>15, <3>3, <4>1, <4>3, <5>1
      <4> QED
        BY <1>16, <4>2, <4>3
    <3> QED
      BY <3>1, <3>2, <3>3
  <2>2. CASE k # turn
    <3>1. nodefiles'[k] = nodefiles[k] /\ nodefiles[k].node # node /\ k \in DOMAIN nodefiles
      BY <1>3, <1>6, <1>11, <1>12, <2>2
    <3>2. ASSUME NEW d \in 1..last, NEW i \in DOMAIN nodefiles[k].files,
                 done'[d].listing = listing, done'[d].file[1] = nodefiles[k].node
          PROVE  Choice!DateOf(done'[d].file) > Choice!DateOf(nodefiles[k].files[i])
      <4>1. d \in DOMAIN done
        BY <1>5, <1>8, <1>16, <3>1, <3>2
      <4>2. done'[d] = done[d]
        BY <1>8, <4>1
      <4> QED
        BY <1>2, <3>1, <3>2, <4>1, <4>2 DEF Ordered
    <3>3. \A i, j \in DOMAIN nodefiles[k].files :
            i < j => Choice!DateOf(nodefiles[k].files[i]) > Choice!DateOf(nodefiles[k].files[j])
      BY <1>2, <3>1 DEF Ordered
    <3> QED
      BY <3>1, <3>2, <3>3
  <2> QED
    BY <2>1, <2>2
<1>18. Ordered'
  <2>1. listing' = listing /\ DOMAIN nodefiles' = 1..n /\ DOMAIN done' = 1..last
    BY <1>1, <1>3, <1>8
  <2> QED
    BY <1>17, <2>1 DEF Ordered, Choice!DateOf
<1>19. Choice!NewestFirst'
  <2> SUFFICES ASSUME NEW i \in 1..last, NEW j \in 1..last, i < j,
                      done'[i].listing = done'[j].listing, done'[i].file[1] = done'[j].file[1]
               PROVE  Choice!DateOf(done'[i].file) > Choice!DateOf(done'[j].file)
    BY <1>8 DEF Choice!NewestFirst, Choice!DateOf
  <2>1. i \in DOMAIN done /\ done'[i] = done[i]
    BY <1>8
  <2>2. CASE j = last
    BY <1>5, <1>8, <1>10, <1>15, <2>1, <2>2
  <2>3. CASE j \in DOMAIN done
    <3>1. done'[j] = done[j]
      BY <1>8, <2>3
    <3> QED
      BY <2>1, <2>3, <3>1 DEF ChoiceInv, Choice!NewestFirst
  <2> QED
    BY <1>16, <2>2, <2>3
<1>20. PICK r \in Nat : \A k \in DOMAIN nodefiles :
        /\ Cardinality(Choice!Taken(nodefiles[k].node)) =< Due(k, turn, r)
        /\ nodefiles[k].files # <<>> =>
            Cardinality(Choice!Taken(nodefiles[k].node)) = Due(k, turn, r)
  BY <1>2 DEF Rounds
<1>21. turn' \in 1..n /\ \E q \in Nat : NextDue(n, turn, r, turn', q)
  BY <1>1, <1>3, <1>12, TurnOver
<1>22. PICK q \in Nat : NextDue(n, turn, r, turn', q)
  BY <1>21
<1>23. ASSUME NEW k \in 1..n
       PROVE  /\ Cardinality(Choice!Taken(nodefiles[k].node)') =< Due(k, turn', q)
              /\ nodefiles'[k].files # <<>> =>
                    Cardinality(Choice!Taken(nodefiles[k].node)') = Due(k, turn', q)
  <2>1. Due(k, turn', q) = IF k = turn THEN r + 1 ELSE Due(k, turn, r)
    BY <1>22 DEF NextDue
  <2>2. /\ IsFiniteSet(Choice!Taken(nodefiles[k].node))
        /\ Cardinality(Choice!Taken(nodefiles[k].node)) \in Nat
        /\ Choice!Taken(nodefiles[k].node) \subseteq 1..Len(done)
    BY <1>8, TakenFinite
  <2>3. CASE k = turn
    <3>1. Choice!Taken(nodefiles[k].node)' = Choice!Taken(nodefiles[k].node) \cup {last}
      <4>1. nodefiles'[k].node = node /\ nodefiles[k].node = node
        BY <1>6, <1>12, <2>3
      <4>2. Choice!Taken(nodefiles[k].node)' = {d \in 1..last :
                    done'[d].listing = listing /\ done'[d].file[1] = node}
        BY <1>1, <1>8, <4>1 DEF Choice!Taken
      <4>3. Choice!Taken(nodefiles[k].node) = {d \in DOMAIN done :
                    done[d].listing = listing /\ done[d].file[1] = node}
        BY <4>1 DEF Choice!Taken
      <4>4. \A d : d \in 1..last <=> d \in DOMAIN done \/ d = last
        <5>1. last \in Nat \ {0} /\ DOMAIN done = 1..(last - 1)
          BY <1>8 DEF last
        <5> QED
          BY <5>1
      <4>5. done'[last].listing = listing /\ done'[last].file[1] = node /\ \A d \in DOMAIN done : done'[d] = done[d]
        BY <1>5, <1>8
      <4> QED
        BY <4>2, <4>3, <4>4, <4>5
    <3>2. last \notin Choice!Taken(nodefiles[k].node)
      BY <1>8 DEF Choice!Taken
    <3>3. Cardinality(Choice!Taken(nodefiles[k].node)') = Cardinality(Choice!Taken(nodefiles[k].node)) + 1
      BY <2>2, <3>1, <3>2, FS_AddElement
    <3>4. Cardinality(Choice!Taken(nodefiles[k].node)) = r
      BY <1>1, <1>3, <1>12, <1>20, <2>3 DEF Due
    <3> QED
      BY <2>1, <2>3, <3>3, <3>4
  <2>4. CASE k # turn
    <3>1. nodefiles'[k] = nodefiles[k] /\ nodefiles[k].node # node /\ k \in DOMAIN nodefiles
      BY <1>3, <1>6, <1>11, <1>12, <2>4
    <3>2. Choice!Taken(nodefiles[k].node)' = Choice!Taken(nodefiles[k].node)
      BY <1>1, <1>5, <1>8, <1>16, <3>1 DEF Choice!Taken
    <3> QED
      BY <1>20, <2>1, <2>4, <3>1, <3>2
  <2> QED
    BY <2>3, <2>4
<1>24. Rounds'
  BY <1>1, <1>3, <1>6, <1>23 DEF Rounds, Choice!Taken
<1>25. \A d \in DOMAIN done' : done'[d].listing <= listing'
  <2>1. \A d \in DOMAIN done : done[d].listing <= listing
    BY DEF ChoiceInv
  <2>2. listing \in Nat /\ listing' = listing
    BY <1>1 DEF ChoiceInv
  <2> QED
    BY <1>8, <1>16, <2>1, <2>2
<1> QED
  BY <1>1, <1>2, <1>3, <1>8, <1>9, <1>13, <1>18, <1>19, <1>21, <1>24, <1>25 DEF ChoiceInv

\* The next listing of the command: nothing of it has been taken.
LEMMA NextListingKeepsChoice ==
    ASSUME ChoiceFormat, ChoiceInv, Choice!NextListing
    PROVE  ChoiceInv'
<1>1. /\ ipc = "take" /\ ipc' = "list" /\ turn' = 1 /\ listing' = listing + 1
      /\ unseen' = SiteNodes /\ nodefiles' = <<>>
      /\ listing # Len(Choice!Listings[command.source])
      /\ UNCHANGED <<store, command, server_filters, done>>
  BY DEF Choice!NextListing, Choice!AllTaken, Choice!LastListing
<1>2. Listing' /\ Ordered'
  BY <1>1 DEF Listing, Ordered
<1>3. /\ listing \in 1..Len(Choice!Listings[command.source])
      /\ Len(Choice!Listings[command.source]) \in Nat
  BY <1>1, ListingsAre DEF ChoiceInv
<1>4. listing' \in 1..Len(Choice!Listings[command'.source])
  BY <1>1, <1>3
<1>5. \A k \in DOMAIN done : done[k].listing < listing + 1
  <2>1. \A k \in DOMAIN done : done[k].listing \in Nat /\ done[k].listing <= listing
    <3>1. \A k \in DOMAIN done : done[k] \in Decisions
      BY ElementOf DEF ChoiceInv
    <3> QED
      BY <3>1 DEF ChoiceInv, Decisions
  <2> QED
    BY <1>3, <2>1
<1>6. listing' \in Nat /\ \A k \in DOMAIN done' : done'[k].listing < listing' /\ done'[k].listing <= listing'
  <2>1. listing' \in Nat /\ \A k \in DOMAIN done : done[k].listing \in Nat
    <3>1. \A k \in DOMAIN done : done[k] \in Decisions
      BY ElementOf DEF ChoiceInv
    <3> QED
      BY <1>1, <1>3, <3>1 DEF Decisions
  <2> QED
    BY <1>1, <1>5, <2>1
<1>7. Choice!NewestFirst'
  BY <1>1 DEF ChoiceInv, Choice!NewestFirst
<1>8. /\ store' \in [Choice!Dirs -> SUBSET Choice!Files] /\ command'.source \in Sources
      /\ done' \in Seq(Decisions)
      /\ \A site \in DOMAIN server_filters' : server_filters'[site].ok
  BY <1>1 DEF ChoiceInv
<1> QED
  BY <1>1, <1>2, <1>4, <1>6, <1>7, <1>8 DEF ChoiceInv

LEMMA EndKeepsChoice ==
    ASSUME ChoiceInv, Choice!End
    PROVE  ChoiceInv'
<1>1. /\ ipc' = "idle" /\ done' = <<>> /\ store' = store /\ listing' = 1
      /\ DOMAIN server_filters' = {}
  BY DEF Choice!End
<1> QED
  BY <1>1 DEF ChoiceInv, Choice!NewestFirst

\* What others do does not disturb the command.
LEMMA OthersKeepChoice ==
    ASSUME ChoiceFormat, ChoiceInv, Choice!Edit \/ Choice!Arrive \/ UNCHANGED Choice!vars
    PROVE  ChoiceInv'
<1>1. /\ UNCHANGED <<ipc, command, done, listing, unseen, nodefiles, turn, server_filters>>
      /\ store' \in [Choice!Dirs -> SUBSET Choice!Files]
  <2>1. store \in [Choice!Dirs -> SUBSET Choice!Files] /\ Arriving \subseteq Choice!Files
    BY DEF ChoiceInv, ChoiceFormat
  <2>2. CASE Choice!Edit
    BY <2>1, <2>2 DEF Choice!Edit
  <2>3. CASE Choice!Arrive
    <3>1. PICK file \in Arriving : store' = [store EXCEPT !["incoming"] = @ \cup {file}]
      BY <2>3 DEF Choice!Arrive
    <3> QED
      BY <2>1, <2>3, <3>1 DEF Choice!Arrive
  <2>4. CASE UNCHANGED Choice!vars
    BY <2>1, <2>4 DEF Choice!vars
  <2> QED
    BY <2>2, <2>3, <2>4
<1>2. /\ Listing => Listing'
      /\ Choice!NewestFirst'
  BY <1>1 DEF Listing, Choice!NewestFirst, ChoiceInv
<1>3. Ordered => Ordered'
  BY <1>1 DEF Ordered
<1>4. Rounds => Rounds'
  BY <1>1 DEF Rounds, Choice!Taken
<1> QED
  BY <1>1, <1>2, <1>3, <1>4 DEF ChoiceInv

LEMMA NextChoiceInv ==
    ASSUME ChoiceFormat, ChoiceInv, [Choice!Next]_(Choice!vars)
    PROVE  ChoiceInv'
BY StartKeepsChoice, ListKeepsChoice, ListedKeepsChoice, SkipKeepsChoice, TakeKeepsChoice,
   NextListingKeepsChoice, EndKeepsChoice, OthersKeepChoice DEF Choice!Next

LEMMA ChoiceInvariant == ChoiceFormat /\ Choice!Spec => []ChoiceInv
<1> SUFFICES ASSUME ChoiceFormat PROVE Choice!Spec => []ChoiceInv
  OBVIOUS
<1>1. ChoiceInv /\ [Choice!Next]_(Choice!vars) => ChoiceInv'
  BY NextChoiceInv
<1> QED
  BY ChoiceStart, <1>1, PTL DEF Choice!Spec

\* The module's cardinality is the cardinality.
LEMMA SameCardinality == \A S : Choice!Cardinality(S) = Cardinality(S)
BY DEF Choice!Cardinality, Cardinality

\* A dsv-import that meets a filter with an error stops there: it has decided nothing of the
\* listing that it is at, and decides nothing more, whatever the filters say and whenever
\* they are edited.  The sources error and pending have earlier listings.
THEOREM BadFilterDecidesNothing == ChoiceFormat /\ Choice!Spec => []Choice!BadFilterStops
<1>1. ChoiceInv => Choice!BadFilterStops
  BY DEF ChoiceInv, Choice!BadFilterStops
<1> QED
  BY <1>1, ChoiceInvariant, PTL

\* The files of a node are taken from the most recent to the oldest, with any number of nodes
\* and files, while files arrive.
THEOREM MostRecentFirst == ChoiceFormat /\ Choice!Spec => []Choice!NewestFirst
<1>1. ChoiceInv => Choice!NewestFirst
  BY DEF ChoiceInv
<1> QED
  BY <1>1, ChoiceInvariant, PTL

\* No node starves another: of two nodes that both have files left, none has had two more
\* files taken than the other.
THEOREM NoNodeStarves == ChoiceFormat /\ Choice!Spec => []Choice!InTurn
<1>1. ASSUME ChoiceInv PROVE Choice!InTurn
  <2> SUFFICES ASSUME NEW i \in DOMAIN nodefiles, NEW j \in DOMAIN nodefiles,
                      nodefiles[i].files # <<>>, ipc = "take"
               PROVE  Cardinality(Choice!Taken(nodefiles[j].node))
                        =< Cardinality(Choice!Taken(nodefiles[i].node)) + 1
    BY SameCardinality DEF Choice!InTurn
  <2>1. PICK r \in Nat : \A k \in DOMAIN nodefiles :
        /\ Cardinality(Choice!Taken(nodefiles[k].node)) =< Due(k, turn, r)
        /\ nodefiles[k].files # <<>> =>
            Cardinality(Choice!Taken(nodefiles[k].node)) = Due(k, turn, r)
    BY <1>1 DEF ChoiceInv, Rounds
  <2>2. /\ Cardinality(Choice!Taken(nodefiles[i].node)) \in Nat
        /\ Cardinality(Choice!Taken(nodefiles[j].node)) \in Nat
    BY <1>1, TakenFinite DEF ChoiceInv
  <2> QED
    BY <2>1, <2>2 DEF Due
<1> QED
  BY <1>1, ChoiceInvariant, PTL
====
