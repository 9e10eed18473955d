---------------------------- MODULE PruneProofs ----------------------------
(***************************************************************************)
(* dsv-prune drops nothing that is not over the age, begins with the       *)
(* oldest, and leaves nothing: for any number of servers, tables and days, *)
(* whatever is imported meanwhile, and wherever the command fails.         *)
(***************************************************************************)
EXTENDS Prune, FiniteSetTheorems, WellFoundedInduction, TLAPS

\* A partition begins on a multiple of its length, which is none of its days' later.
LEMMA Begins ==
    ASSUME NEW d \in Nat, NEW w \in Nat \ {0}
    PROVE  /\ d \div w \in Nat
           /\ (d \div w) * w <= d
OBVIOUS

LEMMA DaysNat == Days \subseteq Nat
<1>1. 0..Today \subseteq Nat
  OBVIOUS
<1> QED
  BY <1>1, PruneAssumption

LEMMA EntryType ==
    ASSUME NEW part \in Part
    PROVE  EntryOf(part) \in Entries /\ Partition(part) * Week <= part.day
<1>1. part.day \in Nat /\ part.day \in Days
  BY DaysNat DEF Part
<1>2. Partition(part) * Week <= part.day
  BY <1>1, Begins, PruneAssumption DEF Partition
<1>3. EntryOf(part) \in Entries
  BY <1>1 DEF EntryOf, Entries, Partitions, Partition, Part
<1> QED
  BY <1>2, <1>3

LEMMA PartitionsNat == Partitions \subseteq Nat
<1> SUFFICES ASSUME NEW day \in Days PROVE day \div Week \in Nat
  BY DEF Partitions
<1> QED
  BY Begins, DaysNat, PruneAssumption

\* There is an oldest partition of those that were found.
LEMMA OldestFound ==
    ASSUME found \subseteq Entries, found # {}
    PROVE  /\ \E e \in found : e.partition = Oldest
           /\ \A e \in found : Oldest <= e.partition
<1> DEFINE P == {e.partition : e \in found}
<1>1. P \subseteq Nat /\ P # {}
  BY PartitionsNat DEF Entries
<1>2. PICK p \in P : \A q \in P : ~ (<<q, p>> \in OpToRel(<, Nat))
  BY <1>1, NatLessThanWellFounded, WFMin
<1>3. \A q \in P : ~ (q < p)
  BY <1>1, <1>2, Zenon DEF OpToRel
<1>4. \A q \in P : p <= q
  <2> HIDE DEF P
  <2>1. p \in Nat
    BY <1>1
  <2> SUFFICES ASSUME NEW q \in P PROVE p <= q
    OBVIOUS
  <2>2. q \in Nat /\ ~ (q < p)
    BY <1>1, <1>3
  <2> QED
    BY <2>1, <2>2
<1>5. \A e \in found : p <= e.partition
  BY <1>4
<1>6. Oldest \in P /\ \A e \in found : Oldest <= e.partition
  BY <1>5 DEF Oldest
<1> QED
  BY <1>6

-----------------------------------------------------------------------------

\* What was found is over the age, unless no age was asked for, and is dealt with
\* before the command ends.
Aged ==
    /\ pc = "idle" => found = {}
    /\ args.max_age # 0 => \A e \in found : e.partition * Week < Before

\* What is dropped is of the oldest partition that was found.
Facing == \A e \in target : \A f \in found : e.partition <= f.partition

Asked == args.force /\ ~args.incremental /\ ~args.dryrun

Missed(part) == part.day < Before /\ part \notin since /\ EntryOf(part) \notin found

\* Whatever is over the age and was not imported since is found, on the servers that
\* were asked for its table; and the others are asked before anything is dropped.
Complete ==
    Asked =>
        /\ pc = "check" => found = {}
        /\ pc = "read" => \A part \in parts : Missed(part) => <<part.server, part.table>> \in unread
        /\ pc \in {"ask", "drop"} => \A part \in parts : ~Missed(part)

IInv == TypeOK /\ Aged /\ Facing /\ Complete

LEMMA InitIInv == Init => IInv
<1> SUFFICES ASSUME Init PROVE IInv
  OBVIOUS
<1>1. args \in Arguments
  <2>1. PICK age \in MaxAges : TRUE
    BY PruneAssumption
  <2>2. [incremental |-> FALSE, force |-> FALSE, dryrun |-> FALSE,
         report_only |-> TRUE, max_age |-> age] \in {a \in Arguments : a.report_only}
    BY <2>1 DEF Arguments
  <2> QED
    BY <2>2 DEF Init
<1>2. imports \in 0..MaxImports
  BY PruneAssumption DEF Init
<1>3. TypeOK
  BY <1>1, <1>2 DEF Init, TypeOK
<1>4. Aged /\ Facing /\ Complete
  BY DEF Init, Aged, Facing, Complete
<1> QED
  BY <1>3, <1>4 DEF IInv

LEMMA ImportIInv ==
    ASSUME IInv, NEW part \in Part, Import(part)
    PROVE  IInv'
<1> USE DEF IInv, Import, command
<1>1. TypeOK'
  BY PruneAssumption DEF TypeOK
<1>2. Aged' /\ Facing'
  BY DEF Aged, Facing, Before
<1>3. Complete'
  BY DEF Complete, Asked, Missed, EntryOf, Before
<1> QED
  BY <1>1, <1>2, <1>3

LEMMA StartIInv ==
    ASSUME IInv, Start
    PROVE  IInv'
<1>1. found = {} /\ target = {} /\ found' = {} /\ target' = {}
  BY DEF IInv, Start, Aged, TypeOK
<1>2. TypeOK'
  BY <1>1 DEF IInv, Start, TypeOK
<1> QED
  BY <1>1, <1>2 DEF Start, IInv, Aged, Facing, Complete

\* A command that ends deals with nothing more.
LEMMA EndIInv ==
    ASSUME IInv, NEW code \in {0, 2}, Exit(code),
           UNCHANGED <<parts, imports, since, args, exceeded>>, reported' \in BOOLEAN
    PROVE  IInv'
BY DEF IInv, Exit, TypeOK, Aged, Facing, Complete

LEMMA CheckIInv ==
    ASSUME IInv, Check
    PROVE  IInv'
<1>1. exceeded' \in BOOLEAN /\ unread' \subseteq Servers
  BY DEF Check, IInv, TypeOK, Short
<1>2. TypeOK'
  BY <1>1 DEF Check, IInv, TypeOK
<1> QED
  BY <1>2 DEF Check, IInv, Aged, Facing, Complete, Before, Asked

LEMMA CheckedIInv ==
    ASSUME IInv, Checked
    PROVE  IInv'
<1>1. CASE ~exceeded
  BY <1>1, EndIInv DEF Checked
<1>2. CASE exceeded /\ found = {}
  <2>1. TypeOK'
    BY <1>2 DEF Checked, IInv, TypeOK
  <2>2. Complete'
    <3>1. pc' = "read" /\ unread' = Servers \X Tables /\ parts' \subseteq Part
      BY <1>2 DEF Checked, IInv, TypeOK
    <3> QED
      BY <3>1 DEF Complete, Part
  <2> QED
    BY <1>2, <2>1, <2>2 DEF Checked, IInv, Aged, Facing, Before
<1>3. CASE exceeded /\ found # {}
  <2>1. TypeOK'
    BY <1>3 DEF Checked, IInv, TypeOK
  <2>2. ~Asked'
    BY <1>3 DEF Checked, IInv, Complete, Asked
  <2> QED
    BY <1>3, <2>1, <2>2 DEF Checked, IInv, Aged, Facing, Before, Complete
<1> QED
  BY <1>1, <1>2, <1>3 DEF IInv, TypeOK

LEMMA ReadIInv ==
    ASSUME IInv, ReadPartitions
    PROVE  IInv'
<1>1. PICK asked \in unread :
        /\ unread' = unread \ {asked}
        /\ found' = found \cup Listed(asked[1], asked[2])
        /\ IF unread' # {} THEN UNCHANGED <<pc, status>>
           ELSE IF found' = {} THEN pc' = "idle" /\ status' = 0
           ELSE pc' = "ask" /\ UNCHANGED status
  BY DEF ReadPartitions
<1>2. pc = "read" /\ target = {} /\ UNCHANGED <<parts, imports, since, args, exceeded, reported, target>>
  BY DEF ReadPartitions, IInv, TypeOK
<1> DEFINE listed == Listed(asked[1], asked[2])
<1>3. \A part \in parts :
        <<part.server, part.table>> = asked /\ (args.max_age # 0 => part.day < Before)
            => EntryOf(part) \in listed
  BY DEF Listed
<1>4. \A e \in listed :
        e \in Entries /\ (args.max_age # 0 => e.partition * Week < Before)
  <2> SUFFICES ASSUME NEW e \in listed
               PROVE  e \in Entries /\ (args.max_age # 0 => e.partition * Week < Before)
    OBVIOUS
  <2>0. PICK part \in parts : e = EntryOf(part) /\ (args.max_age # 0 => part.day < Before)
    BY DEF Listed
  <2>1. part \in Part
    BY DEF IInv, TypeOK
  <2>2. EntryOf(part) \in Entries /\ Partition(part) * Week <= part.day
    BY <2>1, EntryType
  <2>3. Partition(part) \in Nat /\ part.day \in Nat
    BY <2>1, <2>2, DaysNat, PartitionsNat DEF Part, Entries, EntryOf
  <2>4. Before \in Int
    <3>1. args.max_age \in Nat /\ Today \in Nat
      BY PruneAssumption DEF IInv, TypeOK, Arguments
    <3> QED
      BY <3>1 DEF Before
  <2>5. Partition(part) * Week \in Nat
    BY <2>3, PruneAssumption
  <2> HIDE DEF Before
  <2>6. args.max_age # 0 => Partition(part) * Week < Before
    BY <2>0, <2>2, <2>3, <2>4, <2>5
  <2> QED
    BY <2>0, <2>2, <2>6 DEF EntryOf
<1>5. TypeOK'
  BY <1>1, <1>2, <1>4 DEF IInv, TypeOK
<1>6. Aged'
  BY <1>1, <1>2, <1>4 DEF IInv, Aged, Before
<1>7. Facing'
  BY <1>1, <1>2 DEF Facing
<1>8. Complete'
  <2>1. \A part \in parts : Missed(part)' => Missed(part) /\ <<part.server, part.table>> # asked
    BY <1>1, <1>2, <1>3 DEF Missed, EntryOf, Before
  <2>2. \A part \in parts : Asked /\ Missed(part)' => <<part.server, part.table>> \in unread'
    BY <1>1, <1>2, <2>1 DEF IInv, Complete
  <2>3. \/ pc' = "read"
        \/ unread' = {} /\ pc' \in {"idle", "ask"}
    BY <1>1, <1>2
  <2>4. Asked' <=> Asked
    BY <1>2 DEF Asked
  <2> HIDE DEF Missed
  <2> QED
    BY <1>2, <2>2, <2>3, <2>4 DEF Complete
<1> QED
  BY <1>5, <1>6, <1>7, <1>8 DEF IInv

\* What Proceed leaves: the rest, to be dealt with by the command as it was asked.
LEMMA ProceedIInv ==
    ASSUME IInv, pc \in {"ask", "drop"}, NEW partition, NEW rest, rest \subseteq found,
           Proceed(partition, rest), UNCHANGED <<imports, args, reported>>,
           parts' \subseteq parts, since' \subseteq parts',
           status' \in {0, 2},
           Asked => \A part \in parts' : Missed(part)' => FALSE
    PROVE  IInv'
<1>1. /\ pc' \in {"idle", "check", "ask"}
      /\ pc' = "idle" <=> rest = {}
      /\ pc' = "check" => args.incremental
      /\ found' = rest
      /\ target' = {}
      /\ unread' \subseteq Servers
      /\ exceeded' \in BOOLEAN
  BY DEF Proceed, IInv, TypeOK
<1>2. TypeOK'
  BY <1>1 DEF IInv, TypeOK
<1>3. Aged' /\ Facing'
  BY <1>1 DEF IInv, Aged, Facing, Before
<1>4. Complete'
  BY <1>1 DEF Complete, Asked
<1> QED
  BY <1>2, <1>3, <1>4 DEF IInv

LEMMA AskIInv ==
    ASSUME IInv, Ask
    PROVE  IInv'
<1>1. PICK table \in {e.table : e \in {e \in found : e.partition = Oldest}} :
        \/ /\ pc' = "drop"
           /\ target' = EntriesOf(Oldest, table)
           /\ UNCHANGED <<found, unread, exceeded, status>>
        \/ /\ ~args.force
           /\ Proceed(Oldest, found \ EntriesOf(Oldest, table))
           /\ status' = IF pc' = "idle" THEN 0 ELSE status
  BY DEF Ask
<1>2. pc = "ask" /\ UNCHANGED <<parts, imports, since, args, reported>>
  BY DEF Ask
<1>3. CASE /\ pc' = "drop"
           /\ target' = EntriesOf(Oldest, table)
           /\ UNCHANGED <<found, unread, exceeded, status>>
  <2>1. /\ target' # {}
        /\ target' \subseteq found
        /\ \A e \in target' : e.partition = Oldest /\ e.table = table
    BY <1>1, <1>3 DEF EntriesOf
  <2>2. \A e \in found : Oldest <= e.partition
    BY <1>1, OldestFound DEF IInv, TypeOK
  <2>3. TypeOK'
    BY <1>2, <1>3, <2>1 DEF IInv, TypeOK
  <2>4. Facing'
    BY <1>3, <2>1, <2>2 DEF Facing
  <2>5. Aged' /\ Complete'
    BY <1>2, <1>3 DEF IInv, Aged, Complete, Asked, Before, Missed, EntryOf
  <2> QED
    BY <2>3, <2>4, <2>5 DEF IInv
<1>4. CASE /\ ~args.force
           /\ Proceed(Oldest, found \ EntriesOf(Oldest, table))
           /\ status' = IF pc' = "idle" THEN 0 ELSE status
  <2>1. found \ EntriesOf(Oldest, table) \subseteq found
    OBVIOUS
  <2>2. status' \in {0, 2} /\ parts' \subseteq parts /\ since' \subseteq parts' /\ ~Asked
    BY <1>2, <1>4 DEF IInv, TypeOK, Asked
  <2> HIDE DEF EntriesOf
  <2> QED
    BY <1>2, <1>4, <2>1, <2>2, ProceedIInv
<1> QED
  BY <1>1, <1>3, <1>4

\* What is dropped of a partition is no longer there to be found.
LEMMA DropIInv ==
    ASSUME IInv, Drop
    PROVE  IInv'
<1>1. PICK e \in target :
        /\ parts' = IF args.dryrun THEN parts ELSE {part \in parts : EntryOf(part) # e}
        /\ since' = since \cap parts'
        /\ IF target = {e}
           THEN Proceed(e.partition, found \ {e})
           ELSE /\ target' = target \ {e}
                /\ found' = found \ {e}
                /\ UNCHANGED <<pc, unread, exceeded>>
        /\ status' = IF pc' = "idle" THEN 0 ELSE status
  BY DEF Drop
<1>2. pc = "drop" /\ UNCHANGED <<imports, args, reported>>
  BY DEF Drop
<1>3. parts' \subseteq parts /\ since' \subseteq parts' /\ status' \in {0, 2}
  BY <1>1 DEF IInv, TypeOK
<1>4. found' = found \ {e}
  BY <1>1 DEF Proceed
<1>5. Asked => \A part \in parts' : ~Missed(part)'
  <2> SUFFICES ASSUME Asked, NEW part \in parts', Missed(part)' PROVE FALSE
    OBVIOUS
  <2>1. part \in parts /\ EntryOf(part) # e
    BY <1>1 DEF Asked
  <2>2. Missed(part)
    BY <1>1, <1>2, <1>4, <2>1 DEF Missed, Before, EntryOf
  <2> QED
    BY <1>2, <2>1, <2>2 DEF IInv, Complete
<1>6. CASE target = {e}
  <2>1. found \ {e} \subseteq found /\ Proceed(e.partition, found \ {e})
    BY <1>1, <1>6
  <2> HIDE DEF Missed
  <2> QED
    BY <1>2, <1>3, <1>5, <2>1, ProceedIInv
<1>7. CASE target # {e}
  <2>1. target' = target \ {e} /\ UNCHANGED <<pc, unread, exceeded>> /\ target' # {}
    BY <1>1, <1>7
  <2>2. TypeOK'
    BY <1>2, <1>3, <1>4, <2>1 DEF IInv, TypeOK
  <2>3. Aged' /\ Facing'
    BY <1>2, <1>4, <2>1 DEF IInv, Aged, Facing, Before
  <2>4. Complete'
    BY <1>2, <1>5, <2>1 DEF Complete, Asked
  <2> QED
    BY <2>2, <2>3, <2>4 DEF IInv
<1> QED
  BY <1>6, <1>7

LEMMA NextIInv == IInv /\ [Next]_vars => IInv'
<1> SUFFICES ASSUME IInv, [Next]_vars PROVE IInv'
  OBVIOUS
<1>1. CASE Fail
  <2>1. Exit(2) /\ UNCHANGED <<parts, imports, since, args, exceeded>> /\ reported' = reported
    BY <1>1 DEF Fail
  <2> QED
    BY <2>1, EndIInv DEF IInv, TypeOK
<1>2. CASE UNCHANGED vars
  BY <1>2 DEF vars, command, IInv, TypeOK, Aged, Facing, Complete, Asked, Missed, Before, EntryOf
<1> QED
  BY <1>1, <1>2, ImportIInv, StartIInv, CheckIInv, CheckedIInv, ReadIInv, AskIInv, DropIInv
     DEF Next, CommandNext

LEMMA Invariance == Spec => []IInv
BY InitIInv, NextIInv, PTL DEF Spec

-----------------------------------------------------------------------------

\* Only Drop takes parts away, and they are of what is dropped.
LEMMA OnlyTarget ==
    ASSUME IInv, [Next]_vars, NEW part \in parts \ parts'
    PROVE  pc = "drop" /\ EntryOf(part) \in target /\ ~args.dryrun
<1>1. CASE Drop
  BY <1>1 DEF Drop
<1> QED
  BY <1>1 DEF Next, CommandNext, Import, Start, Check, Checked, ReadPartitions, Ask, Fail,
              vars

\* TypeOK is an invariant.
THEOREM TypeCorrect == Spec => []TypeOK
<1>1. IInv => TypeOK
  BY DEF IInv
<1> QED
  BY Invariance, <1>1, PTL

\* OldestAged: if an age is asked for (0 counts as none), nothing is dropped of a
\* partition that does not begin before the date, for any length of partitions, and
\* what is dropped has nothing older beside it that was found.
THEOREM DropsOldest ==
    ASSUME 0 \notin MaxAges
    PROVE  Spec => OldestAged
<1>1. ASSUME IInv, [Next]_vars
      PROVE  [\A part \in parts \ parts' :
                /\ Partition(part) * Week < Before
                /\ \A e \in found : Partition(part) <= e.partition]_vars
  <2> SUFFICES ASSUME NEW part \in parts \ parts'
               PROVE  /\ Partition(part) * Week < Before
                      /\ \A e \in found : Partition(part) <= e.partition
    OBVIOUS
  <2>1. EntryOf(part) \in target /\ EntryOf(part) \in found
    BY <1>1, OnlyTarget DEF IInv, TypeOK
  <2>2. args.max_age # 0
    BY <1>1 DEF IInv, TypeOK, Arguments
  <2>3. EntryOf(part).partition * Week < Before
    BY <1>1, <2>1, <2>2 DEF IInv, Aged
  <2>4. \A e \in found : EntryOf(part).partition <= e.partition
    BY <1>1, <2>1 DEF IInv, Facing
  <2> QED
    BY <2>3, <2>4 DEF EntryOf
<1> QED
  BY <1>1, Invariance, PTL DEF Spec, OldestAged

\* NothingLeft: a command that does not ask and ends well has dropped all that is over
\* the age from every server, whatever was imported while it ran.
THEOREM DropsAll == Spec => NothingLeft
<1>1. ASSUME IInv, [Next]_vars, pc = "drop", pc' = "idle", status' = 0,
             args.force, ~args.incremental, ~args.dryrun,
             NEW part \in parts', part.day < Before
      PROVE  part \in since'
  <2>1. Drop
    BY <1>1 DEF Next, CommandNext, Import, Start, Check, Checked, ReadPartitions, Ask, Fail,
                Exit, vars
  <2>2. IInv'
    BY <1>1, NextIInv
  <2>3. found' = {}
    BY <1>1, <2>2 DEF IInv, Aged
  <2>4. PICK e \in target :
          /\ parts' = {p \in parts : EntryOf(p) # e}
          /\ since' = since \cap parts'
          /\ found' = found \ {e}
    BY <1>1, <2>1 DEF Drop, Proceed
  <2>5. part \in parts /\ EntryOf(part) # e
    BY <2>4
  <2>6. EntryOf(part) \notin found
    BY <2>3, <2>4, <2>5
  <2>7. ~Missed(part)
    BY <1>1, <2>5 DEF IInv, Complete, Asked
  <2> QED
    BY <1>1, <2>4, <2>6, <2>7 DEF Missed
<1>2. ASSUME IInv, [Next]_vars
      PROVE  [(/\ pc = "drop" /\ pc' = "idle" /\ status' = 0
               /\ args.force /\ ~args.incremental /\ ~args.dryrun)
                  => \A part \in parts' : part.day < Before => part \in since']_vars
  BY <1>1, <1>2
<1> QED
  BY <1>2, Invariance, PTL DEF Spec, NothingLeft

-----------------------------------------------------------------------------
(* --incremental: each drop is begun while a server is short of space      *)

Single == \A t, u \in Tables : t = u

SomeShort == \E server \in Servers : Short(server)

\* With one table, a partition is dropped from all servers where it was found before
\* the servers are asked again; and it is found that one is short before the next.
Shortage ==
    args.incremental /\ Single =>
        /\ pc = "check" /\ exceeded => SomeShort
        /\ pc \in {"read", "ask"} => SomeShort
        /\ pc = "drop" => \A e \in target : \A f \in found :
                            f.partition = e.partition => f \in target

LEMMA PartsFinite ==
    ASSUME IsFiniteSet(Servers), IsFiniteSet(Tables)
    PROVE  IsFiniteSet(Part)
<1> DEFINE Triples == (Servers \X Tables) \X Days
           AsPart == [t \in Triples |-> [server |-> t[1][1], table |-> t[1][2], day |-> t[2]]]
<1>1. IsFiniteSet(Days)
  <2>1. IsFiniteSet(0..Today)
    BY FS_Interval, PruneAssumption
  <2> QED
    BY <2>1, FS_Subset, PruneAssumption
<1>2. IsFiniteSet(Triples)
  BY <1>1, FS_Product
<1>3. AsPart \in Surjection(Triples, Part)
  <2>1. AsPart \in [Triples -> Part]
    BY DEF Part
  <2>2. ASSUME NEW part \in Part PROVE \E t \in Triples : AsPart[t] = part
    <3>1. <<<<part.server, part.table>>, part.day>> \in Triples
      BY DEF Part
    <3>2. AsPart[<<<<part.server, part.table>>, part.day>>] = part
      BY <3>1 DEF Part
    <3> QED
      BY <3>1, <3>2
  <2> QED
    BY <2>1, <2>2 DEF Surjection
<1> HIDE DEF Triples, AsPart
<1> QED
  BY <1>2, <1>3, FS_Surjection

\* A server that is short of space stays so while nothing is dropped.
LEMMA StaysShort ==
    ASSUME IsFiniteSet(Servers), IsFiniteSet(Tables), parts \subseteq parts', parts' \subseteq Part,
           NEW server \in Servers, Short(server)
    PROVE  Short(server)'
<1> DEFINE now == {part \in parts : part.server = server}
           later == {part \in parts' : part.server = server}
<1>1. IsFiniteSet(later)
  BY PartsFinite, FS_Subset
<1>2. now \subseteq later
  OBVIOUS
<1>3. IsFiniteSet(now) /\ Cardinality(now) <= Cardinality(later)
  BY <1>1, <1>2, FS_Subset
<1>4. Cardinality(now) \in Nat /\ Cardinality(later) \in Nat
  BY <1>1, <1>3, FS_CardinalityType
<1>5. Cardinality(now) >= Threshold
  BY DEF Short, Usage
<1> HIDE DEF now, later
<1>6. Cardinality(later) >= Threshold
  BY <1>3, <1>4, <1>5, PruneAssumption
<1> QED
  BY <1>6 DEF later, Short, Usage

LEMMA StaysSomeShort ==
    ASSUME IsFiniteSet(Servers), IsFiniteSet(Tables), IInv, SomeShort,
           parts \subseteq parts', parts' \subseteq Part
    PROVE  SomeShort'
BY StaysShort DEF SomeShort

\* After a partition the servers are asked again, or the command ends.
LEMMA ProceedShortage ==
    ASSUME NEW partition, NEW rest, Proceed(partition, rest), UNCHANGED args,
           args.incremental /\ Single => \A e \in rest : e.partition # partition
    PROVE  Shortage'
<1> SUFFICES ASSUME args.incremental, Single PROVE Shortage'
  BY DEF Shortage, Single
<1>1. pc' \in {"idle", "check"} /\ (pc' = "check" => exceeded' = FALSE)
  BY DEF Proceed
<1> QED
  BY <1>1 DEF Shortage

LEMMA CommandShortage ==
    ASSUME IInv, Shortage, IsFiniteSet(Servers), IsFiniteSet(Tables), CommandNext
    PROVE  Shortage'
<1>1. \A e \in found : e.table \in Tables
  BY DEF IInv, TypeOK, Entries
<1>2. CASE Check
  <2>1. pc = "check" /\ UNCHANGED <<parts, args, pc>>
    BY <1>2 DEF Check
  <2>2. PICK server \in unread : exceeded' = (exceeded \/ Short(server))
    BY <1>2 DEF Check
  <2>3. server \in Servers
    BY <2>1, <2>2 DEF IInv, TypeOK
  <2>4. SomeShort' <=> SomeShort
    BY <2>1 DEF SomeShort, Short
  <2>5. args.incremental /\ Single /\ exceeded' => SomeShort
    <3>1. CASE exceeded
      BY <2>1, <3>1 DEF Shortage
    <3>2. CASE Short(server)
      BY <2>3, <3>2 DEF SomeShort
    <3>3. CASE ~exceeded /\ ~Short(server)
      BY <2>2, <3>3
    <3> QED
      BY <3>1, <3>2, <3>3
  <2> QED
    BY <2>1, <2>4, <2>5 DEF Shortage, Single
<1>3. CASE Checked
  <2>1. pc = "check" /\ UNCHANGED <<parts, args>> /\ pc' \in {"idle", "read", "ask"}
        /\ (pc' # "idle" => exceeded)
    BY <1>3 DEF Checked, Exit
  <2>2. SomeShort' <=> SomeShort
    BY <2>1 DEF SomeShort, Short
  <2> QED
    BY <2>1, <2>2 DEF Shortage, Single
<1>4. CASE ReadPartitions
  <2>1. pc = "read" /\ UNCHANGED <<parts, args>> /\ pc' \in {"idle", "read", "ask"}
    BY <1>4 DEF ReadPartitions
  <2>2. SomeShort' <=> SomeShort
    BY <2>1 DEF SomeShort, Short
  <2> QED
    BY <2>1, <2>2 DEF Shortage, Single
<1>5. CASE Ask
  <2>1. UNCHANGED args
    BY <1>5 DEF Ask
  <2>2. PICK table \in {e.table : e \in {e \in found : e.partition = Oldest}} :
          \/ pc' = "drop" /\ target' = EntriesOf(Oldest, table) /\ found' = found
          \/ Proceed(Oldest, found \ EntriesOf(Oldest, table))
    BY <1>5 DEF Ask
  <2>3. Single => \A e \in found : e.partition = Oldest => e \in EntriesOf(Oldest, table)
    BY <1>1, <2>2 DEF EntriesOf, Single
  <2>4. CASE pc' = "drop" /\ target' = EntriesOf(Oldest, table) /\ found' = found
    <3>1. \A e \in target' : e.partition = Oldest
      BY <2>4 DEF EntriesOf
    <3> QED
      BY <2>1, <2>3, <2>4, <3>1 DEF Shortage, Single
  <2>5. CASE Proceed(Oldest, found \ EntriesOf(Oldest, table))
    BY <2>1, <2>3, <2>5, ProceedShortage
  <2> QED
    BY <2>2, <2>4, <2>5
<1>6. CASE Drop
  <2>1. pc = "drop" /\ UNCHANGED args
    BY <1>6 DEF Drop
  <2>2. PICK e \in target :
          IF target = {e} THEN Proceed(e.partition, found \ {e})
          ELSE target' = target \ {e} /\ found' = found \ {e} /\ UNCHANGED pc
    BY <1>6 DEF Drop
  <2>3. CASE target = {e}
    <3>1. args.incremental /\ Single => \A f \in found \ {e} : f.partition # e.partition
      BY <2>1, <2>3 DEF Shortage
    <3> QED
      BY <2>1, <2>2, <2>3, <3>1, ProceedShortage
  <2>4. CASE target # {e}
    BY <2>1, <2>2, <2>4 DEF Shortage, Single
  <2> QED
    BY <2>3, <2>4
<1>7. CASE Fail
  BY <1>7 DEF Fail, Exit, Shortage, Single
<1> QED
  BY <1>2, <1>3, <1>4, <1>5, <1>6, <1>7 DEF CommandNext

LEMMA NextShortage ==
    ASSUME IInv, Shortage, IsFiniteSet(Servers), IsFiniteSet(Tables), [Next]_vars
    PROVE  Shortage'
<1>1. ASSUME NEW part \in Part, Import(part) PROVE Shortage'
  <2>1. parts \subseteq parts' /\ parts' \subseteq Part /\ UNCHANGED <<pc, command>>
    BY <1>1 DEF Import, IInv, TypeOK
  <2>2. SomeShort => SomeShort'
    BY <2>1, StaysSomeShort
  <2> QED
    BY <2>1, <2>2 DEF Shortage, Single, command
<1>2. CASE Start
  <2>1. pc' \in {"idle", "check"} /\ exceeded' = FALSE
    BY <1>2 DEF Start
  <2> QED
    BY <2>1 DEF Shortage
<1>3. CASE UNCHANGED vars
  <2>1. SomeShort' <=> SomeShort
    BY <1>3 DEF SomeShort, Short, vars
  <2> QED
    BY <1>3, <2>1 DEF vars, command, Shortage, Single
<1> QED
  BY <1>1, <1>2, <1>3, CommandShortage DEF Next

\* BegunWhileShort: with --incremental and one table, each drop is begun while a server
\* is short of space as of then, for any number of servers and any partitions, whatever
\* is imported meanwhile.
THEOREM DropsWhileShort ==
    ASSUME IsFiniteSet(Servers), IsFiniteSet(Tables)
    PROVE  Spec => [][BegunWhileShort]_vars
<1>1. Init => Shortage
  BY DEF Init, Shortage
<1>2. ASSUME IInv, Shortage, [Next]_vars PROVE [BegunWhileShort]_vars
  <2> SUFFICES ASSUME pc = "ask", args.incremental, Cardinality(Tables) = 1
               PROVE  \E server \in Servers : Short(server)
    BY DEF BegunWhileShort
  <2>1. Single
    BY FS_Singleton DEF Single
  <2> QED
    BY <1>2, <2>1 DEF Shortage, SomeShort
<1>3. IInv /\ Shortage /\ [Next]_vars => Shortage'
  BY NextShortage
<1> QED
  BY <1>1, <1>2, <1>3, Invariance, PTL DEF Spec
=============================================================================
