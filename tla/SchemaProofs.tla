---------------------------- MODULE SchemaProofs ----------------------------
(***************************************************************************)
(* Schema updates.  For any number of operators, versions, faults and      *)
(* commands, and for rows of one second, which may be read in any order:   *)
(* every variable has its type; and in Postgres, where the DDL of a        *)
(* version and the row that records it are one transaction, the rows are   *)
(* of exactly what the database has, and those who read them are told so   *)
(* of every version whose rows have the times of their insertion's order.  *)
(*                                                                         *)
(* For one operator whose commands are given in different seconds, but for *)
(* ClickHouse too, whatever fails or is killed: the next command can read  *)
(* the history, records survive the upgrade of the history table, faults   *)
(* do not spread, the history changes as SchemaLog says, and a command for *)
(* Postgres that ends well has brought or found every installed version.   *)
(***************************************************************************)
EXTENDS SchemaHistory, FiniteSetTheorems, WellFoundedInduction, TLAPS

\* The least of a set of versions is one of them.
LEMMA LowestIn ==
    ASSUME NEW S, S \subseteq Nat, S # {}
    PROVE  Lowest(S) \in S
<1>1. PICK x \in S : \A y \in S : ~ (<<y, x>> \in OpToRel(<, Nat))
  BY NatLessThanWellFounded, WFMin
<1>2. \A y \in S : ~ (y < x)
  BY <1>1, Zenon DEF OpToRel
<1>3. \A y \in S : y >= x
  BY <1>2
<1> QED
  BY <1>3 DEF Lowest

\* What a row that is added changes in the versions that are active.
LEMMA ActiveAppend ==
    ASSUME NEW rows \in Seq(Rows), NEW row \in Rows
    PROVE  ActiveDdls(Append(rows, row)) =
                IF row.action = "apply" THEN ActiveDdls(rows) \cup {row.version}
                ELSE ActiveDdls(rows) \ {row.version}
<1> DEFINE new == Append(rows, row)
           Sets(rs, v, i) ==
                /\ rs[i].version = v /\ rs[i].action = "apply"
                /\ \A k \in (i + 1)..Len(rs) : rs[k].version = v => rs[k].action = "apply"
<1>1. /\ new \in Seq(Rows)
      /\ Len(rows) \in Nat
      /\ Len(new) = Len(rows) + 1
      /\ new[Len(rows) + 1] = row
      /\ \A i \in 1..Len(rows) : new[i] = rows[i]
  OBVIOUS
<1>2. row.version \in Versions /\ row.action \in {"apply", "rollback"}
  BY DEF Rows
<1>3. ASSUME NEW v \in Versions, v # row.version
      PROVE  v \in ActiveDdls(new) <=> v \in ActiveDdls(rows)
  <2>1. ASSUME NEW i \in 1..Len(rows) PROVE Sets(new, v, i) <=> Sets(rows, v, i)
    BY <1>1, <1>3
  <2>2. ~Sets(new, v, Len(rows) + 1)
    BY <1>1, <1>3
  <2>3. (\E i \in 1..Len(new) : Sets(new, v, i)) <=> (\E i \in 1..Len(rows) : Sets(rows, v, i))
    BY <1>1, <2>1, <2>2
  <2> QED BY <2>3 DEF ActiveDdls
<1>4. CASE row.action = "apply"
  <2>1. Sets(new, row.version, Len(rows) + 1)
    BY <1>1, <1>4
  <2>2. row.version \in ActiveDdls(new)
    BY <1>1, <1>2, <2>1 DEF ActiveDdls
  <2> QED
    BY <1>2, <1>3, <1>4, <2>2 DEF ActiveDdls
<1>5. CASE row.action = "rollback"
  <2>1. ASSUME NEW i \in 1..Len(new) PROVE ~Sets(new, row.version, i)
    <3>1. CASE i = Len(rows) + 1
      BY <1>1, <1>5, <3>1
    <3>2. CASE i \in 1..Len(rows)
      <4>1. Len(rows) + 1 \in (i + 1)..Len(new)
        BY <1>1, <3>2
      <4> QED BY <1>1, <1>5, <4>1
    <3> QED BY <1>1, <3>1, <3>2
  <2>2. row.version \notin ActiveDdls(new)
    BY <2>1 DEF ActiveDdls
  <2> QED
    BY <1>2, <1>3, <1>5, <2>2 DEF ActiveDdls
<1> QED
  BY <1>2, <1>4, <1>5

LEMMA ActiveNone == ActiveDdls(<<>>) = {}
BY DEF ActiveDdls

-----------------------------------------------------------------------------
(* Rows that may be read in any order                                      *)

\* The rows of version v were inserted in the order of their times, which differ.
InTime(rows, v) ==
    \A i, k \in 1..Len(rows) :
        i < k /\ rows[i].version = v /\ rows[k].version = v => rows[i].applied < rows[k].applied

Apart(rows) == \A v \in Versions : InTime(rows, v)

\* A version is taken back only after it was applied, with nothing in between.
LEMMA ReadableMeans ==
    ASSUME NEW rows \in Seq(Rows)
    PROVE  Readable(rows) <=>
             \A i \in 1..Len(rows) : rows[i].action = "rollback" =>
                \E c \in 1..(i - 1) :
                    /\ rows[c].version = rows[i].version /\ rows[c].action = "apply"
                    /\ \A k \in (c + 1)..(i - 1) :
                        rows[k].version = rows[i].version => rows[k].action = "apply"
<1> SUFFICES ASSUME NEW i \in 1..Len(rows)
             PROVE  rows[i].version \in ActiveDdls(SubSeq(rows, 1, i - 1)) <=>
                      \E c \in 1..(i - 1) :
                        /\ rows[c].version = rows[i].version /\ rows[c].action = "apply"
                        /\ \A k \in (c + 1)..(i - 1) :
                            rows[k].version = rows[i].version => rows[k].action = "apply"
  BY DEF Readable
<1> DEFINE sub == SubSeq(rows, 1, i - 1)
<1>1. PICK n \in Nat : n = Len(rows)
  OBVIOUS
<1>2. i \in 1..n /\ rows[i] \in Rows
  BY <1>1
<1>3. Len(sub) = i - 1 /\ \A k \in 1..(i - 1) : sub[k] = rows[k]
  BY <1>1, <1>2
<1>4. rows[i].version \in Versions
  BY <1>2 DEF Rows
<1> HIDE DEF sub
<1>5. rows[i].version \in ActiveDdls(sub) <=>
        \E c \in 1..(i - 1) :
            /\ sub[c].version = rows[i].version /\ sub[c].action = "apply"
            /\ \A k \in (c + 1)..(i - 1) :
                sub[k].version = rows[i].version => sub[k].action = "apply"
  BY <1>3, <1>4 DEF ActiveDdls
<1>6. ASSUME NEW c \in 1..(i - 1) PROVE (c + 1)..(i - 1) \subseteq 1..(i - 1)
  BY <1>2
<1>7. ASSUME NEW c \in 1..(i - 1)
      PROVE  (\A k \in (c + 1)..(i - 1) :
                sub[k].version = rows[i].version => sub[k].action = "apply") <=>
             (\A k \in (c + 1)..(i - 1) :
                rows[k].version = rows[i].version => rows[k].action = "apply")
  BY <1>3, <1>6
<1> QED
  BY <1>3, <1>5, <1>7 DEF sub

\* Rows are read in another order, and in that of their times.
LEMMA OrderedMeans ==
    ASSUME NEW rows \in Seq(Rows), NEW read \in Ordered(rows)
    PROVE  \E p \in Injection(1..Len(rows), 1..Len(rows)) :
             /\ read = [i \in 1..Len(rows) |-> rows[p[i]]]
             /\ \A i, k \in 1..Len(rows) : i < k => read[i].applied <= read[k].applied
<1> DEFINE N == 1..Len(rows)
           L == Loose(rows)
<1>1. PICK q \in Injection(L, L) : read = [i \in N |-> rows[IF i \in L THEN q[i] ELSE i]]
  BY DEF Ordered
<1>2. \A i, k \in N : i < k => read[i].applied <= read[k].applied
  BY DEF Ordered
<1>3. q \in [L -> L] /\ \A i, k \in L : q[i] = q[k] => i = k
  BY <1>1 DEF Injection, IsInjective
<1>4. L \subseteq N
  BY DEF Loose
<1> HIDE DEF N, L
<1> DEFINE p == [i \in N |-> IF i \in L THEN q[i] ELSE i]
<1>5. p \in [N -> N]
  BY <1>3, <1>4
<1>6. \A i, k \in N : p[i] = p[k] => i = k
  BY <1>3, <1>4
<1>7. p \in Injection(N, N)
  BY <1>5, <1>6 DEF Injection, IsInjective
<1>8. read = [i \in N |-> rows[p[i]]]
  BY <1>1
<1> HIDE DEF p
<1> QED
  BY <1>2, <1>7, <1>8 DEF N

\* The rows of a version that are in time come in the order in which they were inserted.
LEMMA SameOrder ==
    ASSUME NEW rows \in Seq(Rows), NEW n \in Nat, n = Len(rows),
           NEW p \in Injection(1..n, 1..n),
           \A i, k \in 1..n : i < k => rows[p[i]].applied <= rows[p[k]].applied
    PROVE  /\ p \in [1..n -> 1..n]
           /\ \A a \in 1..n : \E i \in 1..n : p[i] = a
           /\ \A v : InTime(rows, v) =>
                \A i, k \in 1..n : rows[p[i]].version = v /\ rows[p[k]].version = v =>
                    (i < k <=> p[i] < p[k])
<1> DEFINE N == 1..n
<1>1. p \in [N -> N] /\ \A i, k \in N : p[i] = p[k] => i = k
  BY DEF Injection, IsInjective
<1>2. IsFiniteSet(1..n)
  BY FS_Interval
<1>3. \A a \in N : \E i \in N : p[i] = a
  <2>1. p \in Surjection(1..n, 1..n)
    BY <1>2, FS_Injection
  <2> QED
    BY <2>1 DEF Surjection
<1>4. \A a \in N : rows[a].applied \in Nat
  <2>1. \A a \in N : rows[a] \in Rows
    OBVIOUS
  <2> QED
    BY <2>1 DEF Rows
<1>5. ASSUME NEW v, InTime(rows, v), NEW i \in N, NEW k \in N,
             rows[p[i]].version = v, rows[p[k]].version = v, i < k
      PROVE  p[i] < p[k]
  <2>1. p[i] # p[k]
    BY <1>1, <1>5
  <2>2. p[i] \in N /\ p[k] \in N
    BY <1>1
  <2>3. ~ (p[k] < p[i])
    <3> SUFFICES ASSUME p[k] < p[i] PROVE FALSE
      OBVIOUS
    <3>1. rows[p[k]].applied < rows[p[i]].applied
      BY <1>5, <2>2 DEF InTime
    <3>2. rows[p[i]].applied <= rows[p[k]].applied
      BY <1>5
    <3>3. rows[p[i]].applied \in Nat /\ rows[p[k]].applied \in Nat
      BY <1>4, <2>2
    <3> QED
      BY <3>1, <3>2, <3>3
  <2> QED
    BY <2>1, <2>2, <2>3
<1>6. ASSUME NEW v, InTime(rows, v), NEW i \in N, NEW k \in N,
             rows[p[i]].version = v, rows[p[k]].version = v
      PROVE  i < k <=> p[i] < p[k]
  <2>1. p[i] \in N /\ p[k] \in N
    BY <1>1
  <2>2. i < k \/ k < i \/ i = k
    OBVIOUS
  <2>3. CASE i < k
    BY <1>5, <1>6, <2>3
  <2>4. CASE k < i
    <3>1. p[k] < p[i]
      BY <1>5, <1>6, <2>4
    <3> QED
      BY <2>1, <2>4, <3>1
  <2>5. CASE i = k
    BY <2>1, <2>5
  <2> QED
    BY <2>2, <2>3, <2>4, <2>5
<1> QED
  BY <1>1, <1>3, <1>6

\* Row p[i] is read at place i; and what SameOrder says of that.
Reorders(rows, read, n, p) ==
    /\ read \in Seq(Rows) /\ Len(read) = n /\ \A i \in 1..n : read[i] = rows[p[i]]
    /\ \A a \in 1..n : \E i \in 1..n : p[i] = a
    /\ \A v : InTime(rows, v) =>
        \A i, k \in 1..n : rows[p[i]].version = v /\ rows[p[k]].version = v =>
            (i < k <=> p[i] < p[k])

LEMMA ReadOrder ==
    ASSUME NEW rows \in Seq(Rows), NEW read \in Ordered(rows), NEW n \in Nat, n = Len(rows)
    PROVE  \E p \in [1..n -> 1..n] : Reorders(rows, read, n, p)
<1>1. PICK p \in Injection(1..n, 1..n) :
        /\ read = [i \in 1..n |-> rows[p[i]]]
        /\ \A i, k \in 1..n : i < k => read[i].applied <= read[k].applied
  BY OrderedMeans
<1>2. p \in [1..n -> 1..n]
  BY DEF Injection
<1>3. read \in Seq(Rows) /\ Len(read) = n /\ \A i \in 1..n : read[i] = rows[p[i]]
  <2>1. \A a \in 1..n : rows[a] \in Rows
    OBVIOUS
  <2>2. read \in [1..n -> Rows]
    BY <1>1, <1>2, <2>1
  <2> QED
    BY <1>1, <2>2
<1>4. \A i, k \in 1..n : i < k => rows[p[i]].applied <= rows[p[k]].applied
  BY <1>1, <1>3
<1>5. Reorders(rows, read, n, p)
  BY <1>3, <1>4, SameOrder DEF Reorders
<1> QED
  BY <1>2, <1>5

\* Every order in which rows may be read tells the same of a version that is in time.
LEMMA Told ==
    ASSUME NEW rows \in Seq(Rows), NEW read \in Ordered(rows), NEW v \in Versions,
           InTime(rows, v)
    PROVE  v \in ActiveDdls(read) <=> v \in ActiveDdls(rows)
<1>1. PICK n \in Nat : n = Len(rows)
  OBVIOUS
<1> DEFINE N == 1..n
<1>2. PICK p \in [1..n -> 1..n] : Reorders(rows, read, n, p)
  BY <1>1, ReadOrder
<1>3. /\ p \in [N -> N]
      /\ \A a \in N : \E i \in N : p[i] = a
      /\ \A i, k \in N : rows[p[i]].version = v /\ rows[p[k]].version = v => (i < k <=> p[i] < p[k])
  BY <1>2 DEF Reorders
<1>4. read \in Seq(Rows) /\ Len(read) = n /\ \A i \in N : read[i] = rows[p[i]]
  BY <1>2 DEF Reorders
<1>5. ASSUME v \in ActiveDdls(read) PROVE v \in ActiveDdls(rows)
  <2>1. PICK i \in N : /\ read[i].version = v /\ read[i].action = "apply"
                       /\ \A k \in (i + 1)..n : read[k].version = v => read[k].action = "apply"
    BY <1>4, <1>5 DEF ActiveDdls
  <2>2. p[i] \in N /\ rows[p[i]].version = v /\ rows[p[i]].action = "apply"
    BY <1>3, <1>4, <2>1
  <2>3. ASSUME NEW b \in (p[i] + 1)..n, rows[b].version = v PROVE rows[b].action = "apply"
    <3>1. b \in N /\ p[i] < b
      BY <2>2
    <3>2. PICK k \in N : p[k] = b
      BY <1>3, <3>1
    <3>3. i < k
      BY <1>3, <2>2, <2>3, <3>1, <3>2
    <3>4. k \in (i + 1)..n
      BY <3>3
    <3>5. read[k] = rows[b]
      BY <1>4, <3>2
    <3> QED
      BY <2>1, <2>3, <3>4, <3>5
  <2> QED
    BY <1>1, <2>2, <2>3 DEF ActiveDdls
<1>6. ASSUME v \in ActiveDdls(rows) PROVE v \in ActiveDdls(read)
  <2>1. PICK a \in N : /\ rows[a].version = v /\ rows[a].action = "apply"
                       /\ \A b \in (a + 1)..n : rows[b].version = v => rows[b].action = "apply"
    BY <1>1, <1>6 DEF ActiveDdls
  <2>2. PICK i \in N : p[i] = a
    BY <1>3
  <2>3. read[i].version = v /\ read[i].action = "apply"
    BY <1>4, <2>1, <2>2
  <2>4. ASSUME NEW k \in (i + 1)..n, read[k].version = v PROVE read[k].action = "apply"
    <3>1. k \in N /\ i < k
      OBVIOUS
    <3>2. read[k] = rows[p[k]] /\ p[k] \in N
      BY <1>3, <1>4, <3>1
    <3>3. a < p[k]
      BY <1>3, <2>1, <2>2, <2>4, <3>1, <3>2
    <3>4. p[k] \in (a + 1)..n
      BY <3>2, <3>3
    <3> QED
      BY <2>1, <2>4, <3>2, <3>4
  <2>5. v \in Versions
    BY DEF ActiveDdls
  <2> QED
    BY <1>4, <2>3, <2>4, <2>5 DEF ActiveDdls
<1> QED
  BY <1>5, <1>6

\* If all are in time, every order tells the same, and can be read if the rows can.
LEMMA AnyOrder ==
    ASSUME NEW rows \in Seq(Rows), Apart(rows), NEW read \in Ordered(rows)
    PROVE  /\ ActiveDdls(read) = ActiveDdls(rows)
           /\ Readable(rows) => Readable(read)
<1>1. PICK n \in Nat : n = Len(rows)
  OBVIOUS
<1> DEFINE N == 1..n
<1>2. PICK p \in [1..n -> 1..n] : Reorders(rows, read, n, p)
  BY <1>1, ReadOrder
<1>3. /\ p \in [N -> N]
      /\ \A a \in N : \E i \in N : p[i] = a
      /\ \A i, k \in N : rows[p[i]].version = rows[p[k]].version => (i < k <=> p[i] < p[k])
  <2>1. ASSUME NEW i \in N, NEW k \in N, rows[p[i]].version = rows[p[k]].version
        PROVE  i < k <=> p[i] < p[k]
    <3>1. rows[p[i]] \in Rows
      BY <1>1
    <3>2. InTime(rows, rows[p[i]].version)
      BY <3>1 DEF Apart, Rows
    <3> QED
      BY <1>2, <2>1, <3>2 DEF Reorders
  <2> QED
    BY <1>2, <2>1 DEF Reorders
<1>4. read \in Seq(Rows) /\ Len(read) = n /\ \A i \in N : read[i] = rows[p[i]]
  BY <1>2 DEF Reorders
<1>5. ActiveDdls(read) = ActiveDdls(rows)
  <2>1. \A v \in Versions : v \in ActiveDdls(read) <=> v \in ActiveDdls(rows)
    BY Told DEF Apart
  <2>2. ActiveDdls(read) \subseteq Versions /\ ActiveDdls(rows) \subseteq Versions
    BY DEF ActiveDdls
  <2> QED
    BY <2>1, <2>2
<1>7. ASSUME Readable(rows) PROVE Readable(read)
  <2> SUFFICES ASSUME NEW i \in N, read[i].action = "rollback"
               PROVE  \E c \in 1..(i - 1) :
                        /\ read[c].version = read[i].version /\ read[c].action = "apply"
                        /\ \A k \in (c + 1)..(i - 1) :
                            read[k].version = read[i].version => read[k].action = "apply"
    BY <1>4, ReadableMeans
  <2>1. p[i] \in N /\ p[i] \in Int /\ read[i] = rows[p[i]]
    BY <1>3, <1>4
  <2>2. PICK a \in 1..(p[i] - 1) :
          /\ rows[a].version = rows[p[i]].version /\ rows[a].action = "apply"
          /\ \A b \in (a + 1)..(p[i] - 1) :
              rows[b].version = rows[p[i]].version => rows[b].action = "apply"
    BY <1>1, <1>7, <2>1, ReadableMeans
  <2>3. a \in N /\ a < p[i]
    <3>1. a \in 1..(p[i] - 1)
      BY <2>2
    <3> QED
      BY <2>1, <3>1
  <2>4. PICK c \in N : p[c] = a
    BY <1>3, <2>3
  <2>5. c < i
    BY <1>3, <2>2, <2>3, <2>4
  <2>6. c \in 1..(i - 1) /\ read[c].version = read[i].version /\ read[c].action = "apply"
    <3>1. c \in 1..(i - 1)
      BY <2>5
    <3>2. read[c] = rows[a] /\ read[i] = rows[p[i]]
      BY <1>4, <2>1, <2>4
    <3> QED
      BY <2>2, <3>1, <3>2
  <2>7. ASSUME NEW k \in (c + 1)..(i - 1), read[k].version = read[i].version
        PROVE  read[k].action = "apply"
    <3>1. k \in N /\ c < k /\ k < i
      BY <2>6
    <3>2. read[k] = rows[p[k]] /\ p[k] \in N
      BY <1>3, <1>4, <3>1
    <3>3. a < p[k] /\ p[k] < p[i]
      <4>1. rows[p[k]].version = rows[p[i]].version /\ rows[p[c]].version = rows[p[k]].version
        BY <2>1, <2>2, <2>4, <2>7, <3>2
      <4>2. p[c] < p[k] /\ p[k] < p[i]
        BY <1>3, <3>1, <4>1
      <4> QED
        BY <2>4, <4>2
    <3>4. p[k] \in (a + 1)..(p[i] - 1)
      <4>1. p[k] \in Int /\ a \in Int
        BY <2>3, <3>2
      <4> QED
        BY <2>1, <3>3, <4>1
    <3> QED
      BY <2>1, <2>2, <2>7, <3>2, <3>4
  <2> QED
    BY <2>6, <2>7
<1> QED
  BY <1>5, <1>7

-----------------------------------------------------------------------------

\* No version is there in part, and the history has what the database has.
Whole ==
    /\ schema \in [Versions -> {"absent", "present"}]
    /\ history \in Seq(Rows)
    /\ Active = Present

\* Without a table there are no rows; DDL is run when there is one, for versions
\* that there are files of.
Prepared ==
    /\ table \in {"none", "v1", "v2"}
    /\ table = "none" => history = <<>>
    /\ clock \in Nat
    /\ files \subseteq Versions
    /\ pc \in [Operators -> {"idle", "read", "ddl"}]
    /\ cmd \in [Operators -> {"update", "rollback", "status"}]
    /\ todo \in [Operators -> SUBSET Versions]
    /\ began \in [Operators -> Nat \cup {NotOpen}]
    /\ \A o \in Operators : pc[o] = "ddl" => table = "v2" /\ todo[o] # {}

IInv == Whole /\ Prepared

LEMMA InitIInv == Init => IInv
<1> SUFFICES ASSUME Init PROVE IInv
  OBVIOUS
<1>1. Active = {} /\ Present = {}
  BY ActiveNone DEF Init, Active, Present
<1> QED
  BY <1>1, SchemaAssumption DEF Init, IInv, Whole, Prepared

\* A version is applied or taken back together with its row.
LEMMA Together ==
    ASSUME Whole, NEW v \in Versions, NEW action \in {"apply", "rollback"}, NEW time \in Nat,
           history' = Append(history, Row(v, action, time)),
           schema' = [schema EXCEPT ![v] = IF action = "apply" THEN "present" ELSE "absent"]
    PROVE  Whole'
<1>1. Row(v, action, time) \in Rows
  BY DEF Row, Rows
<1>2. history' \in Seq(Rows) /\ schema' \in [Versions -> {"absent", "present"}]
  BY <1>1 DEF Whole
<1>3. Active' = IF action = "apply" THEN Active \cup {v} ELSE Active \ {v}
  BY <1>1, ActiveAppend DEF Whole, Active, Row
<1>4. Present' = IF action = "apply" THEN Present \cup {v} ELSE Present \ {v}
  BY DEF Whole, Present
<1> QED
  BY <1>2, <1>3, <1>4 DEF Whole

LEMMA Unwritten ==
    ASSUME Whole, UNCHANGED <<schema, history>>
    PROVE  Whole'
BY DEF Whole, Active, Present

\* What Exit leaves of the operators' variables.
LEMMA ExitPrepared ==
    ASSUME Prepared, NEW o \in Operators, NEW code, Exit(o, code)
    PROVE  /\ pc' \in [Operators -> {"idle", "read", "ddl"}]
           /\ cmd' \in [Operators -> {"update", "rollback", "status"}]
           /\ todo' \in [Operators -> SUBSET Versions]
           /\ began' \in [Operators -> Nat \cup {NotOpen}]
           /\ \A p \in Operators : pc'[p] = "ddl" => pc[p] = "ddl" /\ todo'[p] = todo[p]
BY DEF Prepared, Exit

\* What a command decides to do is to run the DDL of versions, if anything.
LEMMA DecidePrepared ==
    ASSUME Prepared, NEW o \in Operators, NEW rows, Decide(o, rows)
    PROVE  /\ pc' \in [Operators -> {"idle", "read", "ddl"}]
           /\ cmd' \in [Operators -> {"update", "rollback", "status"}]
           /\ todo' \in [Operators -> SUBSET Versions]
           /\ began' \in [Operators -> Nat \cup {NotOpen}]
           /\ \A p \in Operators : pc'[p] = "ddl" => 
                todo'[p] # {} /\ (p # o => pc[p] = "ddl")
<1> DEFINE active == ActiveDdls(rows)
           Do(versions) ==
                /\ todo' = [todo EXCEPT ![o] = versions]
                /\ pc' = [pc EXCEPT ![o] = "ddl"]
                /\ began' = [began EXCEPT ![o] = Opened]
                /\ UNCHANGED <<cmd, result>>
<1>1. ASSUME NEW code, Exit(o, code)
      PROVE  /\ pc' \in [Operators -> {"idle", "read", "ddl"}]
             /\ cmd' \in [Operators -> {"update", "rollback", "status"}]
             /\ todo' \in [Operators -> SUBSET Versions]
             /\ began' \in [Operators -> Nat \cup {NotOpen}]
             /\ \A p \in Operators : pc'[p] = "ddl" => 
                  todo'[p] # {} /\ (p # o => pc[p] = "ddl")
  BY <1>1, ExitPrepared DEF Prepared
<1>2. ASSUME NEW versions \in SUBSET Versions, versions # {}, Do(versions)
      PROVE  /\ pc' \in [Operators -> {"idle", "read", "ddl"}]
             /\ cmd' \in [Operators -> {"update", "rollback", "status"}]
             /\ todo' \in [Operators -> SUBSET Versions]
             /\ began' \in [Operators -> Nat \cup {NotOpen}]
             /\ \A p \in Operators : pc'[p] = "ddl" => 
                  todo'[p] # {} /\ (p # o => pc[p] = "ddl")
  BY <1>2 DEF Prepared, Opened
<1>3. \/ \E code \in 0..2 : Exit(o, code)
      \/ ~(files \subseteq active) /\ Do(files \ active)
      \/ Highest(active) \in Reversible /\ Do({Highest(active)})
  BY DEF Decide
<1>4. CASE \E code \in 0..2 : Exit(o, code)
  BY <1>1, <1>4
<1>5. CASE ~(files \subseteq active) /\ Do(files \ active)
  <2>1. files \ active \in SUBSET Versions /\ files \ active # {}
    BY <1>5 DEF Prepared
  <2> HIDE DEF Do, active
  <2> QED BY <1>2, <1>5, <2>1
<1>6. CASE Highest(active) \in Reversible /\ Do({Highest(active)})
  <2>1. {Highest(active)} \in SUBSET Versions /\ {Highest(active)} # {}
    BY <1>6, SchemaAssumption
  <2> HIDE DEF Do, active
  <2> QED BY <1>2, <1>6, <2>1
<1> QED
  BY <1>3, <1>4, <1>5, <1>6

\* DDL is run for the version whose turn it is.
LEMMA TurnIn ==
    ASSUME Prepared, NEW o \in Operators, pc[o] = "ddl"
    PROVE  Turn(o) \in todo[o] /\ Turn(o) \in Versions
<1>1. todo[o] \subseteq Versions /\ todo[o] # {} /\ todo[o] \subseteq Nat
  BY SchemaAssumption DEF Prepared
<1> QED
  BY <1>1, LowestIn DEF Turn

LEMMA ProceedPrepared ==
    ASSUME Prepared, NEW o \in Operators, pc[o] = "ddl", Proceed(o)
    PROVE  /\ pc' \in [Operators -> {"idle", "read", "ddl"}]
           /\ cmd' \in [Operators -> {"update", "rollback", "status"}]
           /\ todo' \in [Operators -> SUBSET Versions]
           /\ began' \in [Operators -> Nat \cup {NotOpen}]
           /\ \A p \in Operators : pc'[p] = "ddl" => pc[p] = "ddl" /\ todo'[p] # {}
<1>1. Turn(o) \in todo[o]
  BY TurnIn
<1>2. CASE todo[o] = {Turn(o)}
  BY <1>2, ExitPrepared DEF Proceed, Prepared
<1>3. CASE todo[o] # {Turn(o)}
  <2>1. todo[o] \ {Turn(o)} # {} /\ todo[o] \ {Turn(o)} \subseteq Versions
    BY <1>1, <1>3 DEF Prepared
  <2> QED
    BY <1>3, <2>1 DEF Proceed, Prepared
<1> QED
  BY <1>2, <1>3

LEMMA InstallIInv ==
    ASSUME IInv, NEW v \in Versions, Install(v)
    PROVE  IInv'
<1>1. CASE table = "v1" /\ commands = 0
  <2>1. /\ history' = Append(history, Row(v, "apply", clock))
        /\ schema' = [schema EXCEPT ![v] = IF "apply" = "apply" THEN "present" ELSE "absent"]
    BY <1>1 DEF Install
  <2>2. Whole'
    BY <2>1, Together DEF IInv, Prepared
  <2>3. Prepared'
    BY <1>1 DEF IInv, Prepared, Install, control
  <2> QED
    BY <2>2, <2>3 DEF IInv
<1>2. CASE ~(table = "v1" /\ commands = 0)
  <2>1. Whole'
    BY <1>2, Unwritten DEF IInv, Install
  <2>2. Prepared'
    BY <1>2 DEF IInv, Prepared, Install, control
  <2> QED
    BY <2>1, <2>2 DEF IInv
<1> QED
  BY <1>1, <1>2

LEMMA RunIInv ==
    ASSUME IInv, Transactional, NEW o \in Operators, RunDdl(o)
    PROVE  IInv'
<1>1. Turn(o) \in Versions
  BY TurnIn DEF IInv, RunDdl
<1>2. /\ history' = Append(history, Row(Turn(o), Action(o), began[o]))
      /\ schema' = [schema EXCEPT ![Turn(o)] = IF Action(o) = "apply" THEN "present" ELSE "absent"]
      /\ Action(o) \in {"apply", "rollback"}
      /\ began[o] \in Nat
  BY DEF RunDdl, Recorded, Action, Target, Now, IInv, Prepared
<1>3. Whole'
  BY <1>1, <1>2, Together DEF IInv, Prepared
<1>4. Prepared'
  <2>1. pc[o] = "ddl" /\ Proceed(o) /\ UNCHANGED <<files, table, clock>> /\ table = "v2"
    BY DEF RunDdl, IInv, Prepared
  <2> QED
    BY <2>1, ProceedPrepared DEF IInv, Prepared
<1> QED
  BY <1>3, <1>4 DEF IInv

LEMMA ReadIInv ==
    ASSUME IInv, Transactional, NEW o \in Operators, ReadHistory(o)
    PROVE  IInv'
<1>1. /\ table' = "v2"
      /\ history' = history
      /\ UNCHANGED <<schema, files, clock>>
      /\ \E rows : Decide(o, rows)
  BY DEF ReadHistory, store, IInv, Prepared
<1>2. Whole'
  BY <1>1, Unwritten DEF IInv
<1>3. PICK rows : Decide(o, rows)
  BY <1>1
<1>4. Prepared'
  BY <1>1, <1>3, DecidePrepared DEF IInv, Prepared
<1> QED
  BY <1>2, <1>4 DEF IInv

\* A command that ends in the middle leaves the database as it is.
LEMMA EndIInv ==
    ASSUME IInv, NEW o \in Operators, Exit(o, 2),
           UNCHANGED <<files, schema, table, history, clock>>
    PROVE  IInv'
<1>1. Whole'
  BY Unwritten DEF IInv
<1>2. Prepared'
  BY ExitPrepared DEF IInv, Prepared
<1> QED
  BY <1>1, <1>2 DEF IInv

LEMMA NextIInv ==
    ASSUME IInv, Transactional, [Next]_vars
    PROVE  IInv'
<1>1. ASSUME NEW v \in Versions, Install(v) PROVE IInv'
  BY <1>1, InstallIInv
<1>2. ASSUME NEW o \in Operators, CommandNext(o) PROVE IInv'
  <2>1. ASSUME NEW action \in {"update", "rollback", "status"}, Start(o, action) PROVE IInv'
    <3>1. Whole'
      BY <2>1, Unwritten DEF Start, store, IInv
    <3>2. clock' \in Nat
      BY <2>1 DEF Start, IInv, Prepared
    <3>3. Prepared'
      BY <2>1, <3>2 DEF Start, store, IInv, Prepared
    <3> QED
      BY <3>1, <3>3 DEF IInv
  <2>2. CASE ReadHistory(o)
    BY <2>2, ReadIInv
  <2>3. CASE AlterTable(o)
    <3>1. Whole'
      BY <2>3, Unwritten DEF AlterTable, IInv
    <3>2. Prepared'
      BY <2>3 DEF AlterTable, control, IInv, Prepared
    <3> QED
      BY <3>1, <3>2 DEF IInv
  <2>4. CASE CreateNew(o) \/ CopyRows(o) \/ DropOld(o) \/ RenameNew(o) \/ Record(o)
    BY <2>4 DEF CreateNew, CopyRows, DropOld, RenameNew, Record, IInv, Prepared
  <2>5. CASE RunDdl(o)
    BY <2>5, RunIInv
  <2>6. CASE DdlFails(o)
    <3>1. Exit(o, 2) /\ UNCHANGED <<files, schema, table, history, clock>>
      BY <2>6 DEF DdlFails
    <3> QED
      BY <3>1, EndIInv
  <2>8. CASE Begin(o)
    <3>1. Whole'
      BY <2>8, Unwritten DEF Begin, store, IInv
    <3>2. Prepared'
      BY <2>8 DEF Begin, store, IInv, Prepared
    <3> QED
      BY <3>1, <3>2 DEF IInv
  <2>7. CASE Crash(o)
    <3>1. Exit(o, 2) /\ UNCHANGED <<files, schema, table, history, clock>>
      BY <2>7 DEF Crash, store
    <3> QED
      BY <3>1, EndIInv
  <2> QED
    BY <1>2, <2>1, <2>2, <2>3, <2>4, <2>5, <2>6, <2>7, <2>8 DEF CommandNext
<1>3. CASE UNCHANGED vars
  <2>1. Whole'
    BY <1>3, Unwritten DEF vars, store, IInv
  <2>2. Prepared'
    BY <1>3 DEF vars, store, control, IInv, Prepared
  <2> QED
    BY <2>1, <2>2 DEF IInv
<1> QED
  BY <1>1, <1>2, <1>3 DEF Next

LEMMA IInvInStep == IInv => InStep
<1> SUFFICES ASSUME IInv
             PROVE  /\ Active = Present
                    /\ \A v \in Versions : schema[v] # "part"
                    /\ \A rows \in Ordered(history) : \A v \in Versions :
                        (v \in ActiveDdls(rows) <=> v \in Present) \/ Overtaken(v)
  BY DEF InStep
<1>1. Active = Present /\ \A v \in Versions : schema[v] # "part"
  BY DEF IInv, Whole
<1>2. history \in Seq(Rows)
  BY DEF IInv, Whole
<1>3. ASSUME NEW v \in Versions, ~Overtaken(v) PROVE InTime(history, v)
  <2>1. \A i \in 1..Len(history) : history[i] \in Rows
    BY <1>2
  <2>2. \A i \in 1..Len(history) : history[i].applied \in Nat
    BY <2>1 DEF Rows
  <2> QED
    BY <1>3, <2>2 DEF Overtaken, InTime
<1>4. ASSUME NEW rows \in Ordered(history), NEW v \in Versions, ~Overtaken(v)
      PROVE  v \in ActiveDdls(rows) <=> v \in Present
  <2>1. v \in ActiveDdls(rows) <=> v \in ActiveDdls(history)
    BY <1>2, <1>3, <1>4, Told
  <2> QED
    BY <1>1, <2>1 DEF Active
<1> QED
  BY <1>1, <1>4

\* InStep is an invariant: whatever fails or is killed, and whoever runs commands
\* at the same time, Postgres has exactly the versions that rows record; and a command is
\* told so of every version of which no row has the time of a transaction that began
\* before that of a row inserted earlier, in whichever order rows of one second come.
THEOREM HistoryTells == Spec => []InStep
<1>1. CASE Transactional
  <2>1. Init => IInv
    BY InitIInv
  <2>2. IInv /\ [Next]_vars => IInv'
    BY <1>1, NextIInv
  <2> QED
    BY <2>1, <2>2, IInvInStep, PTL DEF Spec
<1>2. CASE ~Transactional
  <2>1. InStep
    BY <1>2 DEF InStep
  <2>2. InStep'
    BY <1>2 DEF InStep
  <2> QED
    BY <2>1, <2>2, PTL
<1> QED
  BY <1>1, <1>2

-----------------------------------------------------------------------------
(* Rows that a command can read                                            *)

OneOperator == \A o, p \in Operators : o = p

\* Rows that were all inserted by second c, and that a command can read.
Sound(rows, c) ==
    /\ Apart(rows)
    /\ Readable(rows)
    /\ \A i \in 1..Len(rows) : rows[i].applied <= c
    /\ \E top \in Nat : \A i \in 1..Len(rows) : rows[i].version <= top

\* A row that is added keeps rows sound, if it is the first of its version in this second,
\* and takes back only what is applied.
LEMMA SoundAppend ==
    ASSUME NEW rows \in Seq(Rows), NEW c \in Nat, Sound(rows, c), NEW row \in Rows,
           row.applied = c,
           \A i \in 1..Len(rows) : rows[i].version = row.version => rows[i].applied < c,
           row.action = "rollback" => row.version \in ActiveDdls(rows)
    PROVE  Sound(Append(rows, row), c)
<1> DEFINE new == Append(rows, row)
<1>1. PICK n \in Nat : n = Len(rows)
  OBVIOUS
<1>2. new \in Seq(Rows) /\ Len(new) = n + 1 /\ new[n + 1] = row /\ \A i \in 1..n : new[i] = rows[i]
  BY <1>1
<1>3. row.version \in Versions /\ row.version \in Nat
  BY SchemaAssumption DEF Rows
<1> HIDE DEF new
<1>4. Apart(new)
  <2> SUFFICES ASSUME NEW v \in Versions, NEW i \in 1..(n + 1), NEW k \in 1..(n + 1), i < k,
                      new[i].version = v, new[k].version = v
               PROVE  new[i].applied < new[k].applied
    BY <1>2 DEF Apart, InTime
  <2>1. i \in 1..n
    OBVIOUS
  <2>2. CASE k \in 1..n
    BY <1>1, <1>2, <2>1, <2>2 DEF Sound, Apart, InTime
  <2>3. CASE k = n + 1
    BY <1>1, <1>2, <2>1, <2>3
  <2> QED
    BY <2>2, <2>3
<1>5. Readable(new)
  <2> SUFFICES ASSUME NEW i \in 1..(n + 1), new[i].action = "rollback"
               PROVE  \E b \in 1..(i - 1) :
                        /\ new[b].version = new[i].version /\ new[b].action = "apply"
                        /\ \A k \in (b + 1)..(i - 1) :
                            new[k].version = new[i].version => new[k].action = "apply"
    BY <1>2, ReadableMeans
  <2>1. CASE i \in 1..n
    <3>1. PICK b \in 1..(i - 1) :
            /\ rows[b].version = rows[i].version /\ rows[b].action = "apply"
            /\ \A k \in (b + 1)..(i - 1) :
                rows[k].version = rows[i].version => rows[k].action = "apply"
      <4>1. rows[i].action = "rollback" /\ Readable(rows)
        BY <1>2, <2>1 DEF Sound
      <4> QED
        BY <1>1, <2>1, <4>1, ReadableMeans
    <3>2. b \in 1..n /\ (b + 1)..(i - 1) \subseteq 1..n
      BY <2>1
    <3> QED
      BY <1>2, <2>1, <3>1, <3>2
  <2>2. CASE i = n + 1
    <3>1. row.version \in ActiveDdls(rows)
      BY <1>2, <2>2
    <3>2. PICK b \in 1..n :
            /\ rows[b].version = row.version /\ rows[b].action = "apply"
            /\ \A k \in (b + 1)..n : rows[k].version = row.version => rows[k].action = "apply"
      BY <1>1, <3>1 DEF ActiveDdls
    <3>3. b \in 1..(i - 1) /\ i - 1 = n /\ (b + 1)..n \subseteq 1..n
      BY <2>2
    <3> QED
      BY <1>2, <2>2, <3>2, <3>3
  <2> QED
    BY <2>1, <2>2
<1>6. \A i \in 1..(n + 1) : new[i].applied <= c
  BY <1>1, <1>2 DEF Sound
<1>7. \E top \in Nat : \A i \in 1..(n + 1) : new[i].version <= top
  <2>1. PICK top \in Nat : \A i \in 1..n : rows[i].version <= top
    BY <1>1 DEF Sound
  <2>2. \A i \in 1..n : rows[i] \in Rows
    BY <1>1
  <2>3. \A i \in 1..n : rows[i].version \in Nat
    BY <2>2, SchemaAssumption DEF Rows
  <2>4. CASE row.version <= top
    <3>1. ASSUME NEW i \in 1..(n + 1) PROVE new[i].version <= top
      <4>1. CASE i = n + 1
        BY <1>2, <2>4, <4>1
      <4>2. CASE i \in 1..n
        BY <1>2, <2>1, <4>2
      <4> QED
        BY <4>1, <4>2
    <3> QED
      BY <2>1, <3>1
  <2>5. CASE top <= row.version
    <3>1. ASSUME NEW i \in 1..(n + 1) PROVE new[i].version <= row.version
      <4>1. CASE i = n + 1
        BY <1>2, <1>3, <4>1
      <4>2. CASE i \in 1..n
        <5>1. new[i].version = rows[i].version /\ rows[i].version <= top /\ rows[i].version \in Nat
          BY <1>2, <2>1, <2>3, <4>2
        <5> QED
          BY <1>3, <2>5, <5>1
      <4> QED
        BY <4>1, <4>2
    <3> QED
      BY <1>3, <3>1
  <2>6. row.version <= top \/ top <= row.version
    BY <1>3, <2>1
  <2> QED
    BY <2>4, <2>5, <2>6
<1> QED
  BY <1>2, <1>4, <1>5, <1>6, <1>7 DEF Sound, new

LEMMA SoundLater ==
    ASSUME NEW rows \in Seq(Rows), NEW c \in Nat, NEW d \in Nat, c <= d, Sound(rows, c)
    PROVE  Sound(rows, d)
<1>1. \A i \in 1..Len(rows) : rows[i] \in Rows /\ rows[i].applied <= c
  BY DEF Sound
<1>2. \A i \in 1..Len(rows) : rows[i].applied \in Nat
  BY <1>1 DEF Rows
<1>3. \A i \in 1..Len(rows) : rows[i].applied <= d
  BY <1>1, <1>2
<1> QED
  BY <1>3 DEF Sound

LEMMA SoundNone == \A c \in Nat : Sound(<<>>, c)
BY DEF Sound, Apart, InTime, Readable

\* There is a highest version among those of sound rows, if any is active.
LEMMA HighestIn ==
    ASSUME NEW rows \in Seq(Rows), NEW c, Sound(rows, c), ActiveDdls(rows) # {}
    PROVE  /\ Highest(ActiveDdls(rows)) \in ActiveDdls(rows)
           /\ \A v \in ActiveDdls(rows) : v <= Highest(ActiveDdls(rows))
<1> DEFINE S == ActiveDdls(rows)
           Bounds == {top \in Nat : \A v \in S : v <= top}
<1>1. S \subseteq Nat /\ S # {}
  BY SchemaAssumption DEF ActiveDdls
<1>2. PICK top \in Nat : \A i \in 1..Len(rows) : rows[i].version <= top
  BY DEF Sound
<1>3. Bounds # {}
  <2>1. \A v \in S : v <= top
    BY <1>2 DEF ActiveDdls
  <2> QED
    BY <2>1
<1> HIDE DEF S
<1>4. PICK least \in Bounds : \A b \in Bounds : ~ (<<b, least>> \in OpToRel(<, Nat))
  BY <1>3, NatLessThanWellFounded, WFMin
<1>5. \A b \in Bounds : ~ (b < least)
  BY <1>4, Zenon DEF OpToRel
<1>6. least \in Nat /\ \A v \in S : v <= least
  BY <1>4
<1>7. least \in S
  <2> SUFFICES ASSUME least \notin S PROVE FALSE
    OBVIOUS
  <2>1. \A v \in S : v < least /\ v \in Nat
    BY <1>1, <1>6
  <2>2. PICK v \in S : TRUE
    BY <1>1
  <2>3. least - 1 \in Nat /\ \A u \in S : u <= least - 1
    BY <1>6, <2>1, <2>2
  <2>4. least - 1 \in Bounds /\ least - 1 < least
    BY <1>6, <2>3
  <2> QED
    BY <1>5, <2>4
<1>8. Highest(S) \in S /\ \A v \in S : v <= Highest(S)
  BY <1>6, <1>7 DEF Highest
<1> QED
  BY <1>8 DEF S

-----------------------------------------------------------------------------
(* Types, for any number of operators                                      *)

StoreType ==
    /\ files \subseteq Versions
    /\ schema \in [Versions -> {"absent", "part", "present"}]
    /\ table \in {"none", "v1", "v2"}
    /\ history \in Seq(Rows)
    /\ spare \in [there : BOOLEAN, rows : Seq(Rows)]
    /\ clock \in Nat

Steps == {"idle", "read", "copy", "drop", "rename", "ddl", "record"}

ControlType ==
    /\ pc \in [Operators -> Steps]
    /\ cmd \in [Operators -> {"update", "rollback", "status"}]
    /\ todo \in [Operators -> SUBSET Versions]
    /\ \A o \in Operators : pc[o] \in {"ddl", "record"} =>
        todo[o] # {} /\ cmd[o] \in {"update", "rollback"}
    /\ \A o \in Operators : pc[o] = "record" => ~Transactional
    /\ began \in [Operators -> Nat \cup {NotOpen}]
    /\ result \in [Operators -> 0..2]

LEMMA TypeParts ==
    /\ TypeOK <=> StoreType /\ ControlType
    /\ TypeOK' <=> StoreType' /\ ControlType'
BY DEF TypeOK, StoreType, ControlType, Steps

LEMMA ExitControl ==
    ASSUME ControlType, NEW o \in Operators, NEW code \in 0..2, Exit(o, code)
    PROVE  ControlType'
<1>1. /\ pc' \in [Operators -> Steps]
      /\ todo' \in [Operators -> SUBSET Versions]
      /\ began' \in [Operators -> Nat \cup {NotOpen}]
      /\ result' \in [Operators -> 0..2]
      /\ cmd' = cmd
  BY DEF Exit, ControlType, Steps
<1>2. \A p \in Operators : /\ pc'[p] \in {"ddl", "record"} => pc[p] = pc'[p] /\ todo'[p] = todo[p]
  BY DEF Exit, ControlType
<1> QED
  BY <1>1, <1>2 DEF ControlType

LEMMA GotoControl ==
    ASSUME ControlType, NEW o \in Operators, NEW step \in Steps, Goto(o, step),
           step \in {"ddl", "record"} => pc[o] \in {"ddl", "record"},
           step = "record" => ~Transactional
    PROVE  ControlType'
<1>1. pc' \in [Operators -> Steps] /\ UNCHANGED <<cmd, todo, began, result>>
  BY DEF Goto, ControlType
<1>2. \A p \in Operators :
        /\ pc'[p] \in {"ddl", "record"} => pc[p] \in {"ddl", "record"}
        /\ pc'[p] = "record" => ~Transactional
  BY DEF Goto, ControlType
<1> QED
  BY <1>1, <1>2 DEF ControlType

\* A command goes on with the DDL of some versions.
LEMMA DoControl ==
    ASSUME ControlType, NEW o \in Operators, NEW versions \in SUBSET Versions, versions # {},
           NEW time \in Nat \cup {NotOpen}, cmd[o] \in {"update", "rollback"},
           todo' = [todo EXCEPT ![o] = versions], pc' = [pc EXCEPT ![o] = "ddl"],
           began' = [began EXCEPT ![o] = time],
           UNCHANGED <<cmd, result>>
    PROVE  ControlType'
<1>1. /\ pc' \in [Operators -> Steps] /\ todo' \in [Operators -> SUBSET Versions]
      /\ began' \in [Operators -> Nat \cup {NotOpen}]
  BY DEF ControlType, Steps
<1>2. \A p \in Operators : pc'[p] \in {"ddl", "record"} =>
        todo'[p] # {} /\ cmd[p] \in {"update", "rollback"} /\ (pc'[p] = "record" => ~Transactional)
  BY DEF ControlType
<1> QED
  BY <1>1, <1>2 DEF ControlType

\* What a command decides: to end, to apply what is not active, or to take back the
\* highest version that is.
LEMMA Decides ==
    ASSUME NEW o \in Operators, NEW rows, Decide(o, rows)
    PROVE  \/ \E code \in 0..2 :
                /\ Exit(o, code)
                /\ code = 0 /\ cmd[o] # "rollback" => files \subseteq ActiveDdls(rows)
           \/ \E versions :
                /\ todo' = [todo EXCEPT ![o] = versions]
                /\ pc' = [pc EXCEPT ![o] = "ddl"]
                /\ began' = [began EXCEPT ![o] = Opened]
                /\ UNCHANGED <<cmd, result>>
                /\ versions # {}
                /\ \/ cmd[o] = "update" /\ versions = files \ ActiveDdls(rows)
                   \/ /\ cmd[o] = "rollback" /\ ActiveDdls(rows) # {}
                      /\ versions = {Highest(ActiveDdls(rows))}
                      /\ Highest(ActiveDdls(rows)) \in Reversible
<1> DEFINE active == ActiveDdls(rows)
           Do(versions) ==
                /\ todo' = [todo EXCEPT ![o] = versions]
                /\ pc' = [pc EXCEPT ![o] = "ddl"]
                /\ began' = [began EXCEPT ![o] = Opened]
                /\ UNCHANGED <<cmd, result>>
<1>1. \/ Exit(o, 2)
      \/ cmd[o] = "update" /\ files \subseteq active /\ Exit(o, 0)
      \/ cmd[o] = "update" /\ ~(files \subseteq active) /\ Do(files \ active)
      \/ cmd[o] = "rollback" /\ active = {} /\ Exit(o, 0)
      \/ cmd[o] = "rollback" /\ active # {} /\ Highest(active) \in Reversible /\ Do({Highest(active)})
      \/ Exit(o, 1)
      \/ cmd[o] = "status" /\ files \subseteq active /\ Exit(o, 0)
  <2>1. CASE ~Readable(rows)
    BY <2>1 DEF Decide
  <2>2. CASE Readable(rows)
    <3>1. CASE cmd[o] = "update"
      BY <2>2, <3>1 DEF Decide
    <3>2. CASE cmd[o] = "rollback"
      BY <2>2, <3>2 DEF Decide
    <3>3. CASE cmd[o] = "status"
      BY <2>2, <3>3 DEF Decide
    <3> QED
      BY <2>2, <3>1, <3>2, <3>3 DEF Decide
  <2> QED
    BY <2>1, <2>2
<1> HIDE DEF active
<1>2. ~(files \subseteq active) => files \ active # {}
  OBVIOUS
<1>3. {Highest(active)} # {}
  OBVIOUS
<1>4. CASE Exit(o, 2)
  BY <1>4
<1>5. CASE Exit(o, 1)
  BY <1>5
<1>6. CASE cmd[o] = "update" /\ files \subseteq active /\ Exit(o, 0)
  BY <1>6 DEF active
<1>7. CASE cmd[o] = "rollback" /\ active = {} /\ Exit(o, 0)
  BY <1>7
<1>8. CASE cmd[o] = "status" /\ files \subseteq active /\ Exit(o, 0)
  BY <1>8 DEF active
<1>9. CASE cmd[o] = "update" /\ ~(files \subseteq active) /\ Do(files \ active)
  BY <1>2, <1>9 DEF active
<1>10. CASE cmd[o] = "rollback" /\ active # {} /\ Highest(active) \in Reversible /\ Do({Highest(active)})
  BY <1>3, <1>10 DEF active
<1> QED
  BY <1>1, <1>4, <1>5, <1>6, <1>7, <1>8, <1>9, <1>10

LEMMA DecideControl ==
    ASSUME TypeOK, NEW o \in Operators, NEW rows, Decide(o, rows)
    PROVE  ControlType'
<1>1. ControlType
  BY TypeParts
<1>2. CASE \E code \in 0..2 : Exit(o, code)
  BY <1>1, <1>2, ExitControl
<1>3. ASSUME NEW versions,
             todo' = [todo EXCEPT ![o] = versions], pc' = [pc EXCEPT ![o] = "ddl"],
             began' = [began EXCEPT ![o] = Opened], UNCHANGED <<cmd, result>>, versions # {},
             \/ cmd[o] = "update" /\ versions = files \ ActiveDdls(rows)
             \/ cmd[o] = "rollback" /\ versions = {Highest(ActiveDdls(rows))}
                /\ Highest(ActiveDdls(rows)) \in Reversible
      PROVE  ControlType'
  <2>1. versions \in SUBSET Versions /\ cmd[o] \in {"update", "rollback"}
    BY <1>3, SchemaAssumption DEF TypeOK
  <2>2. Opened \in Nat \cup {NotOpen}
    BY DEF Opened, TypeOK
  <2> HIDE DEF Opened
  <2> QED
    BY <1>1, <1>3, <2>1, <2>2, DoControl
<1> QED
  BY <1>2, <1>3, Decides

LEMMA TurnOf ==
    ASSUME ControlType, NEW o \in Operators, pc[o] \in {"ddl", "record"}
    PROVE  /\ Turn(o) \in todo[o] /\ Turn(o) \in Versions
           /\ Action(o) \in {"apply", "rollback"} /\ Target(o) \in {"absent", "present"}
<1>1. todo[o] \subseteq Versions /\ todo[o] # {} /\ todo[o] \subseteq Nat
  BY SchemaAssumption DEF ControlType
<1> QED
  BY <1>1, LowestIn DEF Turn, Action, Target

\* After a version comes the next, if any.
LEMMA Proceeds ==
    ASSUME ControlType, NEW o \in Operators, pc[o] \in {"ddl", "record"}, Proceed(o)
    PROVE  \/ todo[o] = {Turn(o)} /\ Exit(o, 0)
           \/ /\ todo[o] \ {Turn(o)} # {}
              /\ todo' = [todo EXCEPT ![o] = todo[o] \ {Turn(o)}]
              /\ pc' = [pc EXCEPT ![o] = "ddl"]
              /\ began' = [began EXCEPT ![o] = NotOpen]
              /\ UNCHANGED <<cmd, result>>
<1>1. Turn(o) \in todo[o]
  BY TurnOf
<1>2. CASE todo[o] = {Turn(o)}
  BY <1>2 DEF Proceed
<1>3. CASE todo[o] # {Turn(o)}
  <2>1. todo[o] \ {Turn(o)} # {}
    BY <1>1, <1>3
  <2> QED
    BY <1>3, <2>1 DEF Proceed
<1> QED
  BY <1>2, <1>3

LEMMA ProceedControl ==
    ASSUME ControlType, NEW o \in Operators, pc[o] \in {"ddl", "record"}, Proceed(o)
    PROVE  ControlType'
<1>1. CASE Exit(o, 0)
  BY <1>1, ExitControl
<1>2. CASE /\ todo[o] \ {Turn(o)} # {}
           /\ todo' = [todo EXCEPT ![o] = todo[o] \ {Turn(o)}]
           /\ pc' = [pc EXCEPT ![o] = "ddl"]
           /\ began' = [began EXCEPT ![o] = NotOpen]
           /\ UNCHANGED <<cmd, result>>
  <2>1. todo[o] \ {Turn(o)} \in SUBSET Versions /\ cmd[o] \in {"update", "rollback"}
    BY DEF ControlType
  <2> HIDE DEF Turn
  <2> QED
    BY <1>2, <2>1, DoControl
<1> QED
  BY <1>1, <1>2, Proceeds

\* A row that is added is a row.
LEMMA RowType ==
    ASSUME StoreType, NEW v \in Versions, NEW action \in {"apply", "rollback"}, NEW time \in Nat
    PROVE  /\ Row(v, action, time) \in Rows
           /\ Append(history, Row(v, action, time)) \in Seq(Rows)
<1>1. Row(v, action, time) \in Rows
  BY DEF Row, Rows
<1> QED
  BY <1>1 DEF StoreType

\* A row has a time, since a transaction is open when it is inserted.
LEMMA NowType ==
    ASSUME TypeOK, NEW o \in Operators, Transactional => began[o] # NotOpen
    PROVE  Now(o) \in Nat
BY DEF TypeOK, Now

LEMMA CommandType ==
    ASSUME TypeOK, NEW o \in Operators, CommandNext(o)
    PROVE  TypeOK'
<1> USE TypeParts
<1>0. <<>> \in Seq(Rows)
  OBVIOUS
<1>1. ASSUME NEW action \in {"update", "rollback", "status"}, Start(o, action) PROVE TypeOK'
  <2>1. clock' \in Nat
    BY <1>1 DEF Start, StoreType
  <2>2. StoreType'
    BY <1>1, <2>1 DEF Start, store, StoreType
  <2>3. /\ pc' \in [Operators -> Steps]
        /\ cmd' \in [Operators -> {"update", "rollback", "status"}]
        /\ UNCHANGED <<todo, began, result>>
    BY <1>1 DEF Start, ControlType, Steps
  <2>4. \A p \in Operators : pc'[p] \in {"ddl", "record"} =>
          pc[p] = pc'[p] /\ cmd'[p] = cmd[p]
    BY <1>1 DEF Start, ControlType
  <2>5. ControlType'
    BY <2>3, <2>4 DEF ControlType
  <2> QED
    BY <2>2, <2>5
<1>2. CASE ReadHistory(o)
  <2>1. /\ table' \in {"none", "v1", "v2"} /\ history' \in {history, <<>>}
        /\ UNCHANGED <<files, schema, spare, clock>>
        /\ \E rows : Decide(o, rows)
    BY <1>2 DEF ReadHistory, store, StoreType
  <2>2. StoreType'
    BY <1>0, <2>1 DEF StoreType
  <2> QED
    BY <2>1, <2>2, DecideControl
<1>3. CASE AlterTable(o)
  BY <1>3 DEF AlterTable, control, StoreType, ControlType
<1>4. CASE CreateNew(o)
  <2>1. spare' \in [there : BOOLEAN, rows : Seq(Rows)]
    <3>1. [there |-> TRUE, rows |-> <<>>] \in [there : BOOLEAN, rows : Seq(Rows)]
      BY <1>0
    <3> QED
      BY <1>4, <3>1 DEF CreateNew, StoreType
  <2>2. StoreType'
    BY <1>4, <2>1 DEF CreateNew, StoreType
  <2>3. ControlType'
    BY <1>4, ExitControl, GotoControl DEF CreateNew, Steps
  <2> QED
    BY <2>2, <2>3
<1>5. CASE CopyRows(o)
  <2>1. StoreType'
    BY <1>5 DEF CopyRows, StoreType
  <2>2. ControlType'
    BY <1>5, GotoControl DEF CopyRows, Steps
  <2> QED
    BY <2>1, <2>2
<1>6. CASE DropOld(o)
  <2>1. StoreType'
    BY <1>6 DEF DropOld, StoreType
  <2>2. ControlType'
    BY <1>6, GotoControl DEF DropOld, Steps
  <2> QED
    BY <2>1, <2>2
<1>7. CASE RenameNew(o)
  <2>1. StoreType'
    <3>1. [there |-> FALSE, rows |-> <<>>] \in [there : BOOLEAN, rows : Seq(Rows)]
      BY <1>0
    <3>2. spare.rows \in Seq(Rows)
      BY DEF StoreType
    <3> QED
      BY <1>7, <3>1, <3>2 DEF RenameNew, StoreType
  <2>2. ControlType'
    BY <1>7, ExitControl, GotoControl DEF RenameNew, Steps
  <2> QED
    BY <2>1, <2>2
<1>8. CASE RunDdl(o)
  <2>1. /\ pc[o] = "ddl" /\ UNCHANGED <<files, table, spare, clock>>
        /\ Transactional => began[o] # NotOpen
        /\ schema' = [schema EXCEPT ![Turn(o)] = Target(o)]
        /\ \/ Recorded(o) /\ Proceed(o)
           \/ Goto(o, "record") /\ UNCHANGED history /\ ~Transactional
    BY <1>8 DEF RunDdl
  <2>2. /\ Turn(o) \in Versions /\ Action(o) \in {"apply", "rollback"}
        /\ Target(o) \in {"absent", "present"} /\ Now(o) \in Nat
    BY <2>1, TurnOf, NowType
  <2>3. history' \in Seq(Rows)
    <3>1. Append(history, Row(Turn(o), Action(o), Now(o))) \in Seq(Rows) /\ history \in Seq(Rows)
      BY <2>2, RowType DEF StoreType
    <3> QED
      BY <2>1, <3>1 DEF Recorded
  <2>4. StoreType'
    BY <2>1, <2>2, <2>3 DEF StoreType
  <2>5. ControlType'
    BY <2>1, ProceedControl, GotoControl DEF Steps
  <2> QED
    BY <2>4, <2>5
<1>9. CASE DdlFails(o)
  <2>1. /\ pc[o] = "ddl" /\ UNCHANGED <<files, table, history, spare, clock>> /\ Exit(o, 2)
        /\ schema' = schema \/ schema' = [schema EXCEPT ![Turn(o)] = "part"]
    BY <1>9 DEF DdlFails
  <2>2. StoreType'
    BY <2>1 DEF StoreType
  <2> QED
    BY <2>1, <2>2, ExitControl
<1>10. CASE Record(o)
  <2>1. /\ pc[o] = "record" /\ UNCHANGED <<files, schema, table, spare, clock>>
        /\ Recorded(o) /\ Proceed(o) /\ ~Transactional
    BY <1>10, TypeParts DEF Record, ControlType
  <2>2. Turn(o) \in Versions /\ Action(o) \in {"apply", "rollback"} /\ Now(o) \in Nat
    BY <2>1, TurnOf, NowType
  <2>3. history' \in Seq(Rows)
    BY <2>1, <2>2, RowType DEF Recorded
  <2>4. StoreType'
    BY <2>1, <2>3 DEF StoreType
  <2>5. ControlType'
    BY <2>1, ProceedControl
  <2> QED
    BY <2>4, <2>5
<1>11. CASE Crash(o)
  <2>1. StoreType' /\ Exit(o, 2)
    BY <1>11 DEF Crash, store, StoreType
  <2> QED
    BY <2>1, ExitControl
<1>12. CASE Begin(o)
  <2>1. StoreType' /\ began' \in [Operators -> Nat \cup {NotOpen}]
    BY <1>12 DEF Begin, store, StoreType, ControlType
  <2> QED
    BY <1>12, <2>1 DEF Begin, ControlType
<1> QED
  BY <1>1, <1>2, <1>3, <1>4, <1>5, <1>6, <1>7, <1>8, <1>9, <1>10, <1>11, <1>12 DEF CommandNext

LEMMA NextSchemaType == TypeOK /\ [Next]_vars => TypeOK'
<1> SUFFICES ASSUME TypeOK, [Next]_vars PROVE TypeOK'
  OBVIOUS
<1>1. ASSUME NEW v \in Versions, Install(v) PROVE TypeOK'
  <2>1. StoreType /\ ControlType
    BY TypeParts
  <2>2. Append(history, Row(v, "apply", clock)) \in Seq(Rows)
    BY <2>1, RowType DEF StoreType
  <2>3. StoreType'
    BY <1>1, <2>1, <2>2 DEF Install, StoreType
  <2>4. ControlType'
    BY <1>1, <2>1 DEF Install, control, ControlType
  <2> QED
    BY <2>3, <2>4, TypeParts
<1>2. CASE UNCHANGED vars
  BY <1>2 DEF vars, store, control, TypeOK
<1> QED
  BY <1>1, <1>2, CommandType DEF Next

\* TypeOK is an invariant, for any number of operators.
THEOREM SchemaTypes == Spec => []TypeOK
<1>1. Init => TypeOK
  BY SchemaAssumption DEF Init, TypeOK
<1> QED
  BY <1>1, NextSchemaType, PTL DEF Spec

-----------------------------------------------------------------------------
(* One operator, whose commands are given in different seconds             *)

\* All rows of version v are of earlier seconds.
Past(rows, v) == \A i \in 1..Len(rows) : rows[i].version = v => rows[i].applied < clock

CountsInv ==
    /\ commands \in Nat /\ faults \in Nat
    /\ \A o \in Operators : pc[o] # "idle" => commands # 0

RowsInv ==
    /\ Sound(history, clock) /\ Sound(spare.rows, clock)
    /\ table = "none" => history = <<>>
    /\ table = "v1" => OldTable
    /\ commands = 0 => \A i \in 1..Len(history) : history[i].version \in files

\* A command that has still to decide what to do will find rows of earlier seconds only.
ReadingInv ==
    \A o \in Operators : pc[o] \in {"read", "copy", "drop", "rename"} =>
        \A v \in Versions : Past(history, v) /\ Past(spare.rows, v)

\* Where the rows are while the table is brought to its new form.
UpgradeInv ==
    \A o \in Operators :
        /\ pc[o] \in {"copy", "drop", "rename"} => ~Transactional /\ OldTable /\ spare.there
        /\ pc[o] \in {"copy", "drop"} => table = "v1"
        /\ pc[o] = "drop" => spare.rows = history
        /\ pc[o] = "rename" => table = "none"

\* What a command has still to do has not been done, nor touched in this second; and a
\* rollback takes the highest version back.
DoingInv ==
    \A o \in Operators : pc[o] \in {"ddl", "record"} =>
        /\ table = "v2"
        /\ \A v \in todo[o] : Past(history, v)
        /\ cmd[o] = "update" => todo[o] \cap Active = {} /\ files \subseteq Active \cup todo[o]
        /\ cmd[o] = "rollback" =>
            \E v \in Active : todo[o] = {v} /\ \A u \in Active : u <= v
        /\ pc[o] = "record" => ~Transactional /\ schema[Turn(o)] = Target(o)

\* A transaction was opened in the second of the command that runs DDL in it.
BeganInv ==
    \A o \in Operators : began[o] # NotOpen => Transactional /\ pc[o] = "ddl" /\ began[o] = clock

OneInv == CountsInv /\ RowsInv /\ ReadingInv /\ UpgradeInv /\ DoingInv

LEMMA InitOne == Init => OneInv
<1> SUFFICES ASSUME Init PROVE OneInv
  OBVIOUS
<1>1. Sound(history, clock) /\ Sound(spare.rows, clock)
  BY SoundNone DEF Init
<1>2. RowsInv
  BY <1>1 DEF Init, RowsInv
<1>3. CountsInv /\ ReadingInv /\ UpgradeInv /\ DoingInv
  BY DEF Init, CountsInv, ReadingInv, UpgradeInv, DoingInv
<1> QED
  BY <1>2, <1>3 DEF OneInv

LEMMA RowsUnchanged ==
    ASSUME RowsInv, UNCHANGED <<files, table, history, spare, clock, commands>>
    PROVE  RowsInv'
BY DEF RowsInv

\* When nobody runs a command, only the rows matter.
LEMMA IdleOne ==
    ASSUME RowsInv', commands' \in Nat, faults' \in Nat, \A o \in Operators : pc'[o] = "idle"
    PROVE  OneInv'
BY DEF OneInv, CountsInv, ReadingInv, UpgradeInv, DoingInv

LEMMA ExitOne ==
    ASSUME OneOperator, TypeOK, OneInv, NEW o \in Operators, NEW code, Exit(o, code),
           UNCHANGED <<files, table, history, spare, clock, commands>>, faults' \in Nat
    PROVE  OneInv'
<1>1. \A p \in Operators : pc'[p] = "idle"
  BY DEF Exit, OneOperator, TypeOK
<1>2. RowsInv' /\ commands' \in Nat
  BY RowsUnchanged DEF OneInv, CountsInv
<1> QED
  BY <1>1, <1>2, IdleOne

\* The time of a row is the second of the command.
LEMMA NowOne ==
    ASSUME BeganInv, NEW o \in Operators, Transactional => began[o] # NotOpen
    PROVE  Now(o) = clock
BY DEF BeganInv, Now

LEMMA NextBegan ==
    ASSUME OneOperator, TypeOK, BeganInv, [Next]_vars
    PROVE  BeganInv'
<1>1. ASSUME NEW o \in Operators, NEW time, pc'[o] = "ddl", clock' = clock,
             began' = [began EXCEPT ![o] = time],
             time = NotOpen \/ (Transactional /\ time = clock)
      PROVE  BeganInv'
  BY <1>1 DEF BeganInv, OneOperator
<1>2. ASSUME NEW o \in Operators, began' = [began EXCEPT ![o] = NotOpen] PROVE BeganInv'
  BY <1>2 DEF BeganInv, OneOperator, TypeOK
<1>3. ASSUME NEW o \in Operators, pc[o] # "ddl" \/ ~Transactional, began' = began PROVE BeganInv'
  BY <1>3 DEF BeganInv, OneOperator
<1>4. ASSUME NEW v \in Versions, Install(v) PROVE BeganInv'
  BY <1>4 DEF Install, control, BeganInv
<1>5. ASSUME NEW o \in Operators, CommandNext(o) PROVE BeganInv'
  <2>1. ASSUME NEW action, Start(o, action) PROVE BeganInv'
    BY <1>3, <2>1 DEF Start
  <2>2. ASSUME NEW code, Exit(o, code) PROVE BeganInv'
    BY <1>2, <2>2 DEF Exit
  <2>3. CASE ReadHistory(o)
    <3>1. clock' = clock /\ \E rows : Decide(o, rows)
      BY <2>3 DEF ReadHistory
    <3>2. ASSUME NEW versions, pc' = [pc EXCEPT ![o] = "ddl"],
                 began' = [began EXCEPT ![o] = Opened]
          PROVE  BeganInv'
      <4>1. pc'[o] = "ddl" /\ (Opened = NotOpen \/ (Transactional /\ Opened = clock))
        BY <3>2 DEF Opened, TypeOK
      <4> QED
        BY <1>1, <3>1, <3>2, <4>1
    <3> QED
      BY <2>2, <3>1, <3>2, Decides
  <2>4. CASE AlterTable(o)
    BY <1>3, <2>4 DEF AlterTable, control
  <2>5. CASE CreateNew(o) \/ CopyRows(o) \/ DropOld(o) \/ RenameNew(o)
    BY <1>3, <2>2, <2>5 DEF CreateNew, CopyRows, DropOld, RenameNew, Goto
  <2>6. CASE Begin(o)
    BY <1>1, <2>6 DEF Begin
  <2>7. ASSUME Proceed(o) PROVE BeganInv'
    BY <1>2, <2>2, <2>7 DEF Proceed
  <2>8. CASE RunDdl(o)
    BY <1>3, <2>7, <2>8 DEF RunDdl, Goto
  <2>9. CASE DdlFails(o) \/ Crash(o)
    BY <2>2, <2>9 DEF DdlFails, Crash
  <2>10. CASE Record(o)
    BY <2>7, <2>10 DEF Record
  <2> QED
    BY <1>5, <2>1, <2>3, <2>4, <2>5, <2>6, <2>8, <2>9, <2>10 DEF CommandNext
<1>6. CASE UNCHANGED vars
  BY <1>6 DEF vars, control, BeganInv
<1> QED
  BY <1>4, <1>5, <1>6 DEF Next

LEMMA InstallOne ==
    ASSUME TypeOK, OneInv, NEW v \in Versions, Install(v)
    PROVE  OneInv'
<1>1. /\ \A o \in Operators : pc'[o] = "idle"
      /\ commands' \in Nat /\ faults' \in Nat
      /\ UNCHANGED <<table, spare, clock, commands>> /\ files' = files \cup {v} /\ v \notin files
  BY DEF Install, control, OneInv, CountsInv
<1>2. CASE table = "v1" /\ commands = 0
  <2>1. history' = Append(history, Row(v, "apply", clock))
    BY <1>2 DEF Install
  <2>2. history \in Seq(Rows) /\ Row(v, "apply", clock) \in Rows /\ clock \in Nat
    BY RowType, TypeParts DEF StoreType
  <2>3. \A i \in 1..Len(history) : history[i].version # v
    BY <1>1, <1>2 DEF OneInv, RowsInv
  <2>4. Row(v, "apply", clock).version = v /\ Row(v, "apply", clock).applied = clock
        /\ Row(v, "apply", clock).action # "rollback"
    BY DEF Row
  <2>5. Sound(Append(history, Row(v, "apply", clock)), clock)
    BY <2>2, <2>3, <2>4, SoundAppend DEF OneInv, RowsInv
  <2>6. \A i \in 1..Len(history') : history'[i].version \in files'
    BY <1>1, <1>2, <2>1, <2>2, <2>4 DEF OneInv, RowsInv
  <2>7. RowsInv'
    BY <1>1, <1>2, <2>1, <2>5, <2>6 DEF OneInv, RowsInv
  <2> QED
    BY <1>1, <2>7, IdleOne
<1>3. CASE ~(table = "v1" /\ commands = 0)
  <2>1. history' = history
    BY <1>3 DEF Install
  <2>2. RowsInv'
    BY <1>1, <2>1 DEF OneInv, RowsInv
  <2> QED
    BY <1>1, <2>2, IdleOne
<1> QED
  BY <1>2, <1>3

LEMMA StartOne ==
    ASSUME OneOperator, ~SameSecond, TypeOK, OneInv, NEW o \in Operators, NEW action,
           Start(o, action)
    PROVE  OneInv'
<1>1. /\ clock' = clock + 1 /\ clock \in Nat /\ clock' \in Nat
      /\ commands' = commands + 1 /\ commands \in Nat /\ faults' = faults /\ faults \in Nat
      /\ UNCHANGED <<files, schema, table, history, spare>>
      /\ \A p \in Operators : pc'[p] = "read"
  BY DEF Start, store, OneOperator, TypeOK, OneInv, CountsInv
<1>2. history \in Seq(Rows) /\ spare.rows \in Seq(Rows)
  BY DEF TypeOK
<1>3. RowsInv'
  <2>1. commands' # 0
    BY <1>1
  <2>2. Sound(history, clock') /\ Sound(spare.rows, clock')
    BY <1>1, <1>2, SoundLater DEF OneInv, RowsInv
  <2> QED
    BY <1>1, <2>1, <2>2 DEF OneInv, RowsInv
<1>4. ASSUME NEW rows \in Seq(Rows), Sound(rows, clock), NEW v \in Versions
      PROVE  \A i \in 1..Len(rows) : rows[i].version = v => rows[i].applied < clock'
  <2>1. \A i \in 1..Len(rows) : rows[i] \in Rows /\ rows[i].applied <= clock
    BY <1>4 DEF Sound
  <2>2. \A i \in 1..Len(rows) : rows[i].applied \in Nat
    BY <2>1 DEF Rows
  <2> QED
    BY <1>1, <2>1, <2>2
<1>5. ReadingInv'
  <2>1. Sound(history, clock) /\ Sound(spare.rows, clock)
    BY DEF OneInv, RowsInv
  <2>2. \A v \in Versions :
          /\ \A i \in 1..Len(history) : history[i].version = v => history[i].applied < clock'
          /\ \A i \in 1..Len(spare.rows) :
                spare.rows[i].version = v => spare.rows[i].applied < clock'
    BY <1>2, <1>4, <2>1
  <2> QED
    BY <1>1, <2>2 DEF ReadingInv, Past
<1>6. CountsInv' /\ UpgradeInv' /\ DoingInv'
  BY <1>1 DEF CountsInv, UpgradeInv, DoingInv
<1> QED
  BY <1>3, <1>5, <1>6 DEF OneInv

\* What a command decides from rows that tell what is active.
LEMMA DecideOne ==
    ASSUME OneOperator, TypeOK, OneInv, NEW o \in Operators, pc[o] = "read",
           NEW rows, ActiveDdls(rows) = Active, Decide(o, rows),
           UNCHANGED <<files, schema, history, spare, clock, commands, faults>>, table' = "v2"
    PROVE  OneInv'
<1>1. RowsInv' /\ commands' \in Nat /\ faults' \in Nat
  BY DEF OneInv, RowsInv, CountsInv
<1>2. ASSUME NEW code, Exit(o, code) PROVE OneInv'
  <2>1. \A p \in Operators : pc'[p] = "idle"
    BY <1>2 DEF Exit, OneOperator, TypeOK
  <2> QED
    BY <1>1, <2>1, IdleOne
<1>3. ASSUME NEW versions, todo' = [todo EXCEPT ![o] = versions],
             pc' = [pc EXCEPT ![o] = "ddl"], UNCHANGED <<cmd, result>>,
             \/ cmd[o] = "update" /\ versions = files \ Active
             \/ cmd[o] = "rollback" /\ Active # {} /\ versions = {Highest(Active)}
      PROVE  OneInv'
  <2>1. \A p \in Operators : p = o /\ pc'[p] = "ddl" /\ todo'[p] = versions
    BY <1>3 DEF OneOperator, TypeOK
  <2>2. Active' = Active /\ Active \subseteq Versions
    BY DEF Active, ActiveDdls
  <2>3. cmd[o] = "rollback" => \E v \in Active : versions = {v} /\ \A u \in Active : u <= v
    BY <1>3, HighestIn DEF TypeOK, OneInv, RowsInv, Active
  <2>4. versions \subseteq Versions
    BY <1>3, <2>2, <2>3 DEF TypeOK
  <2>5. \A v \in versions : Past(history, v)'
    BY <2>4 DEF OneInv, ReadingInv, Past
  <2>6. cmd[o] = "update" => versions \cap Active = {} /\ files \subseteq Active \cup versions
    BY <1>3
  <2>7. DoingInv'
    <3> SUFFICES ASSUME NEW p \in Operators
                 PROVE  /\ \A v \in todo'[p] : Past(history, v)'
                        /\ cmd'[p] = "update" =>
                            todo'[p] \cap Active' = {} /\ files' \subseteq Active' \cup todo'[p]
                        /\ cmd'[p] = "rollback" =>
                            \E v \in Active' : todo'[p] = {v} /\ \A u \in Active' : u <= v
                        /\ pc'[p] # "record"
      BY DEF DoingInv
    <3>1. p = o /\ pc'[p] = "ddl" /\ todo'[p] = versions /\ cmd' = cmd /\ files' = files
      BY <1>3, <2>1
    <3> QED
      BY <2>2, <2>3, <2>5, <2>6, <3>1
  <2>8. CountsInv' /\ ReadingInv' /\ UpgradeInv'
    BY <1>1, <2>1 DEF OneInv, CountsInv, ReadingInv, UpgradeInv
  <2> QED
    BY <1>1, <2>7, <2>8 DEF OneInv
<1> QED
  BY <1>2, <1>3, Decides

LEMMA ReadOne ==
    ASSUME OneOperator, TypeOK, OneInv, NEW o \in Operators, ReadHistory(o)
    PROVE  OneInv'
<1>1. pc[o] = "read" /\ table' = "v2" /\ UNCHANGED <<files, schema, spare, clock, commands, faults>>
  BY DEF ReadHistory, store
<1>2. PICK rows : Decide(o, rows) /\ history' = history /\ ActiveDdls(rows) = Active
  <2>1. CASE table = "v2"
    <3>1. PICK rows \in Ordered(history) : Decide(o, rows)
      BY <2>1 DEF ReadHistory
    <3>2. ActiveDdls(rows) = ActiveDdls(history)
      BY AnyOrder DEF OneInv, RowsInv, Sound, TypeOK
    <3> QED
      BY <2>1, <3>1, <3>2 DEF ReadHistory, store, Active
  <2>2. CASE table # "v2"
    <3>1. table = "none" /\ history = <<>> /\ history' = <<>> /\ Decide(o, <<>>)
      BY <2>2 DEF ReadHistory, OneInv, RowsInv
    <3> QED
      BY <3>1 DEF Active
  <2> QED
    BY <2>1, <2>2
<1> QED
  BY <1>1, <1>2, DecideOne

\* A step to another place of the command, while it has still to decide.
LEMMA GotoOne ==
    ASSUME OneOperator, TypeOK, NEW o \in Operators, NEW step, Goto(o, step)
    PROVE  \A p \in Operators : p = o /\ pc'[p] = step /\ todo'[p] = todo[p]
BY DEF Goto, OneOperator, TypeOK

LEMMA AlterOne ==
    ASSUME OneOperator, TypeOK, OneInv, NEW o \in Operators, AlterTable(o)
    PROVE  OneInv'
<1>1. /\ \A p \in Operators : pc[p] = "read" /\ pc'[p] = "read"
      /\ table' = "v2"
      /\ UNCHANGED <<files, schema, history, spare, clock, commands, faults>>
  BY DEF AlterTable, control, OneOperator
<1>2. RowsInv'
  BY <1>1 DEF OneInv, RowsInv
<1>3. CountsInv' /\ ReadingInv' /\ UpgradeInv' /\ DoingInv'
  BY <1>1 DEF OneInv, CountsInv, ReadingInv, UpgradeInv, DoingInv, Past
<1> QED
  BY <1>2, <1>3 DEF OneInv

LEMMA CreateOne ==
    ASSUME OneOperator, TypeOK, OneInv, NEW o \in Operators, CreateNew(o)
    PROVE  OneInv'
<1>1. /\ pc[o] = "read" /\ table = "v1" /\ ~Transactional
      /\ UNCHANGED <<files, schema, table, history, clock, commands, faults>>
      /\ faults' \in Nat /\ commands # 0 /\ OldTable
  BY DEF CreateNew, OneInv, CountsInv, RowsInv
<1>2. CASE spare.there
  <2>1. Exit(o, 2) /\ UNCHANGED spare
    BY <1>2 DEF CreateNew
  <2> QED
    BY <1>1, <2>1, ExitOne
<1>3. CASE ~spare.there
  <2>1. spare' = [there |-> TRUE, rows |-> <<>>] /\ Goto(o, "copy")
    BY <1>3 DEF CreateNew
  <2>2. spare'.rows = <<>> /\ spare'.there
    BY <2>1
  <2>3. \A p \in Operators : pc'[p] = "copy" /\ pc[p] = "read"
    BY <1>1, <2>1, GotoOne DEF OneOperator
  <2>4. Sound(spare.rows, clock)'
    BY <1>1, <2>2, SoundNone DEF TypeOK
  <2>5. RowsInv'
    BY <1>1, <2>4 DEF OneInv, RowsInv
  <2>6. ReadingInv'
    BY <1>1, <2>2, <2>3 DEF OneInv, ReadingInv, Past
  <2>7. CountsInv' /\ UpgradeInv' /\ DoingInv'
    BY <1>1, <2>2, <2>3 DEF OneInv, CountsInv, UpgradeInv, DoingInv
  <2> QED
    BY <2>5, <2>6, <2>7 DEF OneInv
<1> QED
  BY <1>2, <1>3

LEMMA CopyOne ==
    ASSUME OneOperator, TypeOK, OneInv, NEW o \in Operators, CopyRows(o)
    PROVE  OneInv'
<1>1. /\ pc[o] = "copy" /\ table = "v1" /\ ~Transactional /\ OldTable /\ spare.there
      /\ UNCHANGED <<files, schema, table, history, clock, commands, faults>>
      /\ commands # 0
  BY DEF CopyRows, OneInv, CountsInv, UpgradeInv
<1>2. spare'.rows = history /\ spare'.there
  BY <1>1 DEF CopyRows, TypeOK
<1>3. \A p \in Operators : pc'[p] = "drop" /\ pc[p] = "copy"
  BY <1>1, GotoOne DEF CopyRows, OneOperator
<1>4. RowsInv'
  BY <1>1, <1>2 DEF OneInv, RowsInv
<1>5. ReadingInv'
  BY <1>1, <1>2, <1>3 DEF OneInv, ReadingInv, Past
<1>6. CountsInv' /\ UpgradeInv' /\ DoingInv'
  BY <1>1, <1>2, <1>3 DEF OneInv, CountsInv, UpgradeInv, DoingInv
<1> QED
  BY <1>4, <1>5, <1>6 DEF OneInv

LEMMA DropOne ==
    ASSUME OneOperator, TypeOK, OneInv, NEW o \in Operators, DropOld(o)
    PROVE  OneInv'
<1>1. /\ pc[o] = "drop" /\ ~Transactional /\ OldTable /\ spare.there
      /\ table' = "none" /\ history' = <<>>
      /\ UNCHANGED <<files, schema, spare, clock, commands, faults>>
      /\ commands # 0
  BY DEF DropOld, OneInv, CountsInv, UpgradeInv
<1>2. \A p \in Operators : pc'[p] = "rename" /\ pc[p] = "drop"
  BY <1>1, GotoOne DEF DropOld, OneOperator
<1>3. Sound(history, clock)'
  BY <1>1, SoundNone DEF TypeOK
<1>4. RowsInv'
  BY <1>1, <1>3 DEF OneInv, RowsInv
<1>5. ReadingInv'
  BY <1>1, <1>2 DEF OneInv, ReadingInv, Past
<1>6. CountsInv' /\ UpgradeInv' /\ DoingInv'
  BY <1>1, <1>2 DEF OneInv, CountsInv, UpgradeInv, DoingInv
<1> QED
  BY <1>4, <1>5, <1>6 DEF OneInv

LEMMA RenameOne ==
    ASSUME OneOperator, TypeOK, OneInv, NEW o \in Operators, RenameNew(o)
    PROVE  OneInv'
<1>1. /\ pc[o] = "rename" /\ table = "none" /\ spare.there /\ commands # 0
      /\ UNCHANGED <<files, schema, clock, commands, faults>>
  BY DEF RenameNew, OneInv, CountsInv, UpgradeInv
<1>2. /\ table' = "v2" /\ history' = spare.rows /\ spare' = [there |-> FALSE, rows |-> <<>>]
      /\ Goto(o, "read")
  BY <1>1 DEF RenameNew
<1>3. spare'.rows = <<>>
  BY <1>2
<1>4. \A p \in Operators : pc'[p] = "read" /\ pc[p] = "rename"
  BY <1>1, <1>2, GotoOne DEF OneOperator
<1>5. Sound(spare.rows, clock)' /\ Sound(history, clock)'
  BY <1>1, <1>2, <1>3, SoundNone DEF TypeOK, OneInv, RowsInv
<1>6. RowsInv'
  BY <1>1, <1>2, <1>5 DEF OneInv, RowsInv
<1>7. ReadingInv'
  BY <1>1, <1>2, <1>3, <1>4 DEF OneInv, ReadingInv, Past
<1>8. CountsInv' /\ UpgradeInv' /\ DoingInv'
  BY <1>1, <1>2, <1>4 DEF OneInv, CountsInv, UpgradeInv, DoingInv
<1> QED
  BY <1>6, <1>7, <1>8 DEF OneInv

\* What is active after the version whose turn it is has been recorded.
LEMMA RecordedActive ==
    ASSUME TypeOK, NEW o \in Operators, pc[o] \in {"ddl", "record"}, Recorded(o),
           Transactional => began[o] # NotOpen
    PROVE  /\ cmd[o] = "update" => Active' = Active \cup {Turn(o)}
           /\ cmd[o] = "rollback" => Active' = Active \ {Turn(o)}
<1>1. Row(Turn(o), Action(o), Now(o)) \in Rows /\ history \in Seq(Rows)
  BY TypeParts, TurnOf, RowType, NowType DEF StoreType
<1> QED
  BY <1>1, ActiveAppend DEF Recorded, Active, Row, Action

LEMMA RecordOne ==
    ASSUME OneOperator, TypeOK, BeganInv, OneInv, NEW o \in Operators, pc[o] \in {"ddl", "record"},
           Transactional => began[o] # NotOpen, Recorded(o), Proceed(o),
           UNCHANGED <<files, table, spare, clock, commands, faults>>
    PROVE  OneInv'
<1> DEFINE row == Row(Turn(o), Action(o), clock)
<1>0. Now(o) = clock
  BY NowOne
<1>1. /\ Turn(o) \in todo[o] /\ Turn(o) \in Versions
      /\ row \in Rows /\ history \in Seq(Rows) /\ clock \in Nat
      /\ row.version = Turn(o) /\ row.applied = clock /\ row.action = Action(o)
      /\ cmd[o] \in {"update", "rollback"}
  BY TypeParts, TurnOf, RowType DEF StoreType, ControlType, Row
<1>2. /\ table = "v2" /\ commands # 0 /\ commands \in Nat /\ faults \in Nat
      /\ \A v \in todo[o] : Past(history, v)
      /\ cmd[o] = "update" => todo[o] \cap Active = {} /\ files \subseteq Active \cup todo[o]
      /\ cmd[o] = "rollback" => todo[o] = {Turn(o)} /\ Turn(o) \in Active
  BY <1>1 DEF OneInv, CountsInv, DoingInv
<1>3. history' = Append(history, row)
  BY <1>0 DEF Recorded
<1>4. Action(o) = "rollback" => Turn(o) \in ActiveDdls(history)
  BY <1>1, <1>2 DEF Action, Active
<1> HIDE DEF row
<1>5. Sound(history', clock)
  <2>1. \A i \in 1..Len(history) : history[i].version = row.version => history[i].applied < clock
    BY <1>1, <1>2 DEF Past
  <2>2. Sound(history, clock)
    BY DEF OneInv, RowsInv
  <2>3. Sound(Append(history, row), clock)
    BY <1>1, <1>4, <2>1, <2>2, SoundAppend
  <2> QED
    BY <1>3, <2>3
<1>6. RowsInv'
  BY <1>2, <1>5 DEF OneInv, RowsInv
<1>7. CASE Exit(o, 0)
  <2>1. \A p \in Operators : pc'[p] = "idle"
    BY <1>7 DEF Exit, OneOperator, TypeOK
  <2> QED
    BY <1>2, <1>6, <2>1, IdleOne
<1>8. CASE /\ todo[o] \ {Turn(o)} # {}
           /\ todo' = [todo EXCEPT ![o] = todo[o] \ {Turn(o)}]
           /\ pc' = [pc EXCEPT ![o] = "ddl"]
           /\ UNCHANGED <<cmd, result>>
  <2>1. cmd[o] = "update"
    BY <1>1, <1>2, <1>8
  <2>2. \A p \in Operators : p = o /\ pc'[p] = "ddl" /\ todo'[p] = todo[o] \ {Turn(o)}
    BY <1>8 DEF OneOperator, TypeOK
  <2>3. Active' = Active \cup {Turn(o)}
    BY <2>1, RecordedActive
  <2>4. ASSUME NEW v \in todo[o] \ {Turn(o)} PROVE Past(history, v)'
    <3>1. PICK n \in Nat : n = Len(history)
      BY <1>1
    <3>2. /\ Len(history') = n + 1 /\ history'[n + 1] = row
          /\ \A i \in 1..n : history'[i] = history[i]
      BY <1>1, <1>3, <3>1
    <3>3. \A i \in 1..n : history[i].version = v => history[i].applied < clock
      BY <1>2, <3>1 DEF Past
    <3>4. row.version # v
      BY <1>1
    <3>5. ASSUME NEW i \in 1..(n + 1), history'[i].version = v PROVE history'[i].applied < clock
      <4>1. i \in 1..n
        BY <3>2, <3>4, <3>5
      <4> QED
        BY <3>2, <3>3, <3>5, <4>1
    <3> QED
      BY <3>2, <3>5 DEF Past
  <2>5. (todo[o] \ {Turn(o)}) \cap Active' = {}
        /\ files \subseteq Active' \cup (todo[o] \ {Turn(o)})
    BY <1>2, <2>1, <2>3
  <2>6. DoingInv'
    <3> SUFFICES ASSUME NEW p \in Operators
                 PROVE  /\ table' = "v2"
                        /\ \A v \in todo'[p] : Past(history, v)'
                        /\ cmd'[p] = "update" =>
                            todo'[p] \cap Active' = {} /\ files' \subseteq Active' \cup todo'[p]
                        /\ cmd'[p] # "rollback"
                        /\ pc'[p] # "record"
      BY DEF DoingInv
    <3>1. p = o /\ pc'[p] = "ddl" /\ todo'[p] = todo[o] \ {Turn(o)} /\ cmd' = cmd
      BY <1>8, <2>2
    <3>2. \A v \in todo'[p] : Past(history, v)'
      BY <2>4, <3>1
    <3>3. cmd'[p] # "rollback"
      BY <2>1, <3>1
    <3> QED
      BY <1>2, <2>5, <3>1, <3>2, <3>3
  <2>7. CountsInv' /\ ReadingInv' /\ UpgradeInv'
    BY <1>2, <2>2 DEF CountsInv, ReadingInv, UpgradeInv
  <2> QED
    BY <1>6, <2>6, <2>7 DEF OneInv
<1> QED
  BY <1>7, <1>8, Proceeds, TypeParts

\* ClickHouse: the DDL is done, the row is still to be inserted.
LEMMA RunOne ==
    ASSUME OneOperator, TypeOK, BeganInv, OneInv, NEW o \in Operators, RunDdl(o)
    PROVE  OneInv'
<1>1. /\ pc[o] = "ddl" /\ schema' = [schema EXCEPT ![Turn(o)] = Target(o)]
      /\ UNCHANGED <<files, table, spare, clock, commands, faults>>
  BY DEF RunDdl
<1>2. CASE Transactional
  <2>1. Recorded(o) /\ Proceed(o) /\ began[o] # NotOpen
    BY <1>2 DEF RunDdl
  <2> QED
    BY <1>1, <2>1, RecordOne
<1>3. CASE ~Transactional
  <2>1. Goto(o, "record") /\ history' = history
    BY <1>3 DEF RunDdl
  <2>2. \A p \in Operators : p = o /\ pc'[p] = "record" /\ todo'[p] = todo[p] /\ cmd' = cmd
    BY <2>1, GotoOne DEF Goto
  <2>3. schema'[Turn(o)] = Target(o)
    <3>1. Turn(o) \in Versions
      BY <1>1, TypeParts, TurnOf
    <3> QED
      BY <1>1, <3>1 DEF TypeOK
  <2>4. Turn(o)' = Turn(o) /\ Target(o)' = Target(o) /\ Active' = Active
    BY <2>1, <2>2 DEF Turn, Target, Active
  <2>5. DoingInv'
    <3> SUFFICES ASSUME NEW p \in Operators
                 PROVE  /\ table' = "v2"
                        /\ \A v \in todo'[p] : Past(history, v)'
                        /\ cmd'[p] = "update" =>
                            todo'[p] \cap Active' = {} /\ files' \subseteq Active' \cup todo'[p]
                        /\ cmd'[p] = "rollback" =>
                            \E v \in Active' : todo'[p] = {v} /\ \A u \in Active' : u <= v
                        /\ ~Transactional /\ schema'[Turn(p)'] = Target(p)'
      BY DEF DoingInv
    <3>1. p = o /\ todo'[p] = todo[o] /\ cmd' = cmd
      BY <2>2
    <3>2. \A v \in todo'[p] : Past(history, v)'
      BY <1>1, <2>1, <3>1 DEF OneInv, DoingInv, Past
    <3>3. schema'[Turn(p)'] = Target(p)'
      BY <2>3, <2>4, <3>1
    <3> QED
      BY <1>1, <1>3, <2>4, <3>1, <3>2, <3>3 DEF OneInv, DoingInv
  <2>6. RowsInv'
    BY <1>1, <2>1 DEF OneInv, RowsInv
  <2>7. CountsInv' /\ ReadingInv' /\ UpgradeInv'
    BY <1>1, <2>2 DEF OneInv, CountsInv, ReadingInv, UpgradeInv
  <2> QED
    BY <2>5, <2>6, <2>7 DEF OneInv
<1> QED
  BY <1>2, <1>3

\* None of the variables that matter changes.
LEMMA SameOne ==
    ASSUME OneInv,
           UNCHANGED <<files, schema, table, history, spare, clock, commands, faults, pc, cmd, todo>>
    PROVE  OneInv'
<1>1. RowsInv'
  BY RowsUnchanged DEF OneInv
<1>2. CountsInv' /\ ReadingInv' /\ UpgradeInv'
  BY DEF OneInv, CountsInv, ReadingInv, UpgradeInv, Past
<1>3. DoingInv'
  BY DEF OneInv, DoingInv, Past, Active, Turn, Target
<1> QED
  BY <1>1, <1>2, <1>3 DEF OneInv

LEMMA NextOne ==
    ASSUME OneOperator, ~SameSecond, TypeOK, BeganInv, OneInv, [Next]_vars
    PROVE  OneInv'
<1>1. ASSUME NEW v \in Versions, Install(v) PROVE OneInv'
  BY <1>1, InstallOne
<1>2. ASSUME NEW o \in Operators, CommandNext(o) PROVE OneInv'
  <2>1. ASSUME NEW action, Start(o, action) PROVE OneInv'
    BY <2>1, StartOne
  <2>2. CASE ReadHistory(o)
    BY <2>2, ReadOne
  <2>3. CASE AlterTable(o)
    BY <2>3, AlterOne
  <2>4. CASE CreateNew(o)
    BY <2>4, CreateOne
  <2>5. CASE CopyRows(o)
    BY <2>5, CopyOne
  <2>6. CASE DropOld(o)
    BY <2>6, DropOne
  <2>7. CASE RenameNew(o)
    BY <2>7, RenameOne
  <2>8. CASE RunDdl(o)
    BY <2>8, RunOne
  <2>9. CASE DdlFails(o)
    <3>1. /\ Exit(o, 2) /\ UNCHANGED <<files, table, history, spare, clock, commands>>
          /\ faults' \in {faults, faults + 1} /\ faults \in Nat
      BY <2>9 DEF DdlFails, OneInv, CountsInv
    <3>2. faults' \in Nat
      BY <3>1
    <3> QED
      BY <3>1, <3>2, ExitOne
  <2>10. CASE Record(o)
    BY <2>10, RecordOne DEF Record, TypeOK
  <2>11. CASE Crash(o)
    <3>1. /\ Exit(o, 2) /\ UNCHANGED <<files, table, history, spare, clock, commands>>
          /\ faults' = faults + 1 /\ faults \in Nat
      BY <2>11 DEF Crash, store, OneInv, CountsInv
    <3>2. faults' \in Nat
      BY <3>1
    <3> QED
      BY <3>1, <3>2, ExitOne
  <2>12. CASE Begin(o)
    <3>1. UNCHANGED <<files, schema, table, history, spare, clock, commands, faults, pc, cmd, todo>>
      BY <2>12 DEF Begin, store
    <3> QED
      BY <3>1, SameOne
  <2> QED
    BY <1>2, <2>1, <2>2, <2>3, <2>4, <2>5, <2>6, <2>7, <2>8, <2>9, <2>10, <2>11, <2>12
    DEF CommandNext
<1>3. CASE UNCHANGED vars
  BY <1>3, SameOne DEF vars, store, control
<1> QED
  BY <1>1, <1>2, <1>3 DEF Next

LEMMA OneInvariant ==
    ASSUME OneOperator, ~SameSecond
    PROVE  Spec => [](TypeOK /\ BeganInv /\ OneInv)
<1>1. Init => TypeOK /\ BeganInv /\ OneInv
  BY SchemaAssumption, InitOne DEF Init, TypeOK, BeganInv
<1>2. (TypeOK /\ BeganInv /\ OneInv) /\ [Next]_vars => (TypeOK /\ BeganInv /\ OneInv)'
  BY NextOne, NextBegan, NextSchemaType
<1> QED
  BY <1>1, <1>2, PTL DEF Spec

-----------------------------------------------------------------------------
(* What follows for one operator                                           *)

\* HistoryReadable is an invariant: what one operator's commands record can be read by
\* the next command, whichever order the rows of one second come in, whatever fails or
\* is killed, for ClickHouse as for Postgres.
THEOREM HistoryCanBeRead ==
    ASSUME OneOperator, ~SameSecond
    PROVE  Spec => []HistoryReadable
<1>1. TypeOK /\ OneInv => HistoryReadable
  <2> SUFFICES ASSUME TypeOK, OneInv, NEW rows \in Ordered(history) PROVE Readable(rows)
    BY DEF HistoryReadable
  <2>1. history \in Seq(Rows) /\ Apart(history) /\ Readable(history)
    BY DEF TypeOK, OneInv, RowsInv, Sound
  <2> QED
    BY <2>1, AnyOrder
<1> QED
  BY <1>1, OneInvariant, PTL

\* What a step changes in the versions that are active.
LEMMA ActiveStep ==
    ASSUME OneOperator, TypeOK, OneInv, [Next]_vars
    PROVE  \/ Active' = Active
           \/ \E v \in Versions : Active' = Active \cup {v}
           \/ /\ \E v \in Active : (\A u \in Active : u <= v) /\ Active' = Active \ {v}
              /\ \E o \in Operators : cmd[o] = "rollback" /\ pc[o] \in {"ddl", "record"}
           \/ /\ ~Transactional /\ OldTable
              /\ Active \subseteq ActiveDdls(spare.rows)'
<1>1. history' = history => Active' = Active
  BY DEF Active
<1>2. ASSUME NEW v \in Versions, Install(v)
      PROVE  history' = history \/ Active' = Active \cup {v}
  <2>1. history \in Seq(Rows) /\ Row(v, "apply", clock) \in Rows
    BY TypeParts, RowType DEF StoreType
  <2>2. history' = history \/ history' = Append(history, Row(v, "apply", clock))
    BY <1>2 DEF Install
  <2> QED
    BY <2>1, <2>2, ActiveAppend DEF Active, Row
<1>3. ASSUME NEW o \in Operators, pc[o] \in {"ddl", "record"}, Recorded(o),
             Transactional => began[o] # NotOpen
      PROVE  \/ Active' = Active \cup {Turn(o)}
             \/ /\ cmd[o] = "rollback" /\ Active' = Active \ {Turn(o)}
                /\ Turn(o) \in Active /\ \A u \in Active : u <= Turn(o)
  <2>1. Turn(o) \in todo[o] /\ cmd[o] \in {"update", "rollback"}
    BY <1>3, TypeParts, TurnOf DEF ControlType
  <2>2. CASE cmd[o] = "update"
    BY <1>3, <2>2, RecordedActive
  <2>3. CASE cmd[o] = "rollback"
    <3>1. Turn(o) \in Active /\ \A u \in Active : u <= Turn(o)
      BY <1>3, <2>1, <2>3 DEF OneInv, DoingInv
    <3> QED
      BY <1>3, <2>3, <3>1, RecordedActive
  <2> QED
    BY <2>1, <2>2, <2>3
<1>4. ASSUME NEW o \in Operators, CommandNext(o)
      PROVE  \/ history' = history
             \/ /\ pc[o] \in {"ddl", "record"} /\ Recorded(o)
                /\ Transactional => began[o] # NotOpen
             \/ DropOld(o)
             \/ RenameNew(o)
  <2>1. CASE ReadHistory(o)
    BY <2>1 DEF ReadHistory, store, OneInv, RowsInv
  <2>2. CASE RunDdl(o) \/ Record(o)
    BY <2>2 DEF RunDdl, Record, TypeOK
  <2>3. ASSUME NEW action, Start(o, action) PROVE history' = history
    BY <2>3 DEF Start, store
  <2>4. CASE AlterTable(o) \/ CreateNew(o) \/ CopyRows(o) \/ Begin(o) \/ DdlFails(o) \/ Crash(o)
    BY <2>4 DEF AlterTable, Begin, CreateNew, CopyRows, DdlFails, Crash, store
  <2> QED
    BY <1>4, <2>1, <2>2, <2>3, <2>4 DEF CommandNext
<1>5. ASSUME NEW o \in Operators, DropOld(o)
      PROVE  ~Transactional /\ OldTable /\ Active \subseteq ActiveDdls(spare.rows)'
  <2>1. ~Transactional /\ OldTable /\ spare.rows = history /\ spare' = spare
    BY <1>5 DEF DropOld, OneInv, UpgradeInv
  <2> QED
    BY <2>1 DEF Active
<1>6. ASSUME NEW o \in Operators, RenameNew(o)
      PROVE  ~Transactional /\ OldTable /\ Active = {}
  <2>1. ~Transactional /\ OldTable /\ history = <<>>
    BY <1>6 DEF RenameNew, OneInv, UpgradeInv, RowsInv
  <2> QED
    BY <2>1, ActiveNone DEF Active
<1>7. CASE UNCHANGED vars
  BY <1>1, <1>7 DEF vars, store
<1>8. ASSUME NEW o \in Operators, pc[o] \in {"ddl", "record"}, Recorded(o),
             Transactional => began[o] # NotOpen
      PROVE  \/ \E v \in Versions : Active' = Active \cup {v}
             \/ /\ \E v \in Active : (\A u \in Active : u <= v) /\ Active' = Active \ {v}
                /\ \E p \in Operators : cmd[p] = "rollback" /\ pc[p] \in {"ddl", "record"}
  <2>1. Turn(o) \in Versions
    BY <1>8, TypeParts, TurnOf
  <2> HIDE DEF Turn, Recorded
  <2> QED
    BY <1>3, <1>8, <2>1
<1> QED
  BY <1>1, <1>2, <1>4, <1>5, <1>6, <1>7, <1>8 DEF Next

\* Every step of one operator's commands keeps the records, in one table or the other:
\* only a rollback takes a record back.
THEOREM RecordsAreKept ==
    ASSUME OneOperator, ~SameSecond
    PROVE  Spec => [][RecordsSurvive]_vars
<1>1. TypeOK /\ OneInv /\ [Next]_vars => [RecordsSurvive]_vars
  <2> SUFFICES ASSUME TypeOK, OneInv, [Next]_vars PROVE RecordsSurvive
    OBVIOUS
  <2> QED
    BY ActiveStep DEF RecordsSurvive
<1> QED
  BY <1>1, OneInvariant, PTL DEF Spec

Log == INSTANCE SchemaLog WITH applied <- Active

\* What one operator's commands record changes as SchemaLog says: one version at a time,
\* each once, and only the highest is taken back.  (ClickHouse, when it is not the first
\* version of Visualizer whose history table is brought to its new form.)
THEOREM ImplementsLog ==
    ASSUME OneOperator, ~SameSecond, Transactional \/ ~OldTable
    PROVE  Spec => Log!Spec
<1>1. Init => Log!Init
  BY ActiveNone DEF Init, Log!Init, Active
<1>2. TypeOK /\ OneInv /\ [Next]_vars => [Log!Next]_Active
  <2> SUFFICES ASSUME TypeOK, OneInv, [Next]_vars PROVE Log!Next \/ Active' = Active
    OBVIOUS
  <2>1. \/ Active' = Active
        \/ \E v \in Versions : Active' = Active \cup {v}
        \/ \E v \in Active : (\A u \in Active : u <= v) /\ Active' = Active \ {v}
    BY ActiveStep
  <2>2. ASSUME NEW v \in Versions, Active' = Active \cup {v}
        PROVE  Log!Next \/ Active' = Active
    <3>1. CASE v \in Active
      BY <2>2, <3>1
    <3>2. CASE v \notin Active
      BY <2>2, <3>2 DEF Log!Next, Log!Apply
    <3> QED
      BY <3>1, <3>2
  <2>3. ASSUME NEW v \in Active, \A u \in Active : u <= v, Active' = Active \ {v}
        PROVE  Log!Next
    <3>1. v \in Versions
      BY DEF Active, ActiveDdls
    <3> QED
      BY <2>3, <3>1 DEF Log!Next, Log!Rollback
  <2> QED
    BY <2>1, <2>2, <2>3
<1> QED
  BY <1>1, <1>2, OneInvariant, PTL DEF Spec, Log!Spec

\* Postgres: an update of one operator that ends well leaves every installed version in
\* the database, and a status of 0 says that it is so.
THEOREM SuccessMeansCurrent ==
    ASSUME OneOperator, ~SameSecond, Transactional
    PROVE  Spec => [][CurrentAfterSuccess]_vars
<1> DEFINE Inv == TypeOK /\ OneInv /\ IInv
<1>1. Inv /\ [Next]_vars => [CurrentAfterSuccess]_vars
  <2> SUFFICES ASSUME Inv, Next, NEW o \in Operators,
                      pc[o] # "idle", pc'[o] = "idle", result'[o] = 0, cmd[o] # "rollback"
               PROVE  \A v \in files : schema'[v] = "present"
    BY DEF CurrentAfterSuccess
  <2>1. PICK p \in Operators : CommandNext(p)
    BY DEF Next, Install, control
  <2>2. p = o /\ TypeOK /\ OneInv /\ Whole /\ files \subseteq Versions /\ ControlType
    BY TypeParts DEF OneOperator, IInv, TypeOK
  <2>3. ASSUME NEW code, code # 0 PROVE ~Exit(o, code)
    BY <2>2, <2>3 DEF Exit, TypeOK
  <2>4. ASSUME NEW step, step # "idle" PROVE ~Goto(o, step)
    BY <2>2, <2>4 DEF Goto, TypeOK
  <2>5. \/ ReadHistory(o)
        \/ RunDdl(o)
    <3>1. \A action : ~Start(o, action)
      BY DEF Start
    <3>2. ~AlterTable(o) /\ ~Begin(o)
      BY DEF AlterTable, Begin, control
    <3>3. ~CreateNew(o) /\ ~CopyRows(o) /\ ~DropOld(o) /\ ~RenameNew(o)
      BY <2>3, <2>4 DEF CreateNew, CopyRows, DropOld, RenameNew
    <3>4. ~DdlFails(o) /\ ~Crash(o)
      BY <2>3 DEF DdlFails, Crash
    <3>5. ~Record(o)
      BY DEF Record, IInv, Prepared
    <3> QED
      BY <2>1, <2>2, <3>1, <3>2, <3>3, <3>4, <3>5 DEF CommandNext
  <2>6. CASE ReadHistory(o)
    <3>1. PICK rows : Decide(o, rows) /\ ActiveDdls(rows) = Active
      <4>1. CASE table = "v2"
        BY <2>2, <2>6, <4>1, AnyOrder DEF ReadHistory, OneInv, RowsInv, Sound, TypeOK, Active
      <4>2. CASE table # "v2"
        <5>1. history = <<>> /\ Decide(o, <<>>)
          BY <2>2, <2>6, <4>2 DEF ReadHistory, OneInv, RowsInv
        <5> QED
          BY <5>1 DEF Active
      <4> QED
        BY <4>1, <4>2
    <3>2. pc' # [pc EXCEPT ![o] = "ddl"]
      BY <2>2 DEF TypeOK
    <3>3. files \subseteq Active
      BY <2>3, <3>1, <3>2, Decides
    <3>4. schema' = schema
      BY <2>6 DEF ReadHistory, store
    <3> QED
      BY <2>2, <3>3, <3>4 DEF Whole, Present
  <2>7. CASE RunDdl(o)
    <3>1. /\ pc[o] = "ddl" /\ Recorded(o) /\ Proceed(o)
          /\ schema' = [schema EXCEPT ![Turn(o)] = Target(o)]
      BY <2>7 DEF RunDdl
    <3>2. pc' # [pc EXCEPT ![o] = "ddl"]
      BY <2>2 DEF TypeOK
    <3>3. todo[o] = {Turn(o)}
      BY <2>2, <3>1, <3>2, Proceeds
    <3>4. cmd[o] = "update" /\ files \subseteq Active \cup todo[o]
      BY <2>2, <3>1 DEF OneInv, DoingInv, ControlType
    <3>5. \A v \in Active : schema[v] = "present"
      BY <2>2 DEF Whole, Present
    <3>6. Target(o) = "present"
      BY <3>4 DEF Target
    <3> HIDE DEF Turn
    <3> QED
      BY <2>2, <3>1, <3>3, <3>4, <3>5, <3>6 DEF TypeOK
  <2> QED
    BY <2>5, <2>6, <2>7
<1>2. Spec => []IInv
  BY InitIInv, NextIInv, PTL DEF Spec
<1> QED
  BY <1>1, <1>2, OneInvariant, PTL DEF Spec

-----------------------------------------------------------------------------
(* One operator: how far history and database differ                       *)

\* The versions of which the database does not have what these are active tell.
StraysOf(active) == {v \in Versions : schema[v] = "part" \/ (v \in active <=> v \notin Present)}

Recording == IF \E o \in Operators : pc[o] = "record" THEN 1 ELSE 0

Few(strays, n) == IsFiniteSet(strays) /\ Cardinality(strays) <= n

\* FaultsContained, with what the rows of the new table will tell when it is renamed.
StrayInv ==
    /\ ~Orphaned => Few(StraysOf(Active), faults + Recording)
    /\ (\E o \in Operators : pc[o] = "rename") => Few(StraysOf(ActiveDdls(spare.rows)), faults)

LEMMA FewMore ==
    ASSUME NEW S, NEW T, NEW v, NEW n \in Nat, Few(S, n), T \subseteq S \cup {v}
    PROVE  Few(T, n + 1)
<1>1. IsFiniteSet(S) /\ Cardinality(S) \in Nat /\ Cardinality(S) <= n
  BY FS_CardinalityType DEF Few
<1>2. /\ IsFiniteSet(S \cup {v})
      /\ Cardinality(S \cup {v}) = Cardinality(S) \/ Cardinality(S \cup {v}) = Cardinality(S) + 1
  BY <1>1, FS_AddElement
<1>3. IsFiniteSet(T) /\ Cardinality(T) <= Cardinality(S \cup {v})
  BY <1>2, FS_Subset
<1>4. Cardinality(T) \in Nat
  BY <1>3, FS_CardinalityType
<1> QED
  BY <1>1, <1>2, <1>3, <1>4 DEF Few

LEMMA FewSame ==
    ASSUME NEW S, NEW T, NEW n \in Nat, NEW m \in Nat, n <= m, Few(S, n), T \subseteq S
    PROVE  Few(T, m)
<1>1. IsFiniteSet(S) /\ Cardinality(S) \in Nat /\ Cardinality(S) <= n
  BY FS_CardinalityType DEF Few
<1>2. IsFiniteSet(T) /\ Cardinality(T) <= Cardinality(S)
  BY <1>1, FS_Subset
<1>3. Cardinality(T) \in Nat
  BY <1>2, FS_CardinalityType
<1> QED
  BY <1>1, <1>2, <1>3 DEF Few

LEMMA FewLess ==
    ASSUME NEW S, NEW v \in S, NEW n \in Nat, Few(S, n + 1)
    PROVE  Few(S \ {v}, n)
<1>1. IsFiniteSet(S) /\ Cardinality(S) \in Nat /\ Cardinality(S) <= n + 1
  BY FS_CardinalityType DEF Few
<1>2. IsFiniteSet(S \ {v}) /\ Cardinality(S \ {v}) = Cardinality(S) - 1
  BY <1>1, FS_RemoveElement
<1> QED
  BY <1>1, <1>2 DEF Few

LEMMA SmallSum == \A f \in Nat : \A r \in 0..1 : f + r \in Nat
OBVIOUS

\* A step that leaves the rows alone, and does not end a recording unless it is a fault.
LEMMA StraySame ==
    ASSUME StrayInv, faults \in Nat, faults' \in Nat,
           UNCHANGED <<schema, history, spare>>, Orphaned' <=> Orphaned,
           faults + Recording <= faults' + Recording',
           \A o \in Operators : pc'[o] = "rename" => pc[o] = "rename" /\ faults' = faults
    PROVE  StrayInv'
<1>1. StraysOf(Active)' = StraysOf(Active)
      /\ StraysOf(ActiveDdls(spare.rows))' = StraysOf(ActiveDdls(spare.rows))
  BY DEF StraysOf, Active, Present
<1>2. Recording \in 0..1 /\ Recording' \in 0..1
  BY DEF Recording
<1>3. faults + Recording \in Nat /\ faults' + Recording' \in Nat
  BY <1>2, SmallSum, Zenon
<1>4. ~Orphaned' => Few(StraysOf(Active), faults + Recording)'
  <2> SUFFICES ASSUME ~Orphaned PROVE Few(StraysOf(Active), faults + Recording)'
    OBVIOUS
  <2>1. Few(StraysOf(Active), faults + Recording)
    BY DEF StrayInv
  <2> HIDE DEF Recording
  <2>2. Few(StraysOf(Active), faults' + Recording')
    BY <1>3, <2>1, FewSame
  <2> QED
    BY <1>1, <2>2 DEF Few
<1>5. ASSUME NEW o \in Operators, pc'[o] = "rename"
      PROVE  Few(StraysOf(ActiveDdls(spare.rows)), faults)'
  BY <1>1, <1>5 DEF StrayInv, Few
<1> QED
  BY <1>4, <1>5 DEF StrayInv

\* A step that writes to the database or to the history: what it changes is given by the
\* strays that it leaves.
LEMMA StrayChange ==
    ASSUME NEW n \in Nat, n <= faults' + Recording', faults' \in Nat,
           ~Orphaned' => Few(StraysOf(Active)', n),
           \A o \in Operators : pc'[o] # "rename"
    PROVE  StrayInv'
<1>1. Recording' \in 0..1
  BY DEF Recording
<1>2. faults' + Recording' \in Nat
  BY <1>1, SmallSum, Zenon
<1>3. ~Orphaned' => Few(StraysOf(Active)', faults' + Recording')
  BY <1>2, FewSame
<1> QED
  BY <1>3 DEF StrayInv, Few

\* With one operator, the row about to be inserted is that of the command that runs.
LEMMA RecordingIs ==
    ASSUME OneOperator, NEW o \in Operators
    PROVE  /\ Recording = IF pc[o] = "record" THEN 1 ELSE 0
           /\ Recording' = IF pc'[o] = "record" THEN 1 ELSE 0
<1>1. (\E p \in Operators : pc[p] = "record") <=> pc[o] = "record"
  BY DEF OneOperator
<1>2. (\E p \in Operators : pc'[p] = "record") <=> pc'[o] = "record"
  BY DEF OneOperator
<1> QED
  BY <1>1, <1>2 DEF Recording

LEMMA InstallStray ==
    ASSUME TypeOK, OneInv, StrayInv, NEW v \in Versions, Install(v)
    PROVE  StrayInv'
<1>1. /\ \A o \in Operators : pc[o] = "idle" /\ pc'[o] = "idle"
      /\ faults \in Nat /\ faults' = faults /\ spare' = spare /\ table' = table
  BY DEF Install, control, OneInv, CountsInv
<1>2. Recording = 0 /\ Recording' = 0 /\ (Orphaned' <=> Orphaned)
  BY <1>1 DEF Recording, Orphaned
<1>3. CASE table = "v1" /\ commands = 0
  <2>1. /\ history' = Append(history, Row(v, "apply", clock))
        /\ schema' = [schema EXCEPT ![v] = "present"]
    BY <1>3 DEF Install
  <2>2. Active' = Active \cup {v}
    <3>1. history \in Seq(Rows) /\ Row(v, "apply", clock) \in Rows
      BY TypeParts, RowType DEF StoreType
    <3> QED
      BY <2>1, <3>1, ActiveAppend DEF Active, Row
  <2>3. StraysOf(Active)' \subseteq StraysOf(Active)
    BY <2>1, <2>2 DEF StraysOf, Present, TypeOK
  <2>4. Few(StraysOf(Active), faults)
    BY <1>1, <1>2, <1>3 DEF StrayInv, Orphaned
  <2>5. Few(StraysOf(Active)', faults)
    BY <1>1, <2>3, <2>4, FewSame
  <2> QED
    BY <1>1, <1>2, <2>5, StrayChange
<1>4. CASE ~(table = "v1" /\ commands = 0)
  <2>1. UNCHANGED <<schema, history>>
    BY <1>4 DEF Install
  <2> QED
    BY <1>1, <1>2, <2>1, StraySame
<1> QED
  BY <1>3, <1>4

LEMMA StrayAsBefore ==
    ASSUME UNCHANGED <<schema, history>>
    PROVE  StraysOf(Active)' = StraysOf(Active)
BY DEF StraysOf, Active, Present

LEMMA UpgradeStray ==
    ASSUME OneOperator, TypeOK, OneInv, StrayInv, NEW o \in Operators,
           AlterTable(o) \/ CreateNew(o) \/ CopyRows(o)
    PROVE  StrayInv'
<1>1. /\ pc[o] \in {"read", "copy"} /\ table = "v1" /\ UNCHANGED <<schema, history, faults>>
      /\ faults \in Nat
  BY DEF AlterTable, CreateNew, CopyRows, OneInv, UpgradeInv, CountsInv
<1>2. pc'[o] \in {"read", "copy", "drop", "idle"}
  BY <1>1 DEF AlterTable, CreateNew, CopyRows, Goto, Exit, control, TypeOK
<1>3. Recording = 0 /\ Recording' = 0
  BY <1>1, <1>2, RecordingIs
<1>4. Few(StraysOf(Active), faults)
  BY <1>1, <1>3 DEF StrayInv, Orphaned
<1>5. Few(StraysOf(Active)', faults)
  BY <1>1, <1>4, StrayAsBefore
<1>6. \A p \in Operators : pc'[p] # "rename"
  BY <1>2 DEF OneOperator
<1> QED
  BY <1>1, <1>3, <1>5, <1>6, StrayChange

LEMMA DropStray ==
    ASSUME OneOperator, TypeOK, OneInv, StrayInv, NEW o \in Operators, DropOld(o)
    PROVE  StrayInv'
<1>1. /\ pc[o] = "drop" /\ table = "v1" /\ spare.rows = history /\ spare.there
      /\ table' = "none" /\ history' = <<>>
      /\ UNCHANGED <<schema, spare, faults>> /\ faults \in Nat
  BY DEF DropOld, OneInv, UpgradeInv, CountsInv
<1>2. pc'[o] = "rename"
  BY DEF DropOld, Goto, TypeOK
<1>3. Recording = 0 /\ Recording' = 0
  BY <1>1, <1>2, RecordingIs
<1>4. Few(StraysOf(Active), faults)
  BY <1>1, <1>3 DEF StrayInv, Orphaned
<1>5. StraysOf(ActiveDdls(spare.rows))' = StraysOf(Active)
  BY <1>1 DEF StraysOf, Active, Present
<1>6. ~Orphaned' => Active' = ActiveDdls(spare.rows)'
  BY <1>1 DEF Orphaned, Active
<1>7. ~Orphaned' => StraysOf(Active)' = StraysOf(Active)
  BY <1>5, <1>6 DEF StraysOf
<1>8. Few(StraysOf(ActiveDdls(spare.rows)), faults)'
  BY <1>1, <1>4, <1>5 DEF Few
<1>9. ~Orphaned' => Few(StraysOf(Active), faults + Recording)'
  <2>1. faults' + Recording' = faults
    BY <1>1, <1>3
  <2> QED
    BY <1>4, <1>7, <2>1 DEF Few
<1> QED
  BY <1>8, <1>9 DEF StrayInv

LEMMA RenameStray ==
    ASSUME OneOperator, TypeOK, OneInv, StrayInv, NEW o \in Operators, RenameNew(o)
    PROVE  StrayInv'
<1>1. /\ pc[o] = "rename" /\ table = "none" /\ spare.there /\ faults \in Nat
      /\ UNCHANGED <<schema, faults>>
  BY DEF RenameNew, OneInv, UpgradeInv, CountsInv
<1>2. history' = spare.rows /\ Goto(o, "read")
  BY <1>1 DEF RenameNew
<1>3. pc'[o] = "read"
  BY <1>2 DEF Goto, TypeOK
<1>4. Recording' = 0 /\ \A p \in Operators : pc'[p] # "rename"
  BY <1>3, RecordingIs DEF OneOperator
<1>5. StraysOf(Active)' = StraysOf(ActiveDdls(spare.rows))
  BY <1>1, <1>2 DEF StraysOf, Active, Present
<1>6. Few(StraysOf(Active)', faults)
  BY <1>1, <1>5 DEF StrayInv
<1> QED
  BY <1>1, <1>4, <1>6, StrayChange

\* The row brings the history in step with what the DDL has done to the database.
LEMMA RecordedStrays ==
    ASSUME TypeOK, NEW o \in Operators, pc[o] \in {"ddl", "record"}, Recorded(o),
           Transactional => began[o] # NotOpen,
           schema' = [schema EXCEPT ![Turn(o)] = Target(o)]
    PROVE  StraysOf(Active)' \subseteq StraysOf(Active) \ {Turn(o)}
<1>1. Turn(o) \in Versions /\ cmd[o] \in {"update", "rollback"}
  BY TypeParts, TurnOf DEF ControlType
<1>2. \A v \in Versions : v # Turn(o) =>
        /\ schema'[v] = schema[v]
        /\ v \in Active' <=> v \in Active
        /\ v \in Present' <=> v \in Present
  BY <1>1, RecordedActive DEF Present, TypeOK
<1>3. /\ schema'[Turn(o)] # "part"
      /\ Turn(o) \in Active' <=> Turn(o) \in Present'
  <2>1. schema'[Turn(o)] = Target(o)
    BY <1>1 DEF TypeOK
  <2>2. CASE cmd[o] = "update"
    BY <1>1, <2>1, <2>2, RecordedActive DEF Present, Target
  <2>3. CASE cmd[o] = "rollback"
    BY <1>1, <2>1, <2>3, RecordedActive DEF Present, Target
  <2> QED
    BY <1>1, <2>2, <2>3
<1> HIDE DEF Turn
<1> QED
  BY <1>2, <1>3 DEF StraysOf

\* What changes of one version makes at most that one a stray.
LEMMA OneMoreStray ==
    ASSUME TypeOK, NEW v \in Versions, NEW state, schema' = [schema EXCEPT ![v] = state],
           history' = history
    PROVE  StraysOf(Active)' \subseteq StraysOf(Active) \cup {v}
BY DEF StraysOf, Active, Present, TypeOK

LEMMA ProceedStep ==
    ASSUME TypeOK, NEW o \in Operators, Proceed(o)
    PROVE  pc'[o] \in {"idle", "ddl"}
BY DEF Proceed, Exit, TypeOK

LEMMA RunStray ==
    ASSUME OneOperator, TypeOK, OneInv, StrayInv, NEW o \in Operators, RunDdl(o)
    PROVE  StrayInv'
<1>1. /\ pc[o] = "ddl" /\ faults \in Nat
      /\ schema' = [schema EXCEPT ![Turn(o)] = Target(o)]
      /\ UNCHANGED <<table, spare, faults>>
      /\ Turn(o) \in Versions
  BY TypeParts, TurnOf DEF RunDdl, OneInv, CountsInv
<1>2. Recording = 0 /\ (Orphaned' <=> Orphaned)
  BY <1>1, RecordingIs DEF Orphaned
<1>3. ~Orphaned => Few(StraysOf(Active), faults)
  BY <1>1, <1>2 DEF StrayInv
<1>4. CASE Transactional
  <2>1. Recorded(o) /\ Proceed(o) /\ began[o] # NotOpen
    BY <1>4 DEF RunDdl
  <2>2. pc'[o] \in {"idle", "ddl"}
    BY <2>1, ProceedStep
  <2>3. Recording' = 0 /\ \A p \in Operators : pc'[p] # "rename"
    BY <2>2, RecordingIs DEF OneOperator
  <2>4. StraysOf(Active)' \subseteq StraysOf(Active)
    BY <1>1, <2>1, RecordedStrays
  <2>5. ~Orphaned' => Few(StraysOf(Active)', faults)
    BY <1>1, <1>2, <1>3, <2>4, FewSame
  <2> QED
    BY <1>1, <2>3, <2>5, StrayChange
<1>5. CASE ~Transactional
  <2>1. Goto(o, "record") /\ history' = history
    BY <1>5 DEF RunDdl
  <2>2. pc'[o] = "record"
    BY <2>1 DEF Goto, TypeOK
  <2>3. Recording' = 1 /\ \A p \in Operators : pc'[p] # "rename"
    BY <2>2, RecordingIs DEF OneOperator
  <2>4. StraysOf(Active)' \subseteq StraysOf(Active) \cup {Turn(o)}
    BY <1>1, <2>1, OneMoreStray
  <2>5. ~Orphaned' => Few(StraysOf(Active)', faults + 1)
    BY <1>1, <1>2, <1>3, <2>4, FewMore
  <2>6. faults + 1 \in Nat /\ faults + 1 <= faults' + Recording'
    BY <1>1, <2>3
  <2> QED
    BY <1>1, <2>3, <2>5, <2>6, StrayChange
<1> QED
  BY <1>4, <1>5

\* A version whose DDL is done and which is still to be dealt with is a stray.
LEMMA DoneStray ==
    ASSUME TypeOK, OneInv, NEW o \in Operators, pc[o] \in {"ddl", "record"},
           schema[Turn(o)] = Target(o)
    PROVE  Turn(o) \in StraysOf(Active)
<1>1. Turn(o) \in todo[o] /\ Turn(o) \in Versions /\ cmd[o] \in {"update", "rollback"}
  BY TypeParts, TurnOf DEF ControlType
<1>2. CASE cmd[o] = "update"
  <2>1. Turn(o) \notin Active
    BY <1>1, <1>2 DEF OneInv, DoingInv
  <2>2. Turn(o) \in Present
    BY <1>1, <1>2 DEF Target, Present
  <2> QED
    BY <1>1, <2>1, <2>2 DEF StraysOf
<1>3. CASE cmd[o] = "rollback"
  <2>1. Turn(o) \in Active
    BY <1>1, <1>3 DEF OneInv, DoingInv
  <2>2. Turn(o) \notin Present
    BY <1>1, <1>3 DEF Target, Present
  <2> QED
    BY <1>1, <2>1, <2>2 DEF StraysOf
<1> QED
  BY <1>1, <1>2, <1>3

\* A DDL that fails makes at most its own version one.
LEMMA FailedStrays ==
    ASSUME TypeOK, NEW o \in Operators, DdlFails(o), Turn(o) \in Versions
    PROVE  StraysOf(Active)' \subseteq StraysOf(Active) \cup {Turn(o)}
<1>1. /\ history' = history
      /\ schema' = schema \/ schema' = [schema EXCEPT ![Turn(o)] = "part"]
  BY DEF DdlFails
<1> QED
  BY <1>1, OneMoreStray, StrayAsBefore

LEMMA FailStray ==
    ASSUME OneOperator, TypeOK, OneInv, StrayInv, NEW o \in Operators, DdlFails(o)
    PROVE  StrayInv'
<1>1. /\ pc[o] = "ddl" /\ Exit(o, 2) /\ faults \in Nat
      /\ UNCHANGED <<table, spare, history>>
      /\ Turn(o) \in Versions
  BY TypeParts, TurnOf DEF DdlFails, OneInv, CountsInv
<1>2. pc'[o] = "idle"
  BY <1>1 DEF Exit, TypeOK
<1>3. /\ Recording = 0 /\ Recording' = 0 /\ (Orphaned' <=> Orphaned)
      /\ \A p \in Operators : pc'[p] # "rename"
  BY <1>1, <1>2, RecordingIs DEF Orphaned, OneOperator
<1>4. ~Orphaned => Few(StraysOf(Active), faults)
  BY <1>1, <1>3 DEF StrayInv
<1>5. CASE schema[Turn(o)] = Target(o) /\ faults' = faults
  <2>1. Turn(o) \in StraysOf(Active)
    BY <1>1, <1>5, DoneStray
  <2>2. StraysOf(Active)' \subseteq StraysOf(Active)
    BY <1>1, <1>5, <2>1, FailedStrays
  <2>3. ~Orphaned' => Few(StraysOf(Active)', faults)
    BY <1>1, <1>3, <1>4, <2>2, FewSame
  <2> QED
    BY <1>1, <1>3, <1>5, <2>3, StrayChange
<1>6. CASE faults' = faults + 1
  <2>1. ~Orphaned' => Few(StraysOf(Active)', faults + 1)
    BY <1>1, <1>3, <1>4, FailedStrays, FewMore
  <2>2. faults' \in Nat /\ faults + 1 <= faults' + Recording'
    BY <1>1, <1>3, <1>6
  <2> QED
    BY <1>1, <1>3, <1>6, <2>1, <2>2, StrayChange
<1> QED
  BY <1>5, <1>6 DEF DdlFails

LEMMA RecordStray ==
    ASSUME OneOperator, TypeOK, OneInv, StrayInv, NEW o \in Operators, Record(o)
    PROVE  StrayInv'
<1>1. /\ pc[o] = "record" /\ Recorded(o) /\ Proceed(o) /\ faults \in Nat
      /\ ~Transactional /\ UNCHANGED <<schema, table, spare, faults>>
      /\ Turn(o) \in todo[o] /\ Turn(o) \in Versions /\ cmd[o] \in {"update", "rollback"}
  BY TypeParts, TurnOf DEF Record, OneInv, CountsInv, ControlType
<1>2. schema[Turn(o)] = Target(o)
  BY <1>1 DEF OneInv, DoingInv
<1>3. Turn(o) \in StraysOf(Active)
  BY <1>1, <1>2, DoneStray
<1>4. schema' = [schema EXCEPT ![Turn(o)] = Target(o)]
  BY <1>1, <1>2 DEF TypeOK
<1>5. StraysOf(Active)' \subseteq StraysOf(Active) \ {Turn(o)}
  BY <1>1, <1>4, RecordedStrays
<1>6. pc'[o] \in {"idle", "ddl"}
  BY <1>1, ProceedStep
<1>7. /\ Recording = 1 /\ Recording' = 0 /\ (Orphaned' <=> Orphaned)
      /\ \A p \in Operators : pc'[p] # "rename"
  BY <1>1, <1>6, RecordingIs DEF Orphaned, OneOperator
<1>8. ~Orphaned => Few(StraysOf(Active), faults + 1)
  BY <1>1, <1>7 DEF StrayInv
<1>9. ~Orphaned => Few(StraysOf(Active) \ {Turn(o)}, faults)
  BY <1>1, <1>3, <1>8, FewLess
<1>10. ~Orphaned' => Few(StraysOf(Active)', faults)
  BY <1>1, <1>5, <1>7, <1>9, FewSame
<1> QED
  BY <1>1, <1>7, <1>10, StrayChange

LEMMA StrayUnchanged ==
    ASSUME StrayInv, faults \in Nat, UNCHANGED <<schema, table, history, spare, faults, pc>>
    PROVE  StrayInv'
<1>1. Recording' = Recording /\ Recording \in 0..1 /\ (Orphaned' <=> Orphaned)
  BY DEF Orphaned, Recording
<1>2. faults + Recording <= faults' + Recording'
  BY <1>1
<1> QED
  BY <1>1, <1>2, StraySame

LEMMA NextStray ==
    ASSUME OneOperator, TypeOK, OneInv, StrayInv, [Next]_vars
    PROVE  StrayInv'
<1>0. faults \in Nat
  BY DEF OneInv, CountsInv
<1>1. ASSUME NEW v \in Versions, Install(v) PROVE StrayInv'
  BY <1>1, InstallStray
<1>2. ASSUME NEW o \in Operators, CommandNext(o) PROVE StrayInv'
  <2>1. ASSUME NEW action, Start(o, action) PROVE StrayInv'
    <3>1. pc[o] = "idle" /\ pc'[o] = "read" /\ UNCHANGED <<schema, table, history, spare, faults>>
      BY <2>1 DEF Start, store, TypeOK
    <3>2. Recording = 0 /\ Recording' = 0 /\ (Orphaned' <=> Orphaned)
          /\ \A p \in Operators : pc'[p] # "rename"
      BY <3>1, RecordingIs DEF Orphaned, OneOperator
    <3> QED
      BY <1>0, <3>1, <3>2, StraySame
  <2>2. CASE ReadHistory(o)
    <3>1. /\ pc[o] = "read" /\ UNCHANGED <<schema, history, spare, faults>>
          /\ table \in {"none", "v2"} /\ table' = "v2" /\ \E rows : Decide(o, rows)
      BY <2>2 DEF ReadHistory, store, OneInv, RowsInv
    <3>2. pc'[o] \in {"idle", "ddl"}
      BY <3>1, Decides DEF Exit, TypeOK
    <3>3. Recording = 0 /\ Recording' = 0 /\ (Orphaned' <=> Orphaned)
          /\ \A p \in Operators : pc'[p] # "rename"
      BY <3>1, <3>2, RecordingIs DEF Orphaned, OneOperator
    <3> QED
      BY <1>0, <3>1, <3>3, StraySame
  <2>3. CASE AlterTable(o) \/ CreateNew(o) \/ CopyRows(o)
    BY <2>3, UpgradeStray
  <2>4. CASE DropOld(o)
    BY <2>4, DropStray
  <2>5. CASE RenameNew(o)
    BY <2>5, RenameStray
  <2>6. CASE RunDdl(o)
    BY <2>6, RunStray
  <2>7. CASE DdlFails(o)
    BY <2>7, FailStray
  <2>8. CASE Record(o)
    BY <2>8, RecordStray
  <2>9. CASE Crash(o)
    <3>1. faults' = faults + 1 /\ faults' \in Nat /\ UNCHANGED <<schema, table, history, spare>>
          /\ pc'[o] = "idle"
      BY <1>0, <2>9 DEF Crash, store, Exit, TypeOK
    <3>2. Recording \in 0..1 /\ Recording' = 0 /\ (Orphaned' <=> Orphaned)
          /\ \A p \in Operators : pc'[p] # "rename"
      BY <3>1, RecordingIs DEF Orphaned, OneOperator
    <3>3. faults + Recording <= faults' + Recording'
      BY <1>0, <3>1, <3>2
    <3> QED
      BY <1>0, <3>1, <3>2, <3>3, StraySame
  <2>10. CASE Begin(o)
    <3>1. UNCHANGED <<schema, table, history, spare, faults, pc>>
      BY <2>10 DEF Begin, store
    <3> QED
      BY <1>0, <3>1, StrayUnchanged
  <2> QED
    BY <1>2, <2>1, <2>2, <2>3, <2>4, <2>5, <2>6, <2>7, <2>8, <2>9, <2>10 DEF CommandNext
<1>3. CASE UNCHANGED vars
  BY <1>0, <1>3, StrayUnchanged DEF vars, store, control
<1> QED
  BY <1>1, <1>2, <1>3 DEF Next

LEMMA InitStray == Init => StrayInv
<1> SUFFICES ASSUME Init PROVE StrayInv
  OBVIOUS
<1>1. StraysOf(Active) = {}
  BY ActiveNone DEF Init, StraysOf, Active, Present
<1>2. faults = 0 /\ Recording = 0 /\ \A o \in Operators : pc[o] # "rename"
  BY DEF Init, Recording
<1> QED
  BY <1>1, <1>2, FS_EmptySet DEF StrayInv, Few

\* FaultsContained is an invariant: history and database differ in at most as many
\* versions as there were faults, and in the one whose row is about to be inserted,
\* unless a command was killed while it made the history table anew.
THEOREM FaultsDoNotSpread ==
    ASSUME OneOperator, ~SameSecond
    PROVE  Spec => []FaultsContained
<1>1. OneInv /\ StrayInv => FaultsContained
  <2> SUFFICES ASSUME OneInv, StrayInv, ~Orphaned
               PROVE  Cardinality(Strays) <=
                        faults + Cardinality({o \in Operators : pc[o] = "record"})
    BY DEF FaultsContained
  <2>1. Strays = StraysOf(Active)
    BY DEF Strays, StraysOf
  <2>2. Cardinality({o \in Operators : pc[o] = "record"}) = Recording
    <3>1. CASE \E o \in Operators : pc[o] = "record"
      <4>1. PICK o \in Operators : pc[o] = "record"
        BY <3>1
      <4>2. {p \in Operators : pc[p] = "record"} = {o}
        BY <4>1 DEF OneOperator
      <4> QED
        BY <3>1, <4>2, FS_Singleton DEF Recording
    <3>2. CASE ~\E o \in Operators : pc[o] = "record"
      <4>1. {p \in Operators : pc[p] = "record"} = {}
        BY <3>2
      <4> QED
        BY <3>2, <4>1, FS_EmptySet DEF Recording
    <3> QED
      BY <3>1, <3>2
  <2> QED
    BY <2>1, <2>2 DEF StrayInv, Few
<1>2. (TypeOK /\ OneInv /\ StrayInv) /\ [Next]_vars => StrayInv'
  BY NextStray
<1> QED
  BY <1>1, <1>2, InitStray, OneInvariant, PTL DEF Spec
=============================================================================
