---------------------------- MODULE TablesProofs ----------------------------
(***************************************************************************)
(* What MCTables explores of the commands that maintain tables is proved   *)
(* of any files, archives and lists: TldUpdate, GeoUpdate and NodeList;    *)
(* and what dashboards select, of any nodes and choices: NodeSelection.    *)
(***************************************************************************)
EXTENDS NodeList, FiniteSetTheorems, WellFoundedInduction, TLAPS

CONSTANTS Names, TwoLetters, Idn, CountryPages, Legacy, MaxLists

VARIABLES tld, list, lists, tpc, listed, known, ttodo, inserted, deleted, ulabels

Tld == INSTANCE TldUpdate WITH pc <- tpc, todo <- ttodo

CONSTANTS Archives, None

VARIABLES geolocation, gruns, gpc, archive, gfile, grow, locdata, written, gtodo

Geo ==
    INSTANCE GeoUpdate WITH
        runs <- gruns, pc <- gpc, file <- gfile, row <- grow, todo <- gtodo

-----------------------------------------------------------------------------
(* Tables                                                                  *)

\* A table with one row more, or one row changed.
LEMMA PutParts ==
    ASSUME NEW table, NEW id, NEW row
    PROVE  /\ DOMAIN Put(table, id, row) = DOMAIN table \cup {id}
           /\ Put(table, id, row)[id] = row
           /\ \A k \in DOMAIN table : k # id => Put(table, id, row)[k] = table[k]
BY DEF Put

\* A table and changes of it.
LEMMA OverParts ==
    ASSUME NEW changes, NEW table
    PROVE  /\ DOMAIN Over(changes, table) = DOMAIN changes \cup DOMAIN table
           /\ \A k \in DOMAIN changes : Over(changes, table)[k] = changes[k]
           /\ \A k \in DOMAIN table \ DOMAIN changes : Over(changes, table)[k] = table[k]
BY DEF Over

-----------------------------------------------------------------------------
(* TldUpdate                                                               *)

DomainSteps == {"idle", "select", "labels", "add", "remove"}

DomainTypes == {"Legacy-gTLD", "ccTLD", "New-gTLD"}

DomainTypeOK ==
    /\ tpc \in [Commands -> DomainSteps]
    /\ DOMAIN ttodo = Commands /\ ttodo = [c \in Commands |-> ttodo[c]]
    /\ DOMAIN inserted = Commands /\ inserted = [c \in Commands |-> inserted[c]]
    /\ DOMAIN deleted = Commands /\ deleted = [c \in Commands |-> deleted[c]]
    /\ DOMAIN ulabels = Commands /\ ulabels = [c \in Commands |-> ulabels[c]]
    /\ DOMAIN listed = Commands /\ listed = [c \in Commands |-> listed[c]]
    /\ DOMAIN known = Commands /\ known = [c \in Commands |-> known[c]]
    /\ tld \in [DOMAIN tld -> [type : DomainTypes, ulabel : BOOLEAN]]

\* What is inserted and not committed is not in the table, and is of one command.
PendingNames ==
    \A c \in Commands : \A n \in DOMAIN inserted[c] :
        /\ n \notin DOMAIN tld
        /\ inserted[c][n] = [type |-> Tld!TldType(n), ulabel |-> TRUE]
        /\ \A d \in Commands : n \in DOMAIN inserted[d] => d = c

\* Names of the table without a U-label are those that a command has still to give one,
\* or has given one.
PendingLabels ==
    \A c \in Commands : \A n \in DOMAIN tld : ~tld[n].ulabel =>
        /\ tpc[c] = "labels" => n \in ttodo[c] \cup ulabels[c]
        /\ tpc[c] \in {"add", "remove"} => n \in ulabels[c]

DomainInv == DomainTypeOK /\ PendingNames /\ PendingLabels

LEMMA InitDomainInv == Tld!Init => DomainInv
<1> SUFFICES ASSUME Tld!Init PROVE DomainInv
  OBVIOUS
<1>1. \A c \in Commands : DOMAIN inserted[c] = {}
  BY DEF Tld!Init
<1>2. DomainTypeOK
  BY DEF Tld!Init, DomainTypeOK, DomainTypes, DomainSteps
<1> QED
  BY <1>1, <1>2 DEF Tld!Init, DomainInv, PendingNames, PendingLabels

\* An INSERT of a name that no other has.
LEMMA AddDomainInv ==
    ASSUME DomainInv, NEW c \in Commands, Tld!Add(c) PROVE DomainInv'
<1> USE DEF DomainInv
<1> PICK name \in ttodo[c] :
        /\ Tld!Free(c, name) /\ name \notin DOMAIN tld
        /\ ttodo' = [ttodo EXCEPT ![c] = @ \ {name}]
        /\ inserted' = [inserted EXCEPT ![c] =
                            Tld!Put(@, name, [type |-> Tld!TldType(name), ulabel |-> TRUE])]
  BY DEF Tld!Add
<1> DEFINE r == [type |-> Tld!TldType(name), ulabel |-> TRUE]
<1>1. /\ DOMAIN inserted' = Commands /\ inserted' = [d \in Commands |-> inserted'[d]]
      /\ inserted'[c] = Tld!Put(inserted[c], name, r)
      /\ \A d \in Commands : d # c => inserted'[d] = inserted[d]
  BY DEF DomainTypeOK
<1>2. /\ DOMAIN inserted'[c] = DOMAIN inserted[c] \cup {name}
      /\ inserted'[c][name] = r
      /\ \A n \in DOMAIN inserted[c] : n # name => inserted'[c][n] = inserted[c][n]
  BY <1>1 DEF Tld!Put
<1>3. \A d \in Commands : d # c => name \notin DOMAIN inserted[d]
  BY DEF Tld!Free, Tld!Others
<1>4. /\ tpc[c] = "add" /\ tpc' = tpc /\ tld' = tld /\ listed' = listed /\ known' = known
      /\ deleted' = deleted /\ ulabels' = ulabels
  BY DEF Tld!Add
<1>5. \A n : Tld!TldType(n)' = Tld!TldType(n)
  BY DEF Tld!TldType
<1>6. DomainTypeOK'
  BY <1>1, <1>4 DEF DomainTypeOK
<1>7. ASSUME NEW d \in Commands, NEW n \in DOMAIN inserted'[d]
      PROVE  /\ n \notin DOMAIN tld
             /\ inserted'[d][n] = [type |-> Tld!TldType(n), ulabel |-> TRUE]
             /\ \A e \in Commands : n \in DOMAIN inserted'[e] => e = d
  <2>1. CASE n = name
    BY <1>1, <1>2, <1>3, <2>1
  <2>2. CASE n # name
    <3>1. n \in DOMAIN inserted[d] /\ inserted'[d][n] = inserted[d][n]
      BY <1>1, <1>2, <2>2
    <3>2. ASSUME NEW e \in Commands, n \in DOMAIN inserted'[e] PROVE n \in DOMAIN inserted[e]
      <4>1. CASE e = c
        BY <1>2, <2>2, <3>2, <4>1
      <4>2. CASE e # c
        BY <1>1, <3>2, <4>2
      <4> QED
        BY <4>1, <4>2
    <3> QED
      BY <3>1, <3>2 DEF PendingNames
  <2> QED
    BY <2>1, <2>2
<1>8. PendingNames'
  <2> SUFFICES ASSUME NEW d \in Commands, NEW n \in DOMAIN inserted'[d]
               PROVE  /\ n \notin DOMAIN tld'
                      /\ inserted'[d][n] = [type |-> Tld!TldType(n)', ulabel |-> TRUE]
                      /\ \A e \in Commands : n \in DOMAIN inserted'[e] => e = d
    BY DEF PendingNames
  <2> QED
    BY <1>4, <1>5, <1>7
<1>9. PendingLabels'
  BY <1>4 DEF PendingLabels
<1> QED
  BY <1>6, <1>8, <1>9

\* What a command makes of the table has all labels, and the types of what was added.
LEMMA CommitDomains ==
    ASSUME DomainInv, NEW c \in Commands, tpc[c] = "remove"
    PROVE  LET after == Tld!TableAfter(c) IN
           /\ after \in [DOMAIN after -> [type : DomainTypes, ulabel : BOOLEAN]]
           /\ DOMAIN after = (DOMAIN tld \cup DOMAIN inserted[c]) \ deleted[c]
           /\ \A n \in DOMAIN after :
                /\ after[n].ulabel
                /\ after[n].type = IF n \in DOMAIN tld THEN tld[n].type ELSE Tld!TldType(n)
<1> DEFINE after == Tld!TableAfter(c)
<1>1. after = [n \in (DOMAIN tld \cup DOMAIN inserted[c]) \ deleted[c] |->
                 IF n \in DOMAIN inserted[c] THEN inserted[c][n]
                 ELSE [tld[n] EXCEPT !.ulabel = @ \/ n \in ulabels[c]]]
  BY DEF Tld!TableAfter
<1> HIDE DEF after
<1>2. \A n : Tld!TldType(n) \in DomainTypes
  BY DEF Tld!TldType, DomainTypes
<1> USE DEF DomainInv, DomainTypeOK, PendingNames, PendingLabels
<1>3. ASSUME NEW n \in DOMAIN after
      PROVE  /\ after[n] \in [type : DomainTypes, ulabel : BOOLEAN]
             /\ after[n].ulabel
             /\ after[n].type = IF n \in DOMAIN tld THEN tld[n].type ELSE Tld!TldType(n)
  <2>1. CASE n \in DOMAIN inserted[c]
    <3>1. n \notin DOMAIN tld /\ after[n] = [type |-> Tld!TldType(n), ulabel |-> TRUE]
      BY <1>1, <2>1 DEF DomainInv
    <3> QED
      BY <1>2, <3>1
  <2>2. CASE n \notin DOMAIN inserted[c]
    <3>1. n \in DOMAIN tld /\ after[n] = [tld[n] EXCEPT !.ulabel = @ \/ n \in ulabels[c]]
      BY <1>1, <2>2
    <3>2. tld[n] \in [type : DomainTypes, ulabel : BOOLEAN]
      BY <3>1 DEF DomainInv
    <3>3. tld[n].ulabel \/ n \in ulabels[c]
      BY <3>1 DEF DomainInv
    <3> QED
      BY <3>1, <3>2, <3>3
  <2> QED
    BY <2>1, <2>2
<1>4. DOMAIN after = (DOMAIN tld \cup DOMAIN inserted[c]) \ deleted[c]
  BY <1>1
<1>5. after = [n \in DOMAIN after |-> after[n]]
  BY <1>1
<1>6. after \in [DOMAIN after -> [type : DomainTypes, ulabel : BOOLEAN]]
  BY <1>3, <1>5
<1> QED
  BY <1>3, <1>4, <1>6 DEF after

\* Steps before the list and the table are compared.
LEMMA ReadDomainInv ==
    ASSUME DomainInv, NEW c \in Commands, Tld!ReadList(c) \/ Tld!ReadTable(c) PROVE DomainInv'
<1> USE DEF DomainInv
<1>1. \A n : Tld!TldType(n)' = Tld!TldType(n)
  BY DEF Tld!TldType
<1>2. CASE Tld!ReadList(c)
  <2>1. DomainTypeOK'
    BY <1>2 DEF DomainTypeOK, Tld!ReadList, Tld!Go, DomainSteps
  <2>2. PendingNames' /\ PendingLabels'
    BY <1>1, <1>2 DEF DomainTypeOK, PendingNames, PendingLabels, Tld!ReadList, Tld!Go
  <2> QED
    BY <2>1, <2>2
<1>3. CASE Tld!ReadTable(c)
  <2>1. DomainTypeOK'
    BY <1>3 DEF DomainTypeOK, Tld!ReadTable, Tld!Go, DomainSteps
  <2>2. /\ inserted'[c] = <<>> /\ tld' = tld /\ ttodo'[c] = DOMAIN tld /\ tpc'[c] = "labels"
        /\ \A d \in Commands : d # c =>
            /\ inserted'[d] = inserted[d] /\ ttodo'[d] = ttodo[d]
            /\ ulabels'[d] = ulabels[d] /\ tpc'[d] = tpc[d]
    BY <1>3 DEF DomainTypeOK, Tld!ReadTable, Tld!Go
  <2>3. DOMAIN inserted'[c] = {}
    BY <2>2
  <2>4. PendingNames'
    BY <1>1, <2>2, <2>3 DEF PendingNames
  <2>5. PendingLabels'
    BY <2>2 DEF PendingLabels
  <2> QED
    BY <2>1, <2>4, <2>5
<1> QED
  BY <1>2, <1>3

\* Steps that prepare the changes of the transaction, but for Add.
LEMMA PrepareDomainInv ==
    ASSUME DomainInv, NEW c \in Commands,
           Tld!SetLabel(c) \/ Tld!Labelled(c) \/ Tld!Added(c) \/ Tld!Remove(c)
    PROVE  DomainInv'
<1> USE DEF DomainInv
<1>1. \A n : Tld!TldType(n)' = Tld!TldType(n)
  BY DEF Tld!TldType
<1>2. inserted' = inserted /\ tld' = tld
  BY DEF Tld!SetLabel, Tld!Labelled, Tld!Added, Tld!Remove
<1>3. PendingNames'
  BY <1>1, <1>2 DEF PendingNames
<1>4. DomainTypeOK'
  <2>1. CASE Tld!SetLabel(c)
    BY <2>1 DEF DomainTypeOK, Tld!SetLabel
  <2>2. CASE Tld!Labelled(c) \/ Tld!Added(c)
    BY <2>2 DEF DomainTypeOK, Tld!Labelled, Tld!Added, Tld!Go, DomainSteps
  <2>3. CASE Tld!Remove(c)
    BY <2>3 DEF DomainTypeOK, Tld!Remove
  <2> QED
    BY <2>1, <2>2, <2>3
<1>5. PendingLabels'
  <2>1. CASE Tld!SetLabel(c)
    <3>1. PICK name \in ttodo[c] :
            /\ ttodo' = [ttodo EXCEPT ![c] = @ \ {name}]
            /\ ulabels' = IF name \in DOMAIN tld /\ ~tld[name].ulabel
                          THEN [ulabels EXCEPT ![c] = @ \cup {name}] ELSE ulabels
      BY <2>1 DEF Tld!SetLabel
    <3>2. tpc' = tpc /\ tpc[c] = "labels"
      BY <2>1 DEF Tld!SetLabel
    <3>3. /\ ttodo'[c] = ttodo[c] \ {name}
          /\ ulabels[c] \subseteq ulabels'[c]
          /\ name \in DOMAIN tld /\ ~tld[name].ulabel => name \in ulabels'[c]
          /\ \A d \in Commands : d # c => ttodo'[d] = ttodo[d] /\ ulabels'[d] = ulabels[d]
      BY <3>1 DEF DomainTypeOK
    <3> QED
      BY <1>2, <3>2, <3>3 DEF PendingLabels
  <2>2. CASE Tld!Labelled(c)
    BY <1>2, <2>2 DEF PendingLabels, DomainTypeOK, Tld!Labelled, Tld!Go
  <2>3. CASE Tld!Added(c)
    BY <1>2, <2>3 DEF PendingLabels, DomainTypeOK, Tld!Added, Tld!Go
  <2>4. CASE Tld!Remove(c)
    BY <1>2, <2>4 DEF PendingLabels, DomainTypeOK, Tld!Remove
  <2> QED
    BY <2>1, <2>2, <2>3, <2>4
<1> QED
  BY <1>3, <1>4, <1>5

\* The end of the transaction.
LEMMA EndDomainInv ==
    ASSUME DomainInv, NEW c \in Commands, Tld!Commit(c) \/ Tld!Fail(c) PROVE DomainInv'
<1> USE DEF DomainInv
<1>1. \A n : Tld!TldType(n)' = Tld!TldType(n)
  BY DEF Tld!TldType
<1>2. /\ Tld!Forget(c) /\ tpc' = [tpc EXCEPT ![c] = "idle"]
      /\ listed' = listed /\ known' = known
      /\ tld' = tld \/ (tpc[c] = "remove" /\ tld' = Tld!TableAfter(c))
  BY DEF Tld!Commit, Tld!Fail, Tld!Go
<1>3. /\ DOMAIN inserted'[c] = {}
      /\ tpc'[c] = "idle"
      /\ \A d \in Commands : d # c =>
          /\ inserted'[d] = inserted[d] /\ ttodo'[d] = ttodo[d]
          /\ ulabels'[d] = ulabels[d] /\ tpc'[d] = tpc[d]
  BY <1>2 DEF DomainTypeOK, Tld!Forget
<1>4. DOMAIN tld' \subseteq DOMAIN tld \cup DOMAIN inserted[c]
  BY <1>2 DEF Tld!TableAfter
<1>5. tld' \in [DOMAIN tld' -> [type : DomainTypes, ulabel : BOOLEAN]]
  <2>1. CASE tld' = tld
    BY <2>1 DEF DomainTypeOK
  <2>2. CASE tpc[c] = "remove" /\ tld' = Tld!TableAfter(c)
    BY <2>2, CommitDomains
  <2> QED
    BY <1>2, <2>1, <2>2
<1>6. DomainTypeOK'
  BY <1>2, <1>5 DEF DomainTypeOK, Tld!Forget, DomainSteps
<1>7. PendingNames'
  BY <1>1, <1>3, <1>4 DEF PendingNames
<1>8. CASE tld' = tld
  BY <1>3, <1>6, <1>7, <1>8 DEF PendingLabels
<1>9. CASE tld' = Tld!TableAfter(c) /\ tpc[c] = "remove"
  <2>1. \A n \in DOMAIN tld' : tld'[n].ulabel
    BY <1>9, CommitDomains
  <2> QED
    BY <1>6, <1>7, <2>1 DEF PendingLabels
<1> QED
  BY <1>2, <1>8, <1>9

LEMMA NextDomainInv == DomainInv /\ [Tld!Next]_Tld!vars => DomainInv'
<1> SUFFICES ASSUME DomainInv, [Tld!Next]_Tld!vars PROVE DomainInv'
  OBVIOUS
<1>1. ASSUME UNCHANGED <<tld, tpc, listed, known, ttodo, inserted, deleted, ulabels>>
      PROVE  DomainInv'
  BY <1>1 DEF DomainInv, DomainTypeOK, PendingNames, PendingLabels, Tld!TldType
<1>2. CASE Tld!ListChanges \/ UNCHANGED Tld!vars
  BY <1>1, <1>2 DEF Tld!ListChanges, Tld!vars
<1>3. ASSUME NEW c \in Commands,
             \/ Tld!ReadList(c) \/ Tld!ReadTable(c) \/ Tld!SetLabel(c) \/ Tld!Labelled(c)
             \/ Tld!Add(c) \/ Tld!Added(c) \/ Tld!Remove(c) \/ Tld!Commit(c) \/ Tld!Fail(c)
      PROVE  DomainInv'
  BY <1>3, ReadDomainInv, PrepareDomainInv, AddDomainInv, EndDomainInv
<1> QED
  BY <1>2, <1>3 DEF Tld!Next

\* Who changes the table, and how.
LEMMA TableChanges ==
    ASSUME DomainInv, [Tld!Next]_Tld!vars, tld' # tld
    PROVE  \E c \in Commands : Tld!Commit(c) /\ tld' = Tld!TableAfter(c)
BY DEF Tld!Next, Tld!vars, Tld!ListChanges, Tld!ReadList, Tld!ReadTable, Tld!SetLabel,
       Tld!Labelled, Tld!Add, Tld!Added, Tld!Remove, Tld!Commit, Tld!Fail

\* dsv-tld-update, any number of them at once: a name that is added is a country's if its
\* letters or its page say so, and no type changes while a name is in the table.
THEOREM DomainTypesTrue == Tld!Spec => [][Tld!TypesTrue]_Tld!vars
<1>1. DomainInv /\ [Tld!Next]_Tld!vars => Tld!TypesTrue
  <2> SUFFICES ASSUME DomainInv, [Tld!Next]_Tld!vars PROVE Tld!TypesTrue
    OBVIOUS
  <2>1. CASE tld' = tld
    BY <2>1 DEF Tld!TypesTrue
  <2>2. CASE tld' # tld
    <3>1. PICK c \in Commands : Tld!Commit(c) /\ tld' = Tld!TableAfter(c)
      BY <2>2, TableChanges
    <3>2. \A n \in DOMAIN tld' :
            tld'[n].type = IF n \in DOMAIN tld THEN tld[n].type ELSE Tld!TldType(n)
      BY <3>1, CommitDomains DEF Tld!Commit
    <3> QED
      BY <3>2 DEF Tld!TypesTrue, Tld!TldType
  <2> QED
    BY <2>1, <2>2
<1> QED
  BY <1>1, InitDomainInv, NextDomainInv, PTL DEF Tld!Spec

\* dsv-tld-update, any number of them at once: a table that has changed has the U-label of
\* every name, although it may come from a schema that had none.
THEOREM AllLabelsSet == Tld!Spec => [][Tld!LabelsSet]_Tld!vars
<1>1. DomainInv /\ [Tld!Next]_Tld!vars => Tld!LabelsSet
  BY TableChanges, CommitDomains DEF Tld!LabelsSet, Tld!Commit
<1> QED
  BY <1>1, InitDomainInv, NextDomainInv, PTL DEF Tld!Spec

\* One command: what it knows stays true, and it does what it has found to be done.
OneAtATime == \A c, d \in Commands : c = d

ListInv ==
    \A c \in Commands :
        /\ tpc[c] \in {"labels", "add", "remove"} =>
            known[c] = DOMAIN tld /\ DOMAIN inserted[c] \subseteq listed[c] \ known[c]
        /\ tpc[c] \in {"labels", "add"} => deleted[c] = {}
        /\ tpc[c] = "add" => DOMAIN inserted[c] \cup ttodo[c] = listed[c] \ known[c]
        /\ tpc[c] = "remove" =>
            /\ DOMAIN inserted[c] = listed[c] \ known[c]
            /\ deleted[c] \cup ttodo[c] = known[c] \ listed[c]

\* The steps of the one command.
LEMMA NextListInv ==
    ASSUME OneAtATime, DomainInv, ListInv, [Tld!Next]_Tld!vars PROVE ListInv'
<1> USE DEF DomainInv
<1> SUFFICES ASSUME NEW d \in Commands
             PROVE  /\ tpc'[d] \in {"labels", "add", "remove"} =>
                        /\ known'[d] = DOMAIN tld'
                        /\ DOMAIN inserted'[d] \subseteq listed'[d] \ known'[d]
                    /\ tpc'[d] \in {"labels", "add"} => deleted'[d] = {}
                    /\ tpc'[d] = "add" =>
                        DOMAIN inserted'[d] \cup ttodo'[d] = listed'[d] \ known'[d]
                    /\ tpc'[d] = "remove" =>
                        /\ DOMAIN inserted'[d] = listed'[d] \ known'[d]
                        /\ deleted'[d] \cup ttodo'[d] = known'[d] \ listed'[d]
  BY DEF ListInv
<1>1. CASE UNCHANGED <<tld, tpc, listed, known, ttodo, inserted, deleted, ulabels>>
  BY <1>1 DEF ListInv
<1>2. CASE Tld!ReadList(d) \/ Tld!Commit(d) \/ Tld!Fail(d)
  BY <1>2 DEF DomainTypeOK, Tld!ReadList, Tld!Commit, Tld!Fail, Tld!Go
<1>3. CASE Tld!ReadTable(d)
  <2>1. /\ tpc'[d] = "labels" /\ known'[d] = DOMAIN tld /\ tld' = tld
        /\ inserted'[d] = <<>> /\ deleted'[d] = {}
    BY <1>3 DEF DomainTypeOK, Tld!ReadTable, Tld!Go
  <2>2. DOMAIN inserted'[d] = {}
    BY <2>1
  <2> QED
    BY <2>1, <2>2
<1>4. CASE Tld!SetLabel(d)
  BY <1>4 DEF DomainTypeOK, ListInv, Tld!SetLabel
<1>5. CASE Tld!Labelled(d)
  <2>1. /\ tpc[d] = "labels" /\ tpc'[d] = "add" /\ ttodo'[d] = listed[d] \ known[d]
        /\ UNCHANGED <<tld, listed, known, inserted, deleted>>
    BY <1>5 DEF DomainTypeOK, Tld!Labelled, Tld!Go
  <2> QED
    BY <2>1 DEF ListInv
<1>6. CASE Tld!Add(d)
  <2>1. PICK name \in ttodo[d] :
            /\ ttodo' = [ttodo EXCEPT ![d] = @ \ {name}]
            /\ inserted' = [inserted EXCEPT ![d] =
                    Tld!Put(@, name, [type |-> Tld!TldType(name), ulabel |-> TRUE])]
    BY <1>6 DEF Tld!Add
  <2>2. ttodo'[d] = ttodo[d] \ {name} /\ DOMAIN inserted'[d] = DOMAIN inserted[d] \cup {name}
    BY <2>1 DEF DomainTypeOK, Tld!Put
  <2>3. tpc[d] = "add" /\ UNCHANGED <<tld, tpc, listed, known, deleted>>
    BY <1>6 DEF Tld!Add
  <2> QED
    BY <2>2, <2>3 DEF ListInv
<1>7. CASE Tld!Added(d)
  <2>1. /\ tpc[d] = "add" /\ tpc'[d] = "remove" /\ ttodo[d] = {}
        /\ ttodo'[d] = known[d] \ listed[d]
        /\ UNCHANGED <<tld, listed, known, inserted, deleted>>
    BY <1>7 DEF DomainTypeOK, Tld!Added, Tld!Go
  <2> QED
    BY <2>1 DEF ListInv
<1>8. CASE Tld!Remove(d)
  <2>1. PICK name \in ttodo[d] :
            /\ ttodo' = [ttodo EXCEPT ![d] = @ \ {name}]
            /\ deleted' = [deleted EXCEPT ![d] = @ \cup {name}]
    BY <1>8 DEF Tld!Remove
  <2>2. ttodo'[d] = ttodo[d] \ {name} /\ deleted'[d] = deleted[d] \cup {name}
    BY <2>1 DEF DomainTypeOK
  <2>3. tpc[d] = "remove" /\ UNCHANGED <<tld, tpc, listed, known, inserted>>
    BY <1>8 DEF Tld!Remove
  <2> QED
    BY <2>2, <2>3 DEF ListInv
<1> QED
  BY <1>1, <1>2, <1>3, <1>4, <1>5, <1>6, <1>7, <1>8
  DEF OneAtATime, Tld!Next, Tld!vars, Tld!ListChanges

\* dsv-tld-update, one at a time: when the table has changed, it has exactly the names of
\* the list that the command has read, although the list may have changed since.
THEOREM DomainsFollowList == OneAtATime /\ Tld!Spec => [][Tld!TableIsList]_Tld!vars
<1> SUFFICES ASSUME OneAtATime PROVE Tld!Spec => [][Tld!TableIsList]_Tld!vars
  OBVIOUS
<1>1. Tld!Init => ListInv
  BY DEF Tld!Init, ListInv
<1>2. DomainInv /\ ListInv /\ [Tld!Next]_Tld!vars => ListInv'
  BY NextListInv
<1>3. DomainInv /\ ListInv /\ [Tld!Next]_Tld!vars => Tld!TableIsList
  <2> SUFFICES ASSUME DomainInv, ListInv, [Tld!Next]_Tld!vars, tld' # tld,
                      NEW c \in Commands, tpc[c] = "remove"
               PROVE  DOMAIN tld' = listed[c]
    BY DEF Tld!TableIsList
  <2>1. Tld!Commit(c) /\ tld' = Tld!TableAfter(c)
    BY TableChanges DEF OneAtATime
  <2>2. DOMAIN tld' = (DOMAIN tld \cup DOMAIN inserted[c]) \ deleted[c]
    BY <2>1, CommitDomains
  <2>3. ttodo[c] = {}
    BY <2>1 DEF Tld!Commit
  <2> QED
    BY <2>2, <2>3 DEF ListInv
<1> QED
  BY <1>1, <1>2, <1>3, InitDomainInv, NextDomainInv, PTL DEF Tld!Spec

-----------------------------------------------------------------------------
(* GeoUpdate                                                               *)

\* An archive is a sequence of files, each a sequence of rows, and the names of a
\* location are one too.
ArchiveFormat ==
    \A a \in Archives :
        /\ Len(a) \in Nat /\ DOMAIN a = 1..Len(a)
        /\ \A k \in DOMAIN a :
            /\ Len(a[k].rows) \in Nat /\ DOMAIN a[k].rows = 1..Len(a[k].rows)
            /\ a[k].kind = "Locations-en" => \A i \in DOMAIN a[k].rows :
                DOMAIN a[k].rows[i].names \subseteq Nat

\* The locations come before the blocks of addresses, as MaxMind packs them: a location
\* that is read has no position yet.
LocationsFirst ==
    \A a \in Archives : \A j, k \in DOMAIN a :
        a[j].kind = "Locations-en" /\ a[k].kind = "Blocks-IPv4" => j < k

\* A location has one row.
LocationsOnce ==
    \A a \in Archives : \A j, k \in DOMAIN a :
        a[j].kind = "Locations-en" /\ a[k].kind = "Locations-en" =>
            \A i \in DOMAIN a[j].rows, l \in DOMAIN a[k].rows :
                a[j].rows[i].id = a[k].rows[l].id => j = k /\ i = l

GeoTypeOK ==
    /\ gpc \in {"idle", "read", "write", "done"}
    /\ gpc # "idle" => archive \in Archives
    /\ gpc = "read" => gfile \in Nat \ {0} /\ grow \in Nat \ {0}
    /\ geolocation = [id \in DOMAIN geolocation |-> geolocation[id]]
    /\ locdata = [id \in DOMAIN locdata |-> locdata[id]]

\* The transaction has written those locations that are not in gtodo, and the end of the
\* transaction leaves them in the table.
WrittenSoFar ==
    /\ gpc = "write" =>
        /\ gtodo \subseteq DOMAIN locdata
        /\ written = [id \in DOMAIN geolocation \cup (DOMAIN locdata \ gtodo) |->
                        IF id \in DOMAIN locdata \ gtodo THEN locdata[id] ELSE geolocation[id]]
    /\ gpc = "done" => \A id \in DOMAIN locdata :
        id \in DOMAIN geolocation /\ geolocation[id] = locdata[id]

GeoInv == GeoTypeOK /\ WrittenSoFar

\* The steps of the command, and what it has written.
LEMMA NextGeoInv ==
    ASSUME GeoInv, [Geo!Next]_Geo!vars PROVE GeoInv' /\ Geo!AllAtOnce
<1> USE DEF GeoInv
<1>1. CASE UNCHANGED Geo!vars
  BY <1>1 DEF GeoTypeOK, WrittenSoFar, Geo!vars, Geo!AllAtOnce
<1>2. CASE Geo!Start
  <2>1. locdata' = <<>> /\ gpc' = "read" /\ archive' \in Archives
        /\ gfile' = 1 /\ grow' = 1 /\ geolocation' = geolocation
    BY <1>2 DEF Geo!Start
  <2>2. locdata' = [id \in DOMAIN locdata' |-> locdata'[id]]
    BY <2>1
  <2> QED
    BY <2>1, <2>2 DEF GeoTypeOK, WrittenSoFar, Geo!AllAtOnce
<1>3. CASE Geo!ReadBlock \/ Geo!ReadLocation
  <2>1. gpc = "read" /\ UNCHANGED <<geolocation, gpc, archive, gfile>> /\ grow' = grow + 1
    BY <1>3 DEF Geo!ReadBlock, Geo!ReadLocation, Geo!InFile
  <2>2. locdata' = locdata \/ \E id, v : locdata' = Geo!Put(locdata, id, v)
    BY <1>3 DEF Geo!ReadBlock, Geo!ReadLocation
  <2>3. locdata' = [id \in DOMAIN locdata' |-> locdata'[id]]
    BY <2>2 DEF GeoTypeOK, Geo!Put
  <2> QED
    BY <2>1, <2>3 DEF GeoTypeOK, WrittenSoFar, Geo!AllAtOnce
<1>4. CASE Geo!NextFile
  BY <1>4 DEF GeoTypeOK, WrittenSoFar, Geo!NextFile, Geo!AllAtOnce
<1>5. CASE Geo!EndOfArchive
  <2>1. /\ gpc = "read" /\ UNCHANGED <<geolocation, archive, locdata>>
        /\ \/ gpc' = "write" /\ gtodo' = DOMAIN locdata /\ written' = geolocation
           \/ gpc' = "idle"
    BY <1>5 DEF Geo!EndOfArchive
  <2>2. gpc' = "write" =>
          written' = [id \in DOMAIN geolocation \cup (DOMAIN locdata \ gtodo') |->
                        IF id \in DOMAIN locdata \ gtodo' THEN locdata[id] ELSE geolocation[id]]
    BY <2>1 DEF GeoTypeOK
  <2> QED
    BY <2>1, <2>2 DEF GeoTypeOK, WrittenSoFar, Geo!AllAtOnce
<1>6. CASE Geo!WriteRow
  <2>1. PICK x \in gtodo : written' = Geo!Put(written, x, locdata[x]) /\ gtodo' = gtodo \ {x}
    BY <1>6 DEF Geo!WriteRow
  <2>2. gpc = "write" /\ UNCHANGED <<geolocation, gpc, archive, locdata>>
    BY <1>6 DEF Geo!WriteRow
  <2>3. gtodo \subseteq DOMAIN locdata
    BY <2>2 DEF WrittenSoFar
  <2>4. written = [id \in DOMAIN geolocation \cup (DOMAIN locdata \ gtodo) |->
                    IF id \in DOMAIN locdata \ gtodo THEN locdata[id] ELSE geolocation[id]]
    BY <2>2 DEF WrittenSoFar
  <2>5. written' = [id \in DOMAIN written \cup {x} |->
                        IF id = x THEN locdata[x] ELSE written[id]]
    BY <2>1 DEF Geo!Put
  <2>6. DOMAIN locdata \ gtodo' = (DOMAIN locdata \ gtodo) \cup {x}
    BY <2>1, <2>3
  <2>7. DOMAIN written \cup {x} = DOMAIN geolocation \cup (DOMAIN locdata \ gtodo')
    BY <2>4, <2>6
  <2>8. \A id \in DOMAIN written \cup {x} :
            (IF id = x THEN locdata[x] ELSE written[id])
                = IF id \in DOMAIN locdata \ gtodo' THEN locdata[id] ELSE geolocation[id]
    BY <2>4, <2>6
  <2>9. written' = [id \in DOMAIN geolocation \cup (DOMAIN locdata \ gtodo') |->
                    IF id \in DOMAIN locdata \ gtodo' THEN locdata[id] ELSE geolocation[id]]
    BY <2>5, <2>7, <2>8
  <2> QED
    BY <2>1, <2>2, <2>3, <2>9 DEF GeoTypeOK, WrittenSoFar, Geo!AllAtOnce
<1>7. CASE Geo!Commit
  <2>1. /\ gpc = "write" /\ gpc' = "done" /\ gtodo = {} /\ geolocation' = written
        /\ UNCHANGED <<archive, locdata>>
    BY <1>7 DEF Geo!Commit
  <2>2. written = [id \in DOMAIN geolocation \cup DOMAIN locdata |->
                    IF id \in DOMAIN locdata THEN locdata[id] ELSE geolocation[id]]
    BY <2>1 DEF WrittenSoFar
  <2>3. written = Geo!Over(locdata, geolocation)
    BY <2>2 DEF Geo!Over
  <2>4. /\ written = [id \in DOMAIN written |-> written[id]]
        /\ \A id \in DOMAIN locdata : id \in DOMAIN written /\ written[id] = locdata[id]
    BY <2>2
  <2> QED
    BY <2>1, <2>3, <2>4 DEF GeoTypeOK, WrittenSoFar, Geo!AllAtOnce
<1>8. CASE Geo!Exit \/ Geo!Fail
  BY <1>8 DEF GeoTypeOK, WrittenSoFar, Geo!Exit, Geo!Fail, Geo!AllAtOnce
<1> QED
  BY <1>1, <1>2, <1>3, <1>4, <1>5, <1>6, <1>7, <1>8 DEF Geo!Next

LEMMA InitGeoInv == Geo!Init => GeoInv
<1> SUFFICES ASSUME Geo!Init PROVE GeoInv
  OBVIOUS
<1>1. geolocation = <<>> /\ locdata = <<>> /\ gpc = "idle"
  BY DEF Geo!Init
<1>2. /\ geolocation = [id \in DOMAIN geolocation |-> geolocation[id]]
      /\ locdata = [id \in DOMAIN locdata |-> locdata[id]]
  BY <1>1
<1> QED
  BY <1>1, <1>2 DEF GeoInv, GeoTypeOK, WrittenSoFar

\* dsv-geo-update: the table changes from what one archive says to what another says all at
\* once, for any archives, although a command may fail or be killed between two rows.
THEOREM LocationsAtOnce == Geo!Spec => [][Geo!AllAtOnce]_Geo!vars
<1>1. GeoInv /\ [Geo!Next]_Geo!vars => GeoInv' /\ Geo!AllAtOnce
  BY NextGeoInv
<1> QED
  BY <1>1, InitGeoInv, PTL DEF Geo!Spec

\* What the command has come past; all of it when it writes.
Passed(p) == gpc = "read" => p[1] < gfile \/ (p[1] = gfile /\ p[2] < grow)

\* Of the blocks of a location that it has come past, locdata has the last.
PositionsCollected ==
    gpc # "idle" => \A p \in Geo!BlockRows :
        /\ Passed(p)
        /\ \A q \in Geo!BlockRows :
            Passed(q) /\ Geo!RowAt(q).id = Geo!RowAt(p).id => ~Geo!Later(p, q)
        => /\ Geo!RowAt(p).id \in DOMAIN locdata
           /\ locdata[Geo!RowAt(p).id].position = Geo!RowAt(p).position

\* Of the locations that it has come past, locdata has the name.
NamesCollected ==
    gpc # "idle" => \A p \in Geo!LocationRows : Passed(p) =>
        /\ Geo!RowAt(p).id \in DOMAIN locdata
        /\ locdata[Geo!RowAt(p).id].name = Geo!NameOf(Geo!RowAt(p).names)

\* Where rows are.
LEMMA PlaceParts ==
    ASSUME NEW p
    PROVE  p \in Geo!Places <=>
            /\ p = <<p[1], p[2]>>
            /\ p[1] \in DOMAIN archive /\ p[2] \in DOMAIN archive[p[1]].rows
BY DEF Geo!Places

LEMMA RowParts ==
    ASSUME ArchiveFormat, archive \in Archives,
           NEW p \in Geo!BlockRows \cup Geo!LocationRows
    PROVE  /\ p = <<p[1], p[2]>>
           /\ p[1] \in Nat \ {0} /\ p[2] \in Nat \ {0}
           /\ p[1] \in DOMAIN archive /\ p[1] <= Len(archive)
           /\ p[2] \in DOMAIN archive[p[1]].rows /\ p[2] <= Len(archive[p[1]].rows)
<1>1. p \in Geo!Places
  BY DEF Geo!BlockRows, Geo!LocationRows
<1>2. /\ p = <<p[1], p[2]>>
      /\ p[1] \in DOMAIN archive /\ p[2] \in DOMAIN archive[p[1]].rows
  BY <1>1, PlaceParts
<1> QED
  BY <1>2 DEF ArchiveFormat

\* Nothing is passed at first, everything in the end, and a row or the rest of a file that
\* has none to be read in between.
LEMMA PassedSteps ==
    ASSUME ArchiveFormat, GeoInv, gpc = "read",
           NEW p \in Geo!BlockRows \cup Geo!LocationRows
    PROVE  /\ Geo!NextFile => Passed(p)' = Passed(p)
           /\ Geo!EndOfArchive => Passed(p)' = Passed(p)
           /\ gpc' = "read" /\ gfile' = gfile /\ grow' = grow + 1 =>
                (Passed(p)' <=> Passed(p) \/ p = <<gfile, grow>>)
<1> DEFINE a == p[1]  i == p[2]
<1>1. /\ p = <<a, i>> /\ a \in Nat \ {0} /\ i \in Nat \ {0}
      /\ a <= Len(archive) /\ i <= Len(archive[a].rows)
  BY RowParts DEF GeoInv, GeoTypeOK
<1>2. gfile \in Nat /\ grow \in Nat
  BY DEF GeoInv, GeoTypeOK
<1>3. Passed(p) <=> a < gfile \/ (a = gfile /\ i < grow)
  BY DEF Passed
<1>4. Len(archive) \in Nat /\ \A k \in DOMAIN archive : Len(archive[k].rows) \in Nat
  BY DEF ArchiveFormat, GeoInv, GeoTypeOK
<1>5. ASSUME Geo!NextFile PROVE Passed(p)' = Passed(p)
  <2>1. gpc' = gpc /\ gfile' = gfile + 1 /\ grow' = 1
    BY <1>5 DEF Geo!NextFile
  <2>2. a = gfile => grow > Len(archive[gfile].rows)
    BY <1>5 DEF Geo!NextFile, Geo!Read, Geo!BlockRows, Geo!LocationRows
  <2>3. Passed(p)' <=> a < gfile + 1 \/ (a = gfile + 1 /\ i < 1)
    BY <2>1 DEF Passed
  <2>4. a \in DOMAIN archive
    BY RowParts DEF GeoInv, GeoTypeOK
  <2>5. Len(archive[a].rows) \in Nat
    BY <1>4, <2>4
  <2> HIDE DEF a, i
  <2>6. (a < gfile + 1 \/ (a = gfile + 1 /\ i < 1)) <=> a <= gfile
    BY <1>1, <1>2
  <2>7. (a < gfile \/ (a = gfile /\ i < grow)) <=> a <= gfile
    BY <1>1, <1>2, <2>2, <2>5
  <2> QED
    BY <1>3, <2>3, <2>6, <2>7 DEF Passed
<1>6. ASSUME Geo!EndOfArchive PROVE Passed(p)' = Passed(p)
  <2>1. gfile > Len(archive) /\ gpc' # "read"
    BY <1>6 DEF Geo!EndOfArchive
  <2>2. a < gfile
    BY <1>1, <1>2, <1>4, <2>1
  <2> QED
    BY <1>3, <2>1, <2>2 DEF Passed
<1>7. ASSUME gpc' = "read", gfile' = gfile, grow' = grow + 1
      PROVE  Passed(p)' <=> Passed(p) \/ p = <<gfile, grow>>
  <2>1. Passed(p)' <=> a < gfile \/ (a = gfile /\ i < grow + 1)
    BY <1>7 DEF Passed
  <2>2. p = <<gfile, grow>> <=> a = gfile /\ i = grow
    BY <1>1
  <2> HIDE DEF a, i
  <2> QED
    BY <1>1, <1>2, <1>3, <2>1, <2>2
<1> QED
  BY <1>5, <1>6, <1>7

\* All steps but Start stay in the archive.
LEMMA SameArchive ==
    ASSUME archive' = archive
    PROVE  /\ Geo!BlockRows' = Geo!BlockRows /\ Geo!LocationRows' = Geo!LocationRows
           /\ \A p : Geo!RowAt(p)' = Geo!RowAt(p)
           /\ \A p, q : Geo!Later(p, q)' = Geo!Later(p, q)
           /\ \A names : Geo!NameOf(names)' = Geo!NameOf(names)
BY DEF Geo!BlockRows, Geo!LocationRows, Geo!RowAt, Geo!Places, Geo!Later, Geo!NameOf,
       Geo!Given, Geo!Min

\* A block replaces the position of its location, and keeps the name.
LEMMA BlockCollected ==
    ASSUME ArchiveFormat, GeoInv, PositionsCollected, NamesCollected, Geo!ReadBlock
    PROVE  PositionsCollected' /\ NamesCollected'
<1> DEFINE here == <<gfile, grow>>
           x == Geo!Here
<1>1. /\ gpc = "read" /\ gpc' = "read" /\ archive' = archive /\ gfile' = gfile
      /\ grow' = grow + 1 /\ archive \in Archives
      /\ gfile <= Len(archive) /\ grow <= Len(archive[gfile].rows)
      /\ archive[gfile].kind = "Blocks-IPv4"
      /\ gfile \in Nat \ {0} /\ grow \in Nat \ {0}
  BY DEF Geo!ReadBlock, Geo!InFile, GeoInv, GeoTypeOK
<1>2. gfile \in DOMAIN archive /\ grow \in DOMAIN archive[gfile].rows
  BY <1>1 DEF ArchiveFormat
<1>3. here \in Geo!Places /\ Geo!RowAt(here) = x
  BY <1>2, PlaceParts DEF Geo!RowAt, Geo!Here
<1>4. /\ here \in Geo!BlockRows <=> ~(x.id = None \/ x.position = None)
      /\ here \notin Geo!LocationRows
  BY <1>1, <1>3 DEF Geo!BlockRows, Geo!LocationRows
<1>5. \A p \in Geo!BlockRows \cup Geo!LocationRows : Passed(p)' <=> Passed(p) \/ p = here
  BY <1>1, PassedSteps
<1>6. CASE here \notin Geo!BlockRows
  <2>1. locdata' = locdata
    BY <1>4, <1>6 DEF Geo!ReadBlock
  <2> QED
    BY <1>1, <1>4, <1>5, <1>6, <2>1, SameArchive DEF PositionsCollected, NamesCollected
<1>7. CASE here \in Geo!BlockRows
  <2>1. PICK v : /\ locdata' = Geo!Put(locdata, x.id, v)
                 /\ v.position = x.position
                 /\ x.id \in DOMAIN locdata => v.name = locdata[x.id].name
    <3> DEFINE old == IF x.id \in DOMAIN locdata THEN locdata[x.id].name ELSE ""
               country == IF x.country = None THEN 0 ELSE x.country
               row == [country |-> country, name |-> old, position |-> x.position]
    <3>1. locdata' = Geo!Put(locdata, x.id, row)
      BY <1>4, <1>7 DEF Geo!ReadBlock
    <3>2. /\ row.position = x.position
          /\ x.id \in DOMAIN locdata => row.name = locdata[x.id].name
      OBVIOUS
    <3> HIDE DEF row
    <3> QED
      BY <3>1, <3>2
  <2>2. /\ DOMAIN locdata' = DOMAIN locdata \cup {x.id}
        /\ locdata'[x.id] = v
        /\ \A id \in DOMAIN locdata : id # x.id => locdata'[id] = locdata[id]
    BY <2>1 DEF Geo!Put
  <2>3. ASSUME NEW p \in Geo!BlockRows, Passed(p)',
               \A q \in Geo!BlockRows :
                    Passed(q)' /\ Geo!RowAt(q).id = Geo!RowAt(p).id => ~Geo!Later(p, q)
        PROVE  /\ Geo!RowAt(p).id \in DOMAIN locdata'
               /\ locdata'[Geo!RowAt(p).id].position = Geo!RowAt(p).position
    <3>1. CASE p = here
      BY <1>3, <2>1, <2>2, <3>1
    <3>2. CASE p # here
      <4>1. Passed(p)
        BY <1>5, <2>3, <3>2
      <4>2. Geo!Later(p, here)
        BY <1>1, <4>1 DEF Passed, Geo!Later
      <4>3. Geo!RowAt(p).id # x.id
        BY <1>3, <1>5, <1>7, <2>3, <4>2
      <4>4. \A q \in Geo!BlockRows :
                Passed(q) /\ Geo!RowAt(q).id = Geo!RowAt(p).id => ~Geo!Later(p, q)
        BY <1>5, <2>3
      <4> QED
        BY <1>1, <2>2, <4>1, <4>3, <4>4 DEF PositionsCollected
    <3> QED
      BY <3>1, <3>2
  <2>4. ASSUME NEW p \in Geo!LocationRows, Passed(p)'
        PROVE  /\ Geo!RowAt(p).id \in DOMAIN locdata'
               /\ locdata'[Geo!RowAt(p).id].name = Geo!NameOf(Geo!RowAt(p).names)
    <3>1. Passed(p)
      BY <1>4, <1>5, <2>4
    <3> QED
      BY <1>1, <2>1, <2>2, <3>1 DEF NamesCollected
  <2> HIDE DEF here, x
  <2> QED
    BY <1>1, <2>3, <2>4, SameArchive DEF PositionsCollected, NamesCollected
<1> QED
  BY <1>6, <1>7

\* A location has the first of its names; it has had no block.
LEMMA LocationCollected ==
    ASSUME ArchiveFormat, LocationsFirst, LocationsOnce, GeoInv,
           PositionsCollected, NamesCollected, Geo!ReadLocation
    PROVE  PositionsCollected' /\ NamesCollected'
<1> DEFINE here == <<gfile, grow>>
           x == Geo!Here
<1>1. /\ gpc = "read" /\ gpc' = "read" /\ archive' = archive /\ gfile' = gfile
      /\ grow' = grow + 1 /\ archive \in Archives
      /\ gfile <= Len(archive) /\ grow <= Len(archive[gfile].rows)
      /\ archive[gfile].kind = "Locations-en"
      /\ gfile \in Nat \ {0} /\ grow \in Nat \ {0}
  BY DEF Geo!ReadLocation, Geo!InFile, GeoInv, GeoTypeOK
<1>2. gfile \in DOMAIN archive /\ grow \in DOMAIN archive[gfile].rows
  BY <1>1 DEF ArchiveFormat
<1>3. here \in Geo!LocationRows /\ Geo!RowAt(here) = x
  BY <1>1, <1>2, PlaceParts DEF Geo!RowAt, Geo!Here, Geo!LocationRows
<1>4. \A p \in Geo!BlockRows \cup Geo!LocationRows : Passed(p)' <=> Passed(p) \/ p = here
  BY <1>1, PassedSteps
<1>5. ASSUME NEW p \in Geo!BlockRows PROVE ~Passed(p)'
  <2>1. p[1] \in DOMAIN archive /\ archive[p[1]].kind = "Blocks-IPv4" /\ p[1] \in Nat
    BY <1>1, RowParts DEF Geo!BlockRows
  <2>2. gfile < p[1]
    BY <1>1, <1>2, <2>1 DEF LocationsFirst
  <2> QED
    BY <1>1, <2>1, <2>2 DEF Passed
<1>6. PositionsCollected'
  BY <1>1, <1>5, SameArchive DEF PositionsCollected
<1>7. PICK v : /\ locdata' = Geo!Put(locdata, x.id, v)
               /\ v.name = Geo!NameOf(x.names)
  BY DEF Geo!ReadLocation
<1>8. /\ DOMAIN locdata' = DOMAIN locdata \cup {x.id}
      /\ locdata'[x.id] = v
      /\ \A id \in DOMAIN locdata : id # x.id => locdata'[id] = locdata[id]
  BY <1>7 DEF Geo!Put
<1>9. ASSUME NEW p \in Geo!LocationRows, Passed(p)'
      PROVE  /\ Geo!RowAt(p).id \in DOMAIN locdata'
             /\ locdata'[Geo!RowAt(p).id].name = Geo!NameOf(Geo!RowAt(p).names)
  <2>1. CASE p = here
    BY <1>3, <1>7, <1>8, <2>1
  <2>2. CASE p # here
    <3>1. Passed(p)
      BY <1>4, <1>9, <2>2
    <3>2. /\ p = <<p[1], p[2]>> /\ p[1] \in DOMAIN archive
          /\ p[2] \in DOMAIN archive[p[1]].rows /\ archive[p[1]].kind = "Locations-en"
      BY <1>1, RowParts DEF Geo!LocationRows
    <3>3. Geo!RowAt(p).id # x.id
      BY <1>1, <1>2, <2>2, <3>2 DEF LocationsOnce, Geo!RowAt, Geo!Here
    <3> QED
      BY <1>1, <1>8, <3>1, <3>3 DEF NamesCollected
  <2> QED
    BY <2>1, <2>2
<1> HIDE DEF here, x
<1> QED
  BY <1>1, <1>6, <1>9, SameArchive DEF NamesCollected

\* The other steps leave what was collected, and what has been come past of rows.
LEMMA OthersCollected ==
    ASSUME ArchiveFormat, GeoInv, PositionsCollected, NamesCollected,
           [Geo!Next]_Geo!vars, ~Geo!ReadBlock, ~Geo!ReadLocation
    PROVE  PositionsCollected' /\ NamesCollected'
<1>1. CASE gpc' = "idle"
  BY <1>1 DEF PositionsCollected, NamesCollected
<1>2. CASE Geo!Start
  <2>1. gpc' = "read" /\ gfile' = 1 /\ grow' = 1 /\ archive' \in Archives
    BY <1>2 DEF Geo!Start
  <2>2. ASSUME NEW p \in Geo!BlockRows' \cup Geo!LocationRows' PROVE ~Passed(p)'
    <3>1. p \in Geo!Places'
      BY <2>2 DEF Geo!BlockRows, Geo!LocationRows
    <3>2. p[1] \in DOMAIN archive' /\ p[2] \in DOMAIN archive'[p[1]].rows
      BY <3>1, PlaceParts DEF Geo!Places
    <3>3. p[1] \in Nat \ {0} /\ p[2] \in Nat \ {0}
      BY <2>1, <3>2 DEF ArchiveFormat
    <3> QED
      BY <2>1, <3>3 DEF Passed
  <2> QED
    BY <2>2 DEF PositionsCollected, NamesCollected
<1>3. CASE Geo!NextFile \/ (Geo!EndOfArchive /\ gpc' # "idle")
  <2>1. gpc = "read" /\ archive' = archive /\ locdata' = locdata
    BY <1>3 DEF Geo!NextFile, Geo!EndOfArchive
  <2>2. \A p \in Geo!BlockRows \cup Geo!LocationRows : Passed(p)' = Passed(p)
    BY <1>3, <2>1, PassedSteps
  <2> QED
    BY <2>1, <2>2, SameArchive DEF PositionsCollected, NamesCollected
<1>4. CASE Geo!WriteRow \/ Geo!Commit \/ UNCHANGED Geo!vars
  <2>1. archive' = archive /\ locdata' = locdata
    BY <1>4 DEF Geo!WriteRow, Geo!Commit, Geo!vars
  <2>2. /\ gpc' # "idle" => gpc # "idle"
        /\ \A p : Passed(p)' = Passed(p)
    BY <1>4 DEF Geo!WriteRow, Geo!Commit, Geo!vars, Passed
  <2> QED
    BY <2>1, <2>2, SameArchive DEF PositionsCollected, NamesCollected
<1>5. CASE Geo!Exit \/ Geo!Fail
  BY <1>1, <1>5 DEF Geo!Exit, Geo!Fail
<1> QED
  BY <1>1, <1>2, <1>3, <1>4, <1>5 DEF Geo!Next

\* dsv-geo-update: a location of which a block gives the position has the position of the
\* last such block, and the narrowest of its names, after a run that ends well: for any
\* archive in which locations come first, and each of them once.
THEOREM LocationsTrue ==
    ArchiveFormat /\ LocationsFirst /\ LocationsOnce /\ Geo!Spec
        => [](Geo!PositionsKept /\ Geo!NarrowestName)
<1> SUFFICES ASSUME ArchiveFormat, LocationsFirst, LocationsOnce
             PROVE  Geo!Spec => [](Geo!PositionsKept /\ Geo!NarrowestName)
  OBVIOUS
<1> DEFINE Inv == GeoInv /\ PositionsCollected /\ NamesCollected
<1>1. Geo!Init => Inv
  BY InitGeoInv DEF Geo!Init, PositionsCollected, NamesCollected
<1>2. Inv /\ [Geo!Next]_Geo!vars => Inv'
  BY NextGeoInv, BlockCollected, LocationCollected, OthersCollected
<1>3. Inv => Geo!PositionsKept /\ Geo!NarrowestName
  <2> SUFFICES ASSUME Inv, gpc = "done" PROVE Geo!PositionsKept /\ Geo!NarrowestName
    BY DEF Geo!PositionsKept, Geo!NarrowestName
  <2>1. \A p : Passed(p)
    BY DEF Passed
  <2>2. \A id \in DOMAIN locdata : id \in DOMAIN geolocation /\ geolocation[id] = locdata[id]
    BY DEF GeoInv, WrittenSoFar
  <2>3. Geo!PositionsKept
    BY <2>1, <2>2 DEF Geo!PositionsKept, PositionsCollected
  <2>4. ASSUME NEW p \in Geo!LocationRows, NEW k \in Geo!Given(Geo!RowAt(p).names),
               \A j \in Geo!Given(Geo!RowAt(p).names) : k <= j
        PROVE  geolocation[Geo!RowAt(p).id].name = Geo!RowAt(p).names[k]
    <3> DEFINE given == Geo!Given(Geo!RowAt(p).names)
    <3>1. geolocation[Geo!RowAt(p).id].name = Geo!NameOf(Geo!RowAt(p).names)
      BY <2>1, <2>2 DEF NamesCollected
    <3>2. /\ p[1] \in DOMAIN archive /\ p[2] \in DOMAIN archive[p[1]].rows
          /\ archive[p[1]].kind = "Locations-en" /\ archive \in Archives
      BY RowParts DEF GeoInv, GeoTypeOK, Geo!LocationRows
    <3>3. given \subseteq Nat
      BY <3>2 DEF ArchiveFormat, Geo!Given, Geo!RowAt
    <3>4. Geo!Min(given) = k
      <4>1. \A x \in given : (\A j \in given : x <= j) => x = k
        BY <2>4, <3>3
      <4> QED
        BY <2>4, <4>1 DEF Geo!Min
    <3> QED
      BY <3>1, <3>4 DEF Geo!NameOf
  <2> QED
    BY <2>3, <2>4 DEF Geo!NarrowestName
<1> QED
  BY <1>1, <1>2, <1>3, PTL DEF Geo!Spec

-----------------------------------------------------------------------------
(* NodeList: types                                                         *)

\* A file has a row; csv.reader's rows are numbered.
FilesHaveRows == MaxRuns \in Nat /\ \A f \in Files : Len(f) \in Nat \ {0}

NodeSteps ==
    {"idle", "attributes", "servers", "write_server", "inactive", "mark", "nodes",
     "write_node", "commit"}

\* Each command has its place, its file and its changes.
CommandShape ==
    /\ pc \in [Commands -> NodeSteps]
    /\ DOMAIN file = Commands /\ file = [c \in Commands |-> file[c]]
    /\ DOMAIN at = Commands /\ at = [c \in Commands |-> at[c]]
    /\ DOMAIN pending = Commands /\ pending = [c \in Commands |-> pending[c]]
    /\ DOMAIN own = Commands
    /\ own = [c \in Commands |-> [servers |-> own[c].servers, nodes |-> own[c].nodes,
                                  attributes |-> own[c].attributes]]

NodeOK(n, ofServers, ofAttributes) ==
    /\ n = [name |-> n.name, alt |-> n.alt, server |-> n.server, details |-> n.details,
            inactive |-> n.inactive]
    /\ n.name # n.alt
    /\ n.server \in ofServers \cup {NoServer}
    /\ n.details \in ofAttributes
    /\ n.inactive \in BOOLEAN

TablesOK ==
    /\ \A s \in DOMAIN servers : ValidPair(servers[s])
    /\ \A n \in DOMAIN nodes : NodeOK(nodes[n], DOMAIN servers, attributes)

\* The attributes that a command sees.
AttributesSeen(c) == attributes \cup own[c].attributes

\* What a command is about to write.
PlaceOK(c) ==
    /\ pc[c] = "idle" =>
        own[c] = NoChanges /\ file[c] = <<>> /\ at[c] = 1
    /\ pc[c] # "idle" =>
        /\ file[c] \in Files /\ at[c] \in 1..Len(file[c])
        /\ \A i \in 1..Len(file[c]) : ValidPair(file[c][i].server) /\ ValidPair(file[c][i].node)
    /\ pc[c] = "mark" => pending[c] \subseteq DOMAIN NodesSeen(c)
    /\ pc[c] = "write_node" => \A p \in pending[c] : p[2] \in DOMAIN Servers(c) \cup {NoServer}

\* The attributes of the rows are there before the nodes.
RowsOK(c) ==
    /\ pc[c] = "attributes" =>
        \A i \in 1..(at[c] - 1) : file[c][i].details \in AttributesSeen(c)
    /\ pc[c] \notin {"idle", "attributes"} =>
        \A i \in 1..Len(file[c]) : file[c][i].details \in AttributesSeen(c)

OwnOK(c) ==
    /\ \A s \in DOMAIN own[c].servers : ValidPair(own[c].servers[s])
    /\ \A n \in DOMAIN own[c].nodes :
        NodeOK(own[c].nodes[n], DOMAIN Servers(c), AttributesSeen(c))

NodeTypes ==
    /\ CommandShape /\ TablesOK /\ runs \in 0..MaxRuns
    /\ \A c \in Commands : PlaceOK(c) /\ RowsOK(c) /\ OwnOK(c)

LEMMA InitNodeTypes == FilesHaveRows /\ Init => NodeTypes
<1> SUFFICES ASSUME FilesHaveRows, Init PROVE NodeTypes
  OBVIOUS
<1>1. DOMAIN servers = {} /\ DOMAIN nodes = {}
  BY DEF Init, Empty
<1>2. TablesOK
  BY <1>1 DEF TablesOK
<1>3. CommandShape
  BY DEF Init, CommandShape, NodeSteps, NoChanges
<1>4. \A c \in Commands : DOMAIN own[c].servers = {} /\ DOMAIN own[c].nodes = {}
  BY DEF Init, NoChanges, Empty
<1>5. \A c \in Commands : PlaceOK(c) /\ RowsOK(c) /\ OwnOK(c)
  BY <1>4 DEF Init, PlaceOK, RowsOK, OwnOK
<1> QED
  BY <1>2, <1>3, <1>5 DEF NodeTypes, Init, FilesHaveRows

\* What a command sees.
LEMMA SeenParts ==
    ASSUME NEW c \in Commands
    PROVE  /\ DOMAIN Servers(c) = DOMAIN own[c].servers \cup DOMAIN servers
           /\ DOMAIN NodesSeen(c) = DOMAIN own[c].nodes \cup DOMAIN nodes
           /\ \A s \in DOMAIN own[c].servers : Servers(c)[s] = own[c].servers[s]
           /\ \A s \in DOMAIN servers \ DOMAIN own[c].servers : Servers(c)[s] = servers[s]
           /\ \A n \in DOMAIN own[c].nodes : NodesSeen(c)[n] = own[c].nodes[n]
           /\ \A n \in DOMAIN nodes \ DOMAIN own[c].nodes : NodesSeen(c)[n] = nodes[n]
BY DEF Servers, NodesSeen, Over

\* All that it sees is as it should be.
LEMMA SeenOK ==
    ASSUME NodeTypes, NEW c \in Commands
    PROVE  /\ \A s \in DOMAIN Servers(c) : ValidPair(Servers(c)[s])
           /\ \A n \in DOMAIN NodesSeen(c) :
                NodeOK(NodesSeen(c)[n], DOMAIN Servers(c), AttributesSeen(c))
<1>1. \A s \in DOMAIN Servers(c) : ValidPair(Servers(c)[s])
  BY SeenParts DEF NodeTypes, TablesOK, OwnOK
<1>2. ASSUME NEW n \in DOMAIN NodesSeen(c)
      PROVE  NodeOK(NodesSeen(c)[n], DOMAIN Servers(c), AttributesSeen(c))
  <2>1. CASE n \in DOMAIN own[c].nodes
    BY <2>1, SeenParts DEF NodeTypes, OwnOK
  <2>2. CASE n \notin DOMAIN own[c].nodes
    <3>1. NodesSeen(c)[n] = nodes[n] /\ n \in DOMAIN nodes
      BY <2>2, <1>2, SeenParts
    <3>2. NodeOK(nodes[n], DOMAIN servers, attributes)
      BY <3>1 DEF NodeTypes, TablesOK
    <3>3. DOMAIN servers \subseteq DOMAIN Servers(c) /\ attributes \subseteq AttributesSeen(c)
      BY SeenParts DEF AttributesSeen
    <3> QED
      BY <3>1, <3>2, <3>3 DEF NodeOK
  <2> QED
    BY <2>1, <2>2
<1> QED
  BY <1>1, <1>2

\* A step of one command leaves the others where they are.
OthersStay(c) ==
    \A d \in Commands \ {c} :
        /\ pc'[d] = pc[d] /\ file'[d] = file[d] /\ at'[d] = at[d]
        /\ pending'[d] = pending[d] /\ own'[d] = own[d]

Step(c) ==
    \/ Start(c) \/ Fail(c)
    \/ AddAttribute(c) \/ FindServerOfRow(c) \/ WriteServer(c)
    \/ SeeNodes(c) \/ MarkInactive(c)
    \/ FindNodeOfRow(c) \/ WriteNode(c) \/ Commit(c)

\* What becomes of the changes of the transaction: those of one table, or none of them.
Changes(c) ==
    \/ own' = own
    \/ own' = [own EXCEPT ![c] = NoChanges]
    \/ \E s : own' = [own EXCEPT ![c].servers = s]
    \/ \E n : own' = [own EXCEPT ![c].nodes = n]
    \/ \E a : own' = [own EXCEPT ![c].attributes = a]

LEMMA StepParts ==
    ASSUME NEW c \in Commands, Step(c)
    PROVE  /\ pc' = pc \/ \E step \in NodeSteps : pc' = [pc EXCEPT ![c] = step]
           /\ file' = file \/ \E f : file' = [file EXCEPT ![c] = f]
           /\ at' = at \/ \E i : at' = [at EXCEPT ![c] = i]
           /\ pending' = pending \/ \E p : pending' = [pending EXCEPT ![c] = p]
           /\ Changes(c)
<1>1. ASSUME Stop(c)
      PROVE  /\ \E step \in NodeSteps : pc' = [pc EXCEPT ![c] = step]
             /\ \E f : file' = [file EXCEPT ![c] = f]
             /\ \E i : at' = [at EXCEPT ![c] = i]
             /\ \E p : pending' = [pending EXCEPT ![c] = p]
             /\ Changes(c)
  BY <1>1 DEF Stop, Changes, NodeSteps
<1>2. ASSUME NEW step \in NodeSteps, NEW next \in NodeSteps, NextRow(c, step, next)
      PROVE  /\ \E s \in NodeSteps : pc' = [pc EXCEPT ![c] = s]
             /\ \E i : at' = [at EXCEPT ![c] = i]
  BY <1>2 DEF NextRow
<1>3. CASE Start(c)
  BY <1>3 DEF Start, NodeSteps, Changes
<1>4. CASE Fail(c)
  BY <1>1, <1>4 DEF Fail
<1>5. CASE AddAttribute(c)
  <2>1. NextRow(c, "attributes", "servers") /\ file' = file /\ pending' = pending
    BY <1>5 DEF AddAttribute
  <2>2. \E a : own' = [own EXCEPT ![c].attributes = a]
    BY <1>5 DEF AddAttribute
  <2> QED
    BY <1>2, <2>1, <2>2 DEF NodeSteps, Changes
<1>6. CASE FindServerOfRow(c)
  <2>1. CASE Stop(c)
    BY <1>1, <2>1
  <2>2. CASE ~Stop(c)
    BY <1>6, <2>2 DEF FindServerOfRow, Changes, NodeSteps
  <2> QED
    BY <2>1, <2>2
<1>7. CASE WriteServer(c)
  <2>1. CASE Stop(c)
    BY <1>1, <2>1
  <2>2. CASE ~Stop(c)
    <3>1. /\ NextRow(c, "servers", "inactive") /\ file' = file
          /\ pending' = [pending EXCEPT ![c] = {}]
          /\ \E s : own' = [own EXCEPT ![c].servers = s]
      BY <1>7, <2>2 DEF WriteServer
    <3> QED
      BY <1>2, <3>1 DEF NodeSteps, Changes
  <2> QED
    BY <2>1, <2>2
<1>8. CASE SeeNodes(c)
  BY <1>8 DEF SeeNodes, Changes, NodeSteps
<1>9. CASE MarkInactive(c)
  <2>1. \E n : own' = [own EXCEPT ![c].nodes = n]
    BY <1>9 DEF MarkInactive
  <2> QED
    BY <1>9, <2>1 DEF MarkInactive, Changes, NodeSteps
<1>10. CASE FindNodeOfRow(c)
  <2>1. CASE Stop(c)
    BY <1>1, <2>1
  <2>2. CASE ~Stop(c)
    <3>1. /\ pc' = [pc EXCEPT ![c] = "write_node"] /\ file' = file /\ at' = at /\ own' = own
          /\ \E p : pending' = [pending EXCEPT ![c] = p]
      BY <1>10, <2>2 DEF FindNodeOfRow
    <3> QED
      BY <3>1 DEF Changes, NodeSteps
  <2> QED
    BY <2>1, <2>2
<1>11. CASE WriteNode(c)
  <2>1. CASE Stop(c)
    BY <1>1, <2>1
  <2>2. CASE ~Stop(c)
    <3>1. /\ NextRow(c, "nodes", "commit") /\ file' = file
          /\ pending' = [pending EXCEPT ![c] = {}]
          /\ \E n : own' = [own EXCEPT ![c].nodes = n]
      BY <1>11, <2>2 DEF WriteNode
    <3> QED
      BY <1>2, <3>1 DEF NodeSteps, Changes
  <2> QED
    BY <2>1, <2>2
<1>12. CASE Commit(c)
  BY <1>1, <1>12 DEF Commit
<1> QED
  BY <1>3, <1>4, <1>5, <1>6, <1>7, <1>8, <1>9, <1>10, <1>11, <1>12 DEF Step

LEMMA StepShape ==
    ASSUME CommandShape, NEW c \in Commands, Step(c)
    PROVE  CommandShape' /\ OthersStay(c)
<1>1. /\ pc' \in [Commands -> NodeSteps]
      /\ DOMAIN file' = Commands /\ file' = [d \in Commands |-> file'[d]]
      /\ DOMAIN at' = Commands /\ at' = [d \in Commands |-> at'[d]]
      /\ DOMAIN pending' = Commands /\ pending' = [d \in Commands |-> pending'[d]]
      /\ \A d \in Commands \ {c} :
            pc'[d] = pc[d] /\ file'[d] = file[d] /\ at'[d] = at[d] /\ pending'[d] = pending[d]
  BY StepParts DEF CommandShape
<1>2. /\ DOMAIN own' = Commands
      /\ own' = [d \in Commands |-> [servers |-> own'[d].servers, nodes |-> own'[d].nodes,
                                     attributes |-> own'[d].attributes]]
      /\ \A d \in Commands \ {c} : own'[d] = own[d]
  <2> DEFINE Whole(o) == [servers |-> o.servers, nodes |-> o.nodes, attributes |-> o.attributes]
  <2>1. DOMAIN own = Commands /\ own = [d \in Commands |-> Whole(own[d])]
    BY DEF CommandShape
  <2>2. \A d \in Commands : own[d] = Whole(own[d])
    BY <2>1
  <2>3. ASSUME NEW o, o = Whole(o), own' = [own EXCEPT ![c] = o]
        PROVE  /\ DOMAIN own' = Commands
               /\ \A d \in Commands : own'[d] = Whole(own'[d])
               /\ own' = [d \in Commands |-> own'[d]]
               /\ \A d \in Commands \ {c} : own'[d] = own[d]
    <3> HIDE DEF Whole
    <3> QED
      BY <2>1, <2>2, <2>3
  <2>4. \E o : o = Whole(o) /\ own' = [own EXCEPT ![c] = o]
    <3>1. CASE own' = own
      BY <2>1, <2>2, <3>1
    <3>2. CASE own' = [own EXCEPT ![c] = NoChanges]
      BY <3>2 DEF NoChanges
    <3>3. ASSUME NEW v, \/ own' = [own EXCEPT ![c].servers = v]
                        \/ own' = [own EXCEPT ![c].nodes = v]
                        \/ own' = [own EXCEPT ![c].attributes = v]
          PROVE  \E o : o = Whole(o) /\ own' = [own EXCEPT ![c] = o]
      <4>1. own[c] = Whole(own[c])
        BY <2>2
      <4>2. \/ own' = [own EXCEPT ![c] = [own[c] EXCEPT !.servers = v]]
            \/ own' = [own EXCEPT ![c] = [own[c] EXCEPT !.nodes = v]]
            \/ own' = [own EXCEPT ![c] = [own[c] EXCEPT !.attributes = v]]
        BY <3>3
      <4> QED
        BY <4>1, <4>2
    <3> QED
      BY <3>1, <3>2, <3>3, StepParts DEF Changes
  <2> QED
    BY <2>3, <2>4
<1> QED
  BY <1>1, <1>2 DEF CommandShape, OthersStay

\* Rows and attributes only become more.
TablesGrow ==
    /\ DOMAIN servers \subseteq DOMAIN servers' /\ DOMAIN nodes \subseteq DOMAIN nodes'
    /\ attributes \subseteq attributes'

LEMMA OthersKeepTypes ==
    ASSUME NodeTypes, NEW c \in Commands, OthersStay(c), TablesGrow, NEW d \in Commands \ {c}
    PROVE  PlaceOK(d)' /\ RowsOK(d)' /\ OwnOK(d)'
<1>1. /\ pc'[d] = pc[d] /\ file'[d] = file[d] /\ at'[d] = at[d]
      /\ pending'[d] = pending[d] /\ own'[d] = own[d]
  BY DEF OthersStay
<1>2. /\ DOMAIN Servers(d) \subseteq DOMAIN Servers(d)'
      /\ DOMAIN NodesSeen(d) \subseteq DOMAIN NodesSeen(d)'
      /\ AttributesSeen(d) \subseteq AttributesSeen(d)'
  BY <1>1 DEF TablesGrow, Servers, NodesSeen, Over, AttributesSeen
<1>3. PlaceOK(d) /\ RowsOK(d) /\ OwnOK(d)
  BY DEF NodeTypes
<1>4. PlaceOK(d)'
  BY <1>1, <1>2, <1>3 DEF PlaceOK
<1>5. RowsOK(d)'
  BY <1>1, <1>2, <1>3 DEF RowsOK
<1>6. OwnOK(d)'
  <2>1. ASSUME NEW n \in DOMAIN own[d].nodes
        PROVE  NodeOK(own[d].nodes[n], DOMAIN Servers(d)', AttributesSeen(d)')
    BY <1>2, <1>3, <2>1 DEF OwnOK, NodeOK
  <2> QED
    BY <1>1, <1>3, <2>1 DEF OwnOK, NodeOK, ValidPair
<1> QED
  BY <1>4, <1>5, <1>6

\* A command that has ended has nothing of its own.
LEMMA StopKeepsTypes ==
    ASSUME CommandShape, NEW c \in Commands, Stop(c)
    PROVE  PlaceOK(c)' /\ RowsOK(c)' /\ OwnOK(c)'
<1>1. pc'[c] = "idle" /\ own'[c] = NoChanges /\ file'[c] = <<>> /\ at'[c] = 1
  BY DEF Stop, CommandShape
<1>2. DOMAIN own'[c].servers = {} /\ DOMAIN own'[c].nodes = {}
  BY <1>1 DEF NoChanges, Empty
<1> QED
  BY <1>1, <1>2 DEF PlaceOK, RowsOK, OwnOK

\* Where the loop goes.
LEMMA NextRowParts ==
    ASSUME CommandShape, NEW c \in Commands, at[c] \in 1..Len(file[c]), Len(file[c]) \in Nat,
           NEW step \in NodeSteps, NEW next \in NodeSteps, NextRow(c, step, next)
    PROVE  /\ at'[c] \in 1..Len(file[c])
           /\ pc'[c] \in {step, next}
           /\ at[c] < Len(file[c]) => pc'[c] = step /\ at'[c] = at[c] + 1
           /\ at[c] >= Len(file[c]) => pc'[c] = next /\ at'[c] = 1 /\ at[c] = Len(file[c])
BY DEF NextRow, CommandShape

\* The steps of a command keep the types of what it is about to do.
LEMMA StartKeepsTypes ==
    ASSUME FilesHaveRows, NodeTypes, NEW c \in Commands, Start(c)
    PROVE  PlaceOK(c)' /\ RowsOK(c)' /\ OwnOK(c)'
<1>1. PICK f \in Files :
        /\ \A i \in 1..Len(f) : ValidPair(f[i].server) /\ ValidPair(f[i].node)
        /\ file' = [file EXCEPT ![c] = f]
  BY DEF Start
<1>2. /\ pc[c] = "idle" /\ pc'[c] = "attributes" /\ file'[c] = f
      /\ UNCHANGED <<tables, at, pending, own>>
  BY <1>1 DEF Start, NodeTypes, CommandShape
<1>3. own[c] = NoChanges /\ at[c] = 1
  BY <1>2 DEF NodeTypes, PlaceOK
<1>4. DOMAIN own[c].servers = {} /\ DOMAIN own[c].nodes = {}
  BY <1>3 DEF NoChanges, Empty
<1>5. Len(f) \in Nat \ {0}
  BY DEF FilesHaveRows
<1>6. PlaceOK(c)'
  BY <1>1, <1>2, <1>3, <1>5 DEF PlaceOK, ValidPair
<1>7. RowsOK(c)' /\ OwnOK(c)'
  BY <1>2, <1>3, <1>4 DEF RowsOK, OwnOK
<1> QED
  BY <1>6, <1>7

LEMMA AttributeKeepsTypes ==
    ASSUME FilesHaveRows, NodeTypes, NEW c \in Commands, AddAttribute(c)
    PROVE  PlaceOK(c)' /\ RowsOK(c)' /\ OwnOK(c)'
<1>1. /\ pc[c] = "attributes" /\ NextRow(c, "attributes", "servers")
      /\ UNCHANGED <<tables, file, pending>>
      /\ own' = [own EXCEPT ![c].attributes = @ \cup ({Row(c).details} \ attributes)]
  BY DEF AddAttribute
<1>2. /\ own'[c].servers = own[c].servers /\ own'[c].nodes = own[c].nodes
      /\ own'[c].attributes = own[c].attributes \cup ({Row(c).details} \ attributes)
  BY <1>1 DEF NodeTypes, CommandShape
<1>3. /\ PlaceOK(c) /\ RowsOK(c) /\ OwnOK(c) /\ CommandShape
      /\ file[c] \in Files /\ at[c] \in 1..Len(file[c]) /\ Len(file[c]) \in Nat
  BY <1>1 DEF NodeTypes, PlaceOK, FilesHaveRows
<1>4. /\ Servers(c)' = Servers(c) /\ NodesSeen(c)' = NodesSeen(c)
      /\ AttributesSeen(c)' = AttributesSeen(c) \cup {Row(c).details}
  BY <1>1, <1>2 DEF Servers, NodesSeen, AttributesSeen, tables
<1>5. /\ at'[c] \in 1..Len(file[c]) /\ pc'[c] \in {"attributes", "servers"}
      /\ at[c] < Len(file[c]) => pc'[c] = "attributes" /\ at'[c] = at[c] + 1
      /\ at[c] >= Len(file[c]) => pc'[c] = "servers" /\ at[c] = Len(file[c])
  BY <1>1, <1>3, NextRowParts DEF NodeSteps
<1>6. PlaceOK(c)'
  BY <1>1, <1>3, <1>5 DEF PlaceOK, ValidPair
<1>7. \A i \in 1..at[c] : file[c][i].details \in AttributesSeen(c)'
  <2>1. \A i \in 1..(at[c] - 1) : file[c][i].details \in AttributesSeen(c)
    BY <1>1, <1>3 DEF RowsOK
  <2> QED
    BY <1>3, <1>4, <2>1 DEF Row
<1>8. RowsOK(c)'
  BY <1>1, <1>3, <1>5, <1>7 DEF RowsOK
<1>9. OwnOK(c)'
  BY <1>2, <1>3, <1>4 DEF OwnOK, NodeOK, ValidPair
<1> QED
  BY <1>6, <1>8, <1>9

\* Steps that only look.
LEMMA LookKeepsTypes ==
    ASSUME FilesHaveRows, NodeTypes, NEW c \in Commands,
           FindServerOfRow(c) \/ SeeNodes(c) \/ FindNodeOfRow(c), ~Stop(c)
    PROVE  PlaceOK(c)' /\ RowsOK(c)' /\ OwnOK(c)'
<1>1. PlaceOK(c) /\ RowsOK(c) /\ OwnOK(c) /\ CommandShape
  BY DEF NodeTypes
<1>2. /\ UNCHANGED <<tables, file, at, own>>
      /\ pc[c] \in {"servers", "inactive", "nodes"}
      /\ pc'[c] \in {"write_server", "mark", "write_node"}
  BY <1>1 DEF FindServerOfRow, SeeNodes, FindNodeOfRow, CommandShape
<1>3. Servers(c)' = Servers(c) /\ NodesSeen(c)' = NodesSeen(c)
      /\ AttributesSeen(c)' = AttributesSeen(c)
  BY <1>2 DEF Servers, NodesSeen, AttributesSeen, tables
<1>4. RowsOK(c)' /\ OwnOK(c)'
  BY <1>1, <1>2, <1>3 DEF RowsOK, OwnOK, NodeOK, ValidPair
<1>5. pc'[c] = "mark" => pending'[c] \subseteq DOMAIN NodesSeen(c)
  BY <1>1 DEF FindServerOfRow, SeeNodes, FindNodeOfRow, CommandShape
<1>6. ASSUME pc'[c] = "write_node", NEW p \in pending'[c]
      PROVE  p[2] \in DOMAIN Servers(c) \cup {NoServer}
  <2>1. FindNodeOfRow(c)
    BY <1>1, <1>6 DEF FindServerOfRow, SeeNodes, CommandShape
  <2>2. PICK server \in (IF FindServer(c, Row(c).server) = {} THEN {NoServer}
                         ELSE FindServer(c, Row(c).server)) :
            \E id : pending' = [pending EXCEPT ![c] = {<<id, server>>}]
    BY <2>1 DEF FindNodeOfRow
  <2>3. p[2] = server
    BY <1>1, <1>6, <2>2 DEF CommandShape
  <2> QED
    BY <2>2, <2>3 DEF FindServer, Find
<1>7. PlaceOK(c)'
  BY <1>1, <1>2, <1>3, <1>5, <1>6 DEF PlaceOK, ValidPair
<1> QED
  BY <1>4, <1>7

LEMMA WriteServerKeepsTypes ==
    ASSUME FilesHaveRows, NodeTypes, NEW c \in Commands, WriteServer(c), ~Stop(c)
    PROVE  PlaceOK(c)' /\ RowsOK(c)' /\ OwnOK(c)'
<1>1. PICK id :
        /\ pc[c] = "write_server" /\ UNCHANGED <<tables, file>>
        /\ own' = [own EXCEPT ![c].servers = Put(@, id, Row(c).server)]
        /\ NextRow(c, "servers", "inactive")
  BY DEF WriteServer
<1>2. /\ own'[c].servers = Put(own[c].servers, id, Row(c).server)
      /\ own'[c].nodes = own[c].nodes /\ own'[c].attributes = own[c].attributes
  BY <1>1 DEF NodeTypes, CommandShape
<1>3. /\ PlaceOK(c) /\ RowsOK(c) /\ OwnOK(c) /\ CommandShape
      /\ file[c] \in Files /\ at[c] \in 1..Len(file[c]) /\ Len(file[c]) \in Nat
  BY <1>1 DEF NodeTypes, PlaceOK, FilesHaveRows
<1>4. /\ DOMAIN Servers(c)' = DOMAIN Servers(c) \cup {id} /\ NodesSeen(c)' = NodesSeen(c)
      /\ AttributesSeen(c)' = AttributesSeen(c)
  <2>1. DOMAIN own'[c].servers = DOMAIN own[c].servers \cup {id}
    BY <1>2 DEF Put
  <2>2. UNCHANGED <<servers, nodes, attributes>>
    BY <1>1 DEF tables
  <2>3. DOMAIN Servers(c)' = DOMAIN own'[c].servers \cup DOMAIN servers
    BY <2>2 DEF Servers, Over
  <2>4. NodesSeen(c)' = NodesSeen(c) /\ AttributesSeen(c)' = AttributesSeen(c)
    BY <1>2, <2>2 DEF NodesSeen, AttributesSeen
  <2> QED
    BY <2>1, <2>3, <2>4, SeenParts
<1>5. at'[c] \in 1..Len(file[c]) /\ pc'[c] \in {"servers", "inactive"}
  BY <1>1, <1>3, NextRowParts DEF NodeSteps
<1>6. PlaceOK(c)' /\ RowsOK(c)'
  BY <1>1, <1>3, <1>4, <1>5 DEF PlaceOK, RowsOK, ValidPair
<1>7. ValidPair(Row(c).server)
  BY <1>1, <1>3 DEF PlaceOK, Row
<1>8. ASSUME NEW s \in DOMAIN own'[c].servers PROVE ValidPair(own'[c].servers[s])
  <2>1. CASE s = id
    BY <1>2, <1>7, <2>1 DEF Put
  <2>2. CASE s # id
    BY <1>2, <1>3, <1>8, <2>2 DEF OwnOK, Put
  <2> QED
    BY <2>1, <2>2
<1>9. ASSUME NEW n \in DOMAIN own'[c].nodes
      PROVE  NodeOK(own'[c].nodes[n], DOMAIN Servers(c)', AttributesSeen(c)')
  <2>1. NodeOK(own[c].nodes[n], DOMAIN Servers(c), AttributesSeen(c))
    BY <1>2, <1>3, <1>9 DEF OwnOK
  <2> QED
    BY <1>2, <1>4, <2>1 DEF NodeOK
<1>10. OwnOK(c)'
  BY <1>8, <1>9 DEF OwnOK, ValidPair, NodeOK
<1> QED
  BY <1>6, <1>10

\* A node that is flagged as inactive stays what it is.
LEMMA InactiveParts ==
    ASSUME NEW n, NEW ofServers, NEW ofAttributes, NodeOK(n, ofServers, ofAttributes),
           NEW m, m = [n EXCEPT !.inactive = TRUE]
    PROVE  /\ NodeOK(m, ofServers, ofAttributes)
           /\ m.name = n.name /\ m.alt = n.alt /\ m.server = n.server
           /\ m.details = n.details /\ m.inactive = TRUE
<1>1. n = [name |-> n.name, alt |-> n.alt, server |-> n.server, details |-> n.details,
           inactive |-> n.inactive]
  BY DEF NodeOK
<1>2. m = [name |-> n.name, alt |-> n.alt, server |-> n.server, details |-> n.details,
           inactive |-> TRUE]
  BY <1>1
<1>3. /\ m.name = n.name /\ m.alt = n.alt /\ m.server = n.server
      /\ m.details = n.details /\ m.inactive = TRUE
  BY <1>2
<1> QED
  BY <1>2, <1>3 DEF NodeOK

LEMMA MarkKeepsTypes ==
    ASSUME FilesHaveRows, NodeTypes, NEW c \in Commands, MarkInactive(c)
    PROVE  PlaceOK(c)' /\ RowsOK(c)' /\ OwnOK(c)'
<1> DEFINE marked == [id \in pending[c] |-> [NodesSeen(c)[id] EXCEPT !.inactive = TRUE]]
<1>1. /\ pc[c] = "mark" /\ pc'[c] = "nodes" /\ UNCHANGED <<tables, file, at>>
      /\ own'[c].nodes = Over(marked, own[c].nodes)
      /\ own'[c].servers = own[c].servers /\ own'[c].attributes = own[c].attributes
  BY DEF MarkInactive, NodeTypes, CommandShape
<1>2. /\ PlaceOK(c) /\ RowsOK(c) /\ OwnOK(c) /\ pending[c] \subseteq DOMAIN NodesSeen(c)
  BY <1>1 DEF NodeTypes, PlaceOK
<1>3. /\ Servers(c)' = Servers(c) /\ AttributesSeen(c)' = AttributesSeen(c)
  BY <1>1 DEF Servers, AttributesSeen, tables
<1>4. PlaceOK(c)' /\ RowsOK(c)'
  BY <1>1, <1>2, <1>3 DEF PlaceOK, RowsOK, ValidPair
<1>5. ASSUME NEW n \in DOMAIN own'[c].nodes
      PROVE  NodeOK(own'[c].nodes[n], DOMAIN Servers(c), AttributesSeen(c))
  <2>1. CASE n \in pending[c]
    <3>1. own'[c].nodes[n] = [NodesSeen(c)[n] EXCEPT !.inactive = TRUE]
      BY <1>1, <2>1 DEF Over
    <3>2. NodeOK(NodesSeen(c)[n], DOMAIN Servers(c), AttributesSeen(c))
      BY <1>2, <2>1, SeenOK
    <3> QED
      BY <3>1, <3>2, InactiveParts
  <2>2. CASE n \notin pending[c]
    <3>1. n \in DOMAIN own[c].nodes /\ own'[c].nodes[n] = own[c].nodes[n]
      BY <1>1, <1>5, <2>2 DEF Over
    <3> QED
      BY <1>2, <3>1 DEF OwnOK
  <2> QED
    BY <2>1, <2>2
<1> HIDE DEF marked
<1>6. OwnOK(c)'
  BY <1>1, <1>2, <1>3, <1>5 DEF OwnOK, NodeOK, ValidPair
<1> QED
  BY <1>4, <1>6

LEMMA WriteNodeKeepsTypes ==
    ASSUME FilesHaveRows, NodeTypes, NEW c \in Commands, WriteNode(c), ~Stop(c)
    PROVE  PlaceOK(c)' /\ RowsOK(c)' /\ OwnOK(c)'
<1>0. PICK p \in pending[c] : \E id :
        /\ pc[c] = "write_node" /\ UNCHANGED <<tables, file>>
        /\ own' = [own EXCEPT ![c].nodes = Put(@, id, NodeOf(Row(c), p[2]))]
        /\ NextRow(c, "nodes", "commit")
  BY DEF WriteNode
<1>1. PICK id :
        /\ pc[c] = "write_node" /\ UNCHANGED <<tables, file>>
        /\ own' = [own EXCEPT ![c].nodes = Put(@, id, NodeOf(Row(c), p[2]))]
        /\ NextRow(c, "nodes", "commit")
  BY <1>0
<1> DEFINE n == NodeOf(Row(c), p[2])
<1>2. /\ own'[c].nodes = Put(own[c].nodes, id, n)
      /\ own'[c].servers = own[c].servers /\ own'[c].attributes = own[c].attributes
  BY <1>1 DEF NodeTypes, CommandShape
<1>3. /\ PlaceOK(c) /\ RowsOK(c) /\ OwnOK(c) /\ CommandShape
      /\ file[c] \in Files /\ at[c] \in 1..Len(file[c]) /\ Len(file[c]) \in Nat
  BY <1>1 DEF NodeTypes, PlaceOK, FilesHaveRows
<1>4. Servers(c)' = Servers(c) /\ AttributesSeen(c)' = AttributesSeen(c)
  BY <1>1, <1>2 DEF Servers, AttributesSeen, tables
<1>5. at'[c] \in 1..Len(file[c]) /\ pc'[c] \in {"nodes", "commit"}
  BY <1>1, <1>3, NextRowParts DEF NodeSteps
<1>6. PlaceOK(c)' /\ RowsOK(c)'
  BY <1>1, <1>3, <1>4, <1>5 DEF PlaceOK, RowsOK, ValidPair
<1>7. NodeOK(n, DOMAIN Servers(c), AttributesSeen(c))
  <2>1. ValidPair(Row(c).node) /\ Row(c).details \in AttributesSeen(c)
    BY <1>1, <1>3 DEF PlaceOK, RowsOK, Row
  <2>2. p[2] \in DOMAIN Servers(c) \cup {NoServer}
    BY <1>1, <1>3 DEF PlaceOK
  <2> QED
    BY <2>1, <2>2 DEF NodeOK, NodeOf, ValidPair
<1> HIDE DEF n
<1>8. ASSUME NEW m \in DOMAIN own'[c].nodes
      PROVE  NodeOK(own'[c].nodes[m], DOMAIN Servers(c), AttributesSeen(c))
  <2>1. CASE m = id
    BY <1>2, <1>7, <2>1 DEF Put
  <2>2. CASE m # id
    BY <1>2, <1>3, <1>8, <2>2 DEF OwnOK, Put
  <2> QED
    BY <2>1, <2>2
<1>9. OwnOK(c)'
  BY <1>2, <1>3, <1>4, <1>8 DEF OwnOK, NodeOK, ValidPair
<1> QED
  BY <1>6, <1>9

\* A step of one command keeps all types.
LEMMA StepKeepsTypes ==
    ASSUME FilesHaveRows, NodeTypes, NEW c \in Commands, Step(c)
    PROVE  NodeTypes'
<1>1. CommandShape' /\ OthersStay(c)
  BY StepShape DEF NodeTypes
<1>2. CASE Commit(c)
  <2>1. /\ servers' = Servers(c) /\ nodes' = NodesSeen(c) /\ attributes' = AttributesSeen(c)
        /\ runs' = runs /\ Stop(c)
    BY <1>2 DEF Commit, AttributesSeen
  <2>2. TablesOK'
    BY <2>1, SeenOK DEF TablesOK, ValidPair, NodeOK
  <2>3. TablesGrow
    BY <2>1, SeenParts DEF TablesGrow, AttributesSeen
  <2>4. PlaceOK(c)' /\ RowsOK(c)' /\ OwnOK(c)'
    BY <2>1, StopKeepsTypes DEF NodeTypes
  <2> QED
    BY <1>1, <2>1, <2>2, <2>3, <2>4, OthersKeepTypes DEF NodeTypes
<1>3. CASE ~Commit(c)
  <2>1. UNCHANGED tables
    BY <1>3 DEF Step, Start, Fail, AddAttribute, FindServerOfRow, WriteServer, SeeNodes,
                MarkInactive, FindNodeOfRow, WriteNode
  <2>2. TablesGrow
    BY <2>1 DEF TablesGrow, tables
  <2>3. TablesOK'
    BY <2>1 DEF NodeTypes, TablesOK, tables, ValidPair, NodeOK
  <2>4. runs' \in 0..MaxRuns
    BY <1>3 DEF Step, Start, Fail, AddAttribute, FindServerOfRow, WriteServer, SeeNodes,
                MarkInactive, FindNodeOfRow, WriteNode, NodeTypes, FilesHaveRows
  <2>5. PlaceOK(c)' /\ RowsOK(c)' /\ OwnOK(c)'
    <3>1. CASE Stop(c)
      BY <3>1, StopKeepsTypes DEF NodeTypes
    <3>2. CASE ~Stop(c)
      BY <1>3, <3>2, StartKeepsTypes, AttributeKeepsTypes, LookKeepsTypes,
         WriteServerKeepsTypes, MarkKeepsTypes, WriteNodeKeepsTypes DEF Step, Fail
    <3> QED
      BY <3>1, <3>2
  <2> QED
    BY <1>1, <2>2, <2>3, <2>4, <2>5, OthersKeepTypes DEF NodeTypes
<1> QED
  BY <1>2, <1>3

LEMMA NextNodeTypes == FilesHaveRows /\ NodeTypes /\ [Next]_vars => NodeTypes'
<1> SUFFICES ASSUME FilesHaveRows, NodeTypes, [Next]_vars PROVE NodeTypes'
  OBVIOUS
<1>1. CASE UNCHANGED vars
  <2>1. UNCHANGED <<servers, nodes, attributes, runs, pc, file, at, pending, own>>
    BY <1>1 DEF vars, tables
  <2>2. \A c \in Commands : (PlaceOK(c) /\ RowsOK(c) /\ OwnOK(c))'
    <3> SUFFICES ASSUME NEW c \in Commands PROVE (PlaceOK(c) /\ RowsOK(c) /\ OwnOK(c))'
      OBVIOUS
    <3>1. PlaceOK(c) /\ RowsOK(c) /\ OwnOK(c)
      BY DEF NodeTypes
    <3>2. /\ Servers(c)' = Servers(c) /\ NodesSeen(c)' = NodesSeen(c)
          /\ AttributesSeen(c)' = AttributesSeen(c)
      BY <2>1 DEF Servers, NodesSeen, AttributesSeen
    <3> QED
      BY <2>1, <3>1, <3>2 DEF PlaceOK, RowsOK, OwnOK, NodeOK, ValidPair
  <2>3. CommandShape' /\ TablesOK' /\ runs' \in 0..MaxRuns
    BY <2>1 DEF NodeTypes, CommandShape, TablesOK, NodeOK, ValidPair
  <2> QED
    BY <2>2, <2>3 DEF NodeTypes
<1>2. CASE Next
  BY <1>2, StepKeepsTypes DEF Next, Step
<1> QED
  BY <1>1, <1>2

\* dsv-nodes-update, any number of them at once and any files: every variable has its type,
\* and a node has a server that is there, or none, and attributes that are there, although
\* each command commits what it has found before others did.
THEOREM NodeListTypes == FilesHaveRows /\ Spec => []TypeOK
<1> SUFFICES ASSUME FilesHaveRows PROVE Spec => []TypeOK
  OBVIOUS
<1>1. Init => NodeTypes
  BY InitNodeTypes
<1>2. NodeTypes /\ [Next]_vars => NodeTypes'
  BY NextNodeTypes
<1>3. NodeTypes => TypeOK
  <2> SUFFICES ASSUME NodeTypes PROVE TypeOK
    OBVIOUS
  <2>1. \A c \in Commands : /\ file[c] \in Files \cup {<<>>}
                            /\ at[c] \in 1..(IF file[c] = <<>> THEN 1 ELSE Len(file[c]))
                            /\ pc[c] = "idle" => own[c] = NoChanges
    <3> SUFFICES ASSUME NEW c \in Commands
                 PROVE  /\ file[c] \in Files \cup {<<>>}
                        /\ at[c] \in 1..(IF file[c] = <<>> THEN 1 ELSE Len(file[c]))
                        /\ pc[c] = "idle" => own[c] = NoChanges
      OBVIOUS
    <3>1. PlaceOK(c)
      BY DEF NodeTypes
    <3>2. <<>> \notin Files
      BY DEF FilesHaveRows
    <3> QED
      BY <3>1, <3>2 DEF PlaceOK
  <2> QED
    BY <2>1 DEF TypeOK, NodeTypes, TablesOK, NodeOK, ValidPair
<1> QED
  BY <1>1, <1>2, <1>3, PTL DEF Spec
-----------------------------------------------------------------------------
(* NodeList: one command                                                   *)

\* The name and alternate name of a row's node are all there is of it.
NamesArePairs ==
    \A f \in Files : \A i \in 1..Len(f) :
        f[i].node = [name |-> f[i].node.name, alt |-> f[i].node.alt]

\* Ids of rows: none is NoServer, and there is a highest.
Numbered(ids) == ids \subseteq Nat \ {0} /\ \E b \in Nat : \A i \in ids : i <= b

Meet(p, q) == Known(p) \cap Known(q) # {}

\* No name is that of two servers, or of two nodes of a server.
ServersApart(table) == \A s, t \in DOMAIN table : Meet(table[s], table[t]) => s = t

NodesApart(table) ==
    \A m, n \in DOMAIN table :
        /\ table[m].server = table[n].server /\ table[m].server # NoServer
        /\ Meet(table[m], table[n])
        => m = n

\* Names are only those of one in the tables and in what the command sees of them, and it
\* has checked those that it is about to write.
NamesInv(c) ==
    /\ Numbered(DOMAIN Servers(c)) /\ Numbered(DOMAIN NodesSeen(c))
    /\ ServersApart(servers) /\ ServersApart(Servers(c))
    /\ NodesApart(nodes) /\ NodesApart(NodesSeen(c))
    /\ pc[c] = "write_server" => \A id \in pending[c] :
        /\ id = NoServer \/ (id \in DOMAIN Servers(c) /\ Meet(Servers(c)[id], Row(c).server))
        /\ \A s \in DOMAIN Servers(c) : Meet(Servers(c)[s], Row(c).server) => s = id
    /\ pc[c] = "write_node" => \A p \in pending[c] :
        /\ p[1] = NoServer \/ (p[1] \in NodesOf(c, p[2]) /\ Meet(NodesSeen(c)[p[1]], Row(c).node))
        /\ \A n \in NodesOf(c, p[2]) : Meet(NodesSeen(c)[n], Row(c).node) => n = p[1]
        /\ IF p[2] = NoServer
           THEN \A s \in DOMAIN Servers(c) : ~Meet(Servers(c)[s], Row(c).server)
           ELSE p[2] \in DOMAIN Servers(c) /\ Meet(Servers(c)[p[2]], Row(c).server)

LastRow(c) == file[c][Len(file[c])]

\* Every node is flagged as inactive until a row is about it; what the last row says is there.
RowsInv(c) ==
    /\ pc[c] \in {"idle", "attributes", "servers", "write_server", "inactive", "mark"} =>
        DOMAIN own[c].nodes = {}
    /\ pc[c] = "mark" => pending[c] = DOMAIN NodesSeen(c)
    /\ pc[c] \in {"nodes", "write_node", "commit"} =>
        \A n \in DOMAIN NodesSeen(c) : ~NodesSeen(c)[n].inactive =>
            \E i \in 1..Len(file[c]) :
                /\ file[c][i].node = [name |-> NodesSeen(c)[n].name, alt |-> NodesSeen(c)[n].alt]
                /\ file[c][i].details = NodesSeen(c)[n].details
    /\ pc[c] \in {"inactive", "mark", "nodes", "write_node", "commit"} =>
        \E s \in DOMAIN Servers(c) : Servers(c)[s] = LastRow(c).server
    /\ pc[c] = "commit" =>
        \E n \in DOMAIN NodesSeen(c), s \in DOMAIN Servers(c) :
            NodesSeen(c)[n] = NodeOf(LastRow(c), s) /\ Servers(c)[s] = LastRow(c).server

\* Names are of the server that they were of, which a row may have renamed that has one of
\* the names that it had.
ServersKept(c) ==
    /\ \A t \in DOMAIN Servers(c), u \in DOMAIN servers : Meet(Servers(c)[t], servers[u]) => t = u
    /\ \A t \in DOMAIN Servers(c) :
        \/ t \in DOMAIN servers /\ Servers(c)[t] = servers[t]
        \/ \E i \in 1..Len(file[c]) :
            /\ Servers(c)[t] = file[c][i].server
            /\ t \in DOMAIN servers => Meet(servers[t], file[c][i].server)

\* The same of the nodes of a server.
NodesKept(c) ==
    /\ \A m \in DOMAIN NodesSeen(c), n \in DOMAIN nodes :
        /\ NodesSeen(c)[m].server = nodes[n].server /\ nodes[n].server # NoServer
        /\ Meet(NodesSeen(c)[m], nodes[n])
        => m = n
    /\ \A m \in DOMAIN NodesSeen(c) :
        \/ /\ m \in DOMAIN nodes
           /\ NodesSeen(c)[m].name = nodes[m].name /\ NodesSeen(c)[m].alt = nodes[m].alt
           /\ NodesSeen(c)[m].server = nodes[m].server
        \/ \E i \in 1..Len(file[c]) :
            /\ NodesSeen(c)[m].name = file[c][i].node.name
            /\ NodesSeen(c)[m].alt = file[c][i].node.alt
            /\ NodesSeen(c)[m].server # NoServer =>
                /\ NodesSeen(c)[m].server \in DOMAIN Servers(c)
                /\ Meet(Servers(c)[NodesSeen(c)[m].server], file[c][i].server)
            /\ m \in DOMAIN nodes =>
                /\ NodesSeen(c)[m].server = nodes[m].server
                /\ nodes[m].server # NoServer
                /\ Meet(nodes[m], file[c][i].node)

KeptInv(c) == RowsApart(file[c]) => ServersKept(c) /\ NodesKept(c)

\* A serial number is higher than all that are in use.
LEMMA FreshId ==
    ASSUME NEW used, Numbered(used)
    PROVE  /\ NextId(used) \in Nat \ {0} /\ NextId(used) \notin used
           /\ Numbered(used \cup {NextId(used)})
<1>1. CASE used = {}
  <2>1. NextId(used) = 1
    BY <1>1 DEF NextId
  <2> QED
    BY <1>1, <2>1 DEF Numbered
<1>2. CASE used # {}
  <2>1. used \subseteq Nat \ {0}
    BY DEF Numbered
  <2>2. PICK b \in Nat : \A i \in used : i <= b
    BY DEF Numbered
  <2> DEFINE Below == {b - i : i \in used}
  <2>3. Below \subseteq Nat /\ Below # {}
    <3>1. \A i \in used : i \in Nat /\ i <= b
      BY <2>1, <2>2
    <3>2. \A i \in used : b - i \in Nat
      BY <3>1
    <3> QED
      BY <1>2, <3>2
  <2>4. PICK least \in Below : \A k \in Below : ~ (<<k, least>> \in OpToRel(<, Nat))
    BY <2>3, NatLessThanWellFounded, WFMin
  <2>5. \A k \in Below : ~ (k < least)
    BY <2>3, <2>4, Zenon DEF OpToRel
  <2>6. PICK m \in used : least = b - m
    OBVIOUS
  <2>7. \A n \in used : n <= m
    <3> SUFFICES ASSUME NEW n \in used PROVE n <= m
      OBVIOUS
    <3>1. ~ (b - n < b - m)
      BY <2>5, <2>6
    <3> QED
      BY <3>1, <2>1
  <2> DEFINE top == CHOOSE k \in used : \A n \in used : n <= k
  <2>8. top \in used /\ \A n \in used : n <= top
    BY <2>7
  <2>9. NextId(used) = 1 + top
    BY <1>2 DEF NextId
  <2> HIDE DEF top
  <2>10. NextId(used) \in Nat \ {0} /\ \A n \in used : n < NextId(used)
    BY <2>1, <2>8, <2>9
  <2>11. NextId(used) \notin used
    BY <2>1, <2>10
  <2>12. \A i \in used \cup {NextId(used)} : i <= NextId(used)
    BY <2>1, <2>10
  <2> HIDE DEF NextId
  <2> QED
    BY <2>1, <2>10, <2>11, <2>12 DEF Numbered
<1> QED
  BY <1>1, <1>2

LEMMA FewerNumbered ==
    ASSUME NEW ids, NEW some, Numbered(ids), some \subseteq ids PROVE Numbered(some)
BY DEF Numbered

\* Ids are new to all that the command sees.
LEMMA NewIds ==
    ASSUME OneAtATime, NEW c \in Commands
    PROVE  /\ NewServer = NextId(DOMAIN Servers(c))
           /\ NewNode = NextId(DOMAIN NodesSeen(c))
<1>1. UNION {DOMAIN own[d].servers : d \in Commands} = DOMAIN own[c].servers
  BY DEF OneAtATime
<1>2. UNION {DOMAIN own[d].nodes : d \in Commands} = DOMAIN own[c].nodes
  BY DEF OneAtATime
<1>3. /\ DOMAIN servers \cup DOMAIN own[c].servers = DOMAIN Servers(c)
      /\ DOMAIN nodes \cup DOMAIN own[c].nodes = DOMAIN NodesSeen(c)
  BY SeenParts
<1> QED
  BY <1>1, <1>2, <1>3 DEF NewServer, NewNode

\* A search by both names finds what has one of them.
LEMMA FindParts ==
    ASSUME NEW table, NEW ids, NEW pair
    PROVE  /\ \A id \in Find(table, ids, pair) : id \in ids /\ Meet(table[id], pair)
           /\ Find(table, ids, pair) = {} => \A id \in ids : ~Meet(table[id], pair)
BY DEF Find, Meet, Known

\* A change of what the transaction has changed is seen by it.
LEMMA OverPut ==
    ASSUME NEW changes, NEW table, NEW id, NEW row
    PROVE  Over(Put(changes, id, row), table) = Put(Over(changes, table), id, row)
BY DEF Over, Put

LEMMA ServersApartPut ==
    ASSUME NEW table, NEW id, NEW pair, ServersApart(table),
           \A s \in DOMAIN table : Meet(table[s], pair) => s = id
    PROVE  ServersApart(Put(table, id, pair))
<1> SUFFICES ASSUME NEW s \in DOMAIN table \cup {id}, NEW t \in DOMAIN table \cup {id},
                    Meet(Put(table, id, pair)[s], Put(table, id, pair)[t])
             PROVE  s = t
  BY DEF ServersApart, Put
<1>1. CASE s = id \/ t = id
  BY <1>1 DEF Put, Meet
<1>2. CASE s # id /\ t # id
  BY <1>2 DEF Put, ServersApart
<1> QED
  BY <1>1, <1>2

LEMMA NodesApartPut ==
    ASSUME NEW table, NEW id, NEW node, NodesApart(table),
           \A n \in DOMAIN table :
                table[n].server = node.server /\ node.server # NoServer /\ Meet(table[n], node)
                    => n = id
    PROVE  NodesApart(Put(table, id, node))
<1> SUFFICES ASSUME NEW m \in DOMAIN table \cup {id}, NEW n \in DOMAIN table \cup {id},
                    Put(table, id, node)[m].server = Put(table, id, node)[n].server,
                    Put(table, id, node)[m].server # NoServer,
                    Meet(Put(table, id, node)[m], Put(table, id, node)[n])
             PROVE  m = n
  BY DEF NodesApart, Put
<1>1. CASE m = id \/ n = id
  BY <1>1 DEF Put, Meet
<1>2. CASE m # id /\ n # id
  BY <1>2 DEF Put, NodesApart
<1> QED
  BY <1>1, <1>2

\* What a command sees after each of its steps.
LEMMA StopSees ==
    ASSUME CommandShape, NEW c \in Commands, Stop(c)
    PROVE  /\ pc'[c] = "idle" /\ file'[c] = <<>>
           /\ DOMAIN own'[c].servers = {} /\ DOMAIN own'[c].nodes = {}
           /\ DOMAIN Servers(c)' = DOMAIN servers' /\ DOMAIN NodesSeen(c)' = DOMAIN nodes'
           /\ \A s \in DOMAIN servers' : Servers(c)'[s] = servers'[s]
           /\ \A n \in DOMAIN nodes' : NodesSeen(c)'[n] = nodes'[n]
<1>1. pc'[c] = "idle" /\ own'[c] = NoChanges /\ file'[c] = <<>>
  BY DEF Stop, CommandShape
<1>2. DOMAIN own'[c].servers = {} /\ DOMAIN own'[c].nodes = {}
  BY <1>1 DEF NoChanges, Empty
<1> QED
  BY <1>1, <1>2 DEF Servers, NodesSeen, Over

LEMMA LookSees ==
    ASSUME NodeTypes, NEW c \in Commands, ~Stop(c),
           \/ Start(c) \/ AddAttribute(c) \/ FindServerOfRow(c) \/ SeeNodes(c) \/ FindNodeOfRow(c)
    PROVE  /\ UNCHANGED tables
           /\ own'[c].servers = own[c].servers /\ own'[c].nodes = own[c].nodes
           /\ Servers(c)' = Servers(c) /\ NodesSeen(c)' = NodesSeen(c)
<1>1. UNCHANGED tables
  BY DEF Start, AddAttribute, FindServerOfRow, SeeNodes, FindNodeOfRow
<1>2. own' = own \/ AddAttribute(c)
  BY DEF Start, FindServerOfRow, SeeNodes, FindNodeOfRow
<1>3. own'[c].servers = own[c].servers /\ own'[c].nodes = own[c].nodes
  BY <1>2 DEF AddAttribute, NodeTypes, CommandShape
<1> QED
  BY <1>1, <1>3 DEF Servers, NodesSeen, tables

LEMMA WriteServerSees ==
    ASSUME OneAtATime, NodeTypes, NEW c \in Commands, WriteServer(c), ~Stop(c)
    PROVE  /\ pc[c] = "write_server" /\ UNCHANGED <<tables, file>>
           /\ NextRow(c, "servers", "inactive")
           /\ own'[c].nodes = own[c].nodes /\ NodesSeen(c)' = NodesSeen(c)
           /\ \E found \in pending[c] :
                Servers(c)' =
                    Put(Servers(c),
                        IF found = NoServer THEN NextId(DOMAIN Servers(c)) ELSE found,
                        Row(c).server)
<1>1. PICK found \in pending[c] :
        /\ pc[c] = "write_server" /\ UNCHANGED <<tables, file>>
        /\ own' = [own EXCEPT ![c].servers =
                Put(@, IF found = NoServer THEN NewServer ELSE found, Row(c).server)]
        /\ NextRow(c, "servers", "inactive")
  BY DEF WriteServer
<1> DEFINE id == IF found = NoServer THEN NewServer ELSE found
<1>2. /\ own'[c].servers = Put(own[c].servers, id, Row(c).server)
      /\ own'[c].nodes = own[c].nodes
  BY <1>1 DEF NodeTypes, CommandShape
<1>3. Servers(c)' = Over(Put(own[c].servers, id, Row(c).server), servers)
  BY <1>1, <1>2 DEF Servers, tables
<1>4. Servers(c)' = Put(Servers(c), id, Row(c).server)
  BY <1>3, OverPut DEF Servers
<1>5. NodesSeen(c)' = NodesSeen(c)
  BY <1>1, <1>2 DEF NodesSeen, tables
<1> QED
  BY <1>1, <1>2, <1>4, <1>5, NewIds

LEMMA MarkSees ==
    ASSUME NodeTypes, NEW c \in Commands, MarkInactive(c)
    PROVE  /\ pc[c] = "mark" /\ pc'[c] = "nodes" /\ UNCHANGED <<tables, file>>
           /\ Servers(c)' = Servers(c) /\ DOMAIN NodesSeen(c)' = DOMAIN NodesSeen(c)
           /\ \A n \in DOMAIN NodesSeen(c) :
                /\ NodesSeen(c)'[n].name = NodesSeen(c)[n].name
                /\ NodesSeen(c)'[n].alt = NodesSeen(c)[n].alt
                /\ NodesSeen(c)'[n].server = NodesSeen(c)[n].server
                /\ n \in pending[c] => NodesSeen(c)'[n].inactive = TRUE
<1> DEFINE marked == [id \in pending[c] |-> [NodesSeen(c)[id] EXCEPT !.inactive = TRUE]]
<1>1. /\ pc[c] = "mark" /\ pc'[c] = "nodes" /\ UNCHANGED <<tables, file, at>>
      /\ own'[c].nodes = Over(marked, own[c].nodes) /\ own'[c].servers = own[c].servers
  BY DEF MarkInactive, NodeTypes, CommandShape
<1>2. Servers(c)' = Servers(c) /\ NodesSeen(c)' = Over(Over(marked, own[c].nodes), nodes)
  BY <1>1 DEF Servers, NodesSeen, tables
<1>3. pending[c] \subseteq DOMAIN NodesSeen(c)
  BY <1>1 DEF NodeTypes, PlaceOK
<1>4. DOMAIN NodesSeen(c)' = DOMAIN NodesSeen(c)
  BY <1>2, <1>3 DEF NodesSeen, Over
<1>5. ASSUME NEW n \in DOMAIN NodesSeen(c)
      PROVE  /\ NodesSeen(c)'[n].name = NodesSeen(c)[n].name
             /\ NodesSeen(c)'[n].alt = NodesSeen(c)[n].alt
             /\ NodesSeen(c)'[n].server = NodesSeen(c)[n].server
             /\ n \in pending[c] => NodesSeen(c)'[n].inactive = TRUE
  <2>1. CASE n \in pending[c]
    <3>1. NodesSeen(c)'[n] = [NodesSeen(c)[n] EXCEPT !.inactive = TRUE]
      BY <1>2, <2>1 DEF Over
    <3>2. NodeOK(NodesSeen(c)[n], DOMAIN Servers(c), AttributesSeen(c))
      BY SeenOK
    <3> QED
      BY <3>1, <3>2, InactiveParts
  <2>2. CASE n \notin pending[c]
    BY <1>2, <2>2 DEF Over, NodesSeen
  <2> QED
    BY <2>1, <2>2
<1> QED
  BY <1>1, <1>2, <1>4, <1>5

LEMMA WriteNodeSees ==
    ASSUME OneAtATime, NodeTypes, NEW c \in Commands, WriteNode(c), ~Stop(c)
    PROVE  /\ pc[c] = "write_node" /\ UNCHANGED <<tables, file>>
           /\ NextRow(c, "nodes", "commit")
           /\ Servers(c)' = Servers(c)
           /\ \E p \in pending[c] :
                NodesSeen(c)' =
                    Put(NodesSeen(c),
                        IF p[1] = NoServer THEN NextId(DOMAIN NodesSeen(c)) ELSE p[1],
                        NodeOf(Row(c), p[2]))
<1>1. PICK p \in pending[c] :
        /\ pc[c] = "write_node" /\ UNCHANGED <<tables, file>>
        /\ own' = [own EXCEPT ![c].nodes =
                Put(@, IF p[1] = NoServer THEN NewNode ELSE p[1], NodeOf(Row(c), p[2]))]
        /\ NextRow(c, "nodes", "commit")
  BY DEF WriteNode
<1> DEFINE id == IF p[1] = NoServer THEN NewNode ELSE p[1]
<1>2. /\ own'[c].nodes = Put(own[c].nodes, id, NodeOf(Row(c), p[2]))
      /\ own'[c].servers = own[c].servers
  BY <1>1 DEF NodeTypes, CommandShape
<1>3. NodesSeen(c)' = Over(Put(own[c].nodes, id, NodeOf(Row(c), p[2])), nodes)
  BY <1>1, <1>2 DEF NodesSeen, tables
<1>4. NodesSeen(c)' = Put(NodesSeen(c), id, NodeOf(Row(c), p[2]))
  BY <1>3, OverPut DEF NodesSeen
<1>5. Servers(c)' = Servers(c)
  BY <1>1, <1>2 DEF Servers, tables
<1> QED
  BY <1>1, <1>4, <1>5, NewIds

\* The steps of the one command keep names apart.
LEMMA StopNames ==
    ASSUME NodeTypes, NEW c \in Commands, NamesInv(c), Stop(c),
           UNCHANGED tables \/ (servers' = Servers(c) /\ nodes' = NodesSeen(c))
    PROVE  NamesInv(c)'
<1>1. /\ pc'[c] = "idle"
      /\ DOMAIN Servers(c)' = DOMAIN servers' /\ DOMAIN NodesSeen(c)' = DOMAIN nodes'
      /\ \A s \in DOMAIN servers' : Servers(c)'[s] = servers'[s]
      /\ \A n \in DOMAIN nodes' : NodesSeen(c)'[n] = nodes'[n]
  BY StopSees DEF NodeTypes
<1>2. Numbered(DOMAIN servers') /\ Numbered(DOMAIN nodes')
  BY SeenParts, FewerNumbered DEF NamesInv, tables
<1>3. ServersApart(servers') /\ NodesApart(nodes')
  BY DEF NamesInv, tables
<1>4. ServersApart(Servers(c)') /\ NodesApart(NodesSeen(c)')
  BY <1>1, <1>3 DEF ServersApart, NodesApart
<1> QED
  BY <1>1, <1>2, <1>3, <1>4 DEF NamesInv

LEMMA LookNames ==
    ASSUME NodeTypes, NEW c \in Commands, NamesInv(c), ~Stop(c),
           \/ Start(c) \/ AddAttribute(c) \/ FindServerOfRow(c) \/ SeeNodes(c) \/ FindNodeOfRow(c)
    PROVE  NamesInv(c)'
<1>1. /\ UNCHANGED <<servers, nodes>>
      /\ Servers(c)' = Servers(c) /\ NodesSeen(c)' = NodesSeen(c)
  BY LookSees DEF tables
<1>2. /\ Numbered(DOMAIN Servers(c))' /\ Numbered(DOMAIN NodesSeen(c))'
      /\ ServersApart(servers)' /\ ServersApart(Servers(c))'
      /\ NodesApart(nodes)' /\ NodesApart(NodesSeen(c))'
  BY <1>1 DEF NamesInv
<1>3. ASSUME pc'[c] = "write_server", NEW id \in pending'[c]
      PROVE  /\ id = NoServer \/ (id \in DOMAIN Servers(c) /\ Meet(Servers(c)[id], Row(c)'.server))
             /\ \A s \in DOMAIN Servers(c) : Meet(Servers(c)[s], Row(c)'.server) => s = id
  <2>1. CASE FindServerOfRow(c)
    <3>1. PICK found \in (IF FindServer(c, Row(c).server) = {} THEN {NoServer}
                          ELSE FindServer(c, Row(c).server)) :
            /\ ~Clash(Servers(c), DOMAIN Servers(c) \ {found}, Row(c).server)
            /\ pending' = [pending EXCEPT ![c] = {found}]
            /\ UNCHANGED <<file, at>>
      BY <2>1 DEF FindServerOfRow
    <3>2. id = found /\ Row(c)' = Row(c)
      BY <1>3, <3>1 DEF NodeTypes, CommandShape, Row
    <3>3. found = NoServer
            \/ (found \in DOMAIN Servers(c) /\ Meet(Servers(c)[found], Row(c).server))
      BY FindParts DEF FindServer
    <3>4. \A s \in DOMAIN Servers(c) : Meet(Servers(c)[s], Row(c).server) => s = found
      BY <3>1 DEF Clash, Meet
    <3> QED
      BY <3>2, <3>3, <3>4
  <2>2. CASE Start(c) \/ SeeNodes(c) \/ FindNodeOfRow(c)
    BY <1>3, <2>2 DEF Start, SeeNodes, FindNodeOfRow, NodeTypes, CommandShape
  <2>3. CASE AddAttribute(c)
    BY <1>3, <2>3 DEF AddAttribute, NextRow, NodeTypes, CommandShape
  <2> QED
    BY <2>1, <2>2, <2>3
<1>4. ASSUME pc'[c] = "write_node", NEW p \in pending'[c]
      PROVE  /\ p[1] = NoServer
                    \/ (p[1] \in NodesOf(c, p[2]) /\ Meet(NodesSeen(c)[p[1]], Row(c)'.node))
             /\ \A n \in NodesOf(c, p[2]) : Meet(NodesSeen(c)[n], Row(c)'.node) => n = p[1]
             /\ IF p[2] = NoServer
                THEN \A s \in DOMAIN Servers(c) : ~Meet(Servers(c)[s], Row(c)'.server)
                ELSE p[2] \in DOMAIN Servers(c) /\ Meet(Servers(c)[p[2]], Row(c)'.server)
  <2>1. CASE FindNodeOfRow(c)
    <3> DEFINE found == FindServer(c, Row(c).server)
    <3> DEFINE matching(server) == Find(NodesSeen(c), NodesOf(c, server), Row(c).node)
    <3>1. PICK server \in (IF found = {} THEN {NoServer} ELSE found) :
            \E id \in (IF matching(server) = {} THEN {NoServer} ELSE matching(server)) :
                /\ ~Clash(NodesSeen(c), NodesOf(c, server) \ {id}, Row(c).node)
                /\ pending' = [pending EXCEPT ![c] = {<<id, server>>}]
                /\ UNCHANGED <<file, at>>
      BY <2>1 DEF FindNodeOfRow
    <3>2. PICK id \in (IF matching(server) = {} THEN {NoServer} ELSE matching(server)) :
            /\ ~Clash(NodesSeen(c), NodesOf(c, server) \ {id}, Row(c).node)
            /\ pending' = [pending EXCEPT ![c] = {<<id, server>>}]
            /\ UNCHANGED <<file, at>>
      BY <3>1
    <3>3. p = <<id, server>> /\ Row(c)' = Row(c)
      BY <1>4, <3>2 DEF NodeTypes, CommandShape, Row
    <3>4. id = NoServer
            \/ (id \in NodesOf(c, server) /\ Meet(NodesSeen(c)[id], Row(c).node))
      BY FindParts
    <3>5. \A n \in NodesOf(c, server) : Meet(NodesSeen(c)[n], Row(c).node) => n = id
      BY <3>2 DEF Clash, Meet
    <3>6. IF server = NoServer
          THEN \A s \in DOMAIN Servers(c) : ~Meet(Servers(c)[s], Row(c).server)
          ELSE server \in DOMAIN Servers(c) /\ Meet(Servers(c)[server], Row(c).server)
      <4>1. NoServer \notin DOMAIN Servers(c)
        BY DEF NamesInv, Numbered, NoServer
      <4> QED
        BY <4>1, FindParts DEF FindServer
    <3> QED
      BY <3>3, <3>4, <3>5, <3>6
  <2>2. CASE Start(c) \/ SeeNodes(c) \/ FindServerOfRow(c)
    BY <1>4, <2>2 DEF Start, SeeNodes, FindServerOfRow, NodeTypes, CommandShape
  <2>3. CASE AddAttribute(c)
    BY <1>4, <2>3 DEF AddAttribute, NextRow, NodeTypes, CommandShape
  <2> QED
    BY <2>1, <2>2, <2>3
<1>5. \A server : NodesOf(c, server)' = NodesOf(c, server)
  BY <1>1 DEF NodesOf
<1> QED
  BY <1>1, <1>2, <1>3, <1>4, <1>5 DEF NamesInv

LEMMA WriteServerNames ==
    ASSUME OneAtATime, NodeTypes, NEW c \in Commands, NamesInv(c), WriteServer(c), ~Stop(c)
    PROVE  NamesInv(c)'
<1>1. PICK found \in pending[c] :
        /\ pc[c] = "write_server" /\ UNCHANGED <<tables, file>>
        /\ NextRow(c, "servers", "inactive") /\ NodesSeen(c)' = NodesSeen(c)
        /\ Servers(c)' =
            Put(Servers(c),
                IF found = NoServer THEN NextId(DOMAIN Servers(c)) ELSE found,
                Row(c).server)
  BY WriteServerSees
<1> DEFINE id == IF found = NoServer THEN NextId(DOMAIN Servers(c)) ELSE found
<1>2. /\ found = NoServer \/ found \in DOMAIN Servers(c)
      /\ \A s \in DOMAIN Servers(c) : Meet(Servers(c)[s], Row(c).server) => s = found
      /\ Numbered(DOMAIN Servers(c)) /\ ServersApart(Servers(c))
  BY <1>1 DEF NamesInv
<1>3. \A s \in DOMAIN Servers(c) : Meet(Servers(c)[s], Row(c).server) => s = id
  BY <1>2 DEF Numbered, NoServer
<1>4. ServersApart(Servers(c))'
  BY <1>1, <1>2, <1>3, ServersApartPut
<1>5. Numbered(DOMAIN Servers(c) \cup {id})
  <2>1. CASE found = NoServer
    BY <1>2, <2>1, FreshId
  <2>2. CASE found # NoServer
    <3>1. DOMAIN Servers(c) \cup {id} = DOMAIN Servers(c)
      BY <1>2, <2>2
    <3> QED
      BY <1>2, <3>1
  <2> QED
    BY <2>1, <2>2
<1>6. Numbered(DOMAIN Servers(c))'
  <2>1. DOMAIN Servers(c)' = DOMAIN Servers(c) \cup {id}
    BY <1>1 DEF Put
  <2> QED
    BY <1>5, <2>1
<1>7. pc'[c] \in {"servers", "inactive"}
  BY <1>1 DEF NextRow, NodeTypes, CommandShape
<1> QED
  BY <1>1, <1>4, <1>6, <1>7 DEF NamesInv, tables

LEMMA SameNodesApart ==
    ASSUME NEW t, NEW u, NodesApart(t), DOMAIN u = DOMAIN t,
           \A n \in DOMAIN t :
                u[n].name = t[n].name /\ u[n].alt = t[n].alt /\ u[n].server = t[n].server
    PROVE  NodesApart(u)
<1> SUFFICES ASSUME NEW m \in DOMAIN t, NEW n \in DOMAIN t, u[m].server = u[n].server,
                    u[m].server # NoServer, Meet(u[m], u[n])
             PROVE  m = n
  BY DEF NodesApart
<1>1. Meet(t[m], t[n]) /\ t[m].server = t[n].server /\ t[m].server # NoServer
  BY DEF Meet, Known
<1> QED
  BY <1>1 DEF NodesApart

LEMMA MarkNames ==
    ASSUME NodeTypes, NEW c \in Commands, NamesInv(c), MarkInactive(c)
    PROVE  NamesInv(c)'
<1>1. NodesApart(NodesSeen(c)')
  <2>1. NodesApart(NodesSeen(c))
    BY DEF NamesInv
  <2>2. /\ DOMAIN NodesSeen(c)' = DOMAIN NodesSeen(c)
        /\ \A n \in DOMAIN NodesSeen(c) :
            /\ NodesSeen(c)'[n].name = NodesSeen(c)[n].name
            /\ NodesSeen(c)'[n].alt = NodesSeen(c)[n].alt
            /\ NodesSeen(c)'[n].server = NodesSeen(c)[n].server
    BY MarkSees
  <2> QED
    BY <2>1, <2>2, SameNodesApart
<1> QED
  BY <1>1, MarkSees DEF NamesInv, tables

LEMMA WriteNodeNames ==
    ASSUME OneAtATime, NodeTypes, NEW c \in Commands, NamesInv(c), WriteNode(c), ~Stop(c)
    PROVE  NamesInv(c)'
<1>1. PICK p \in pending[c] :
        /\ pc[c] = "write_node" /\ UNCHANGED <<tables, file>>
        /\ NextRow(c, "nodes", "commit") /\ Servers(c)' = Servers(c)
        /\ NodesSeen(c)' =
            Put(NodesSeen(c),
                IF p[1] = NoServer THEN NextId(DOMAIN NodesSeen(c)) ELSE p[1],
                NodeOf(Row(c), p[2]))
  BY WriteNodeSees
<1> DEFINE id == IF p[1] = NoServer THEN NextId(DOMAIN NodesSeen(c)) ELSE p[1]
<1> DEFINE node == NodeOf(Row(c), p[2])
<1>2. /\ p[1] = NoServer \/ p[1] \in NodesOf(c, p[2])
      /\ \A n \in NodesOf(c, p[2]) : Meet(NodesSeen(c)[n], Row(c).node) => n = p[1]
      /\ Numbered(DOMAIN NodesSeen(c)) /\ NodesApart(NodesSeen(c))
  BY <1>1 DEF NamesInv
<1>3. ASSUME NEW n \in DOMAIN NodesSeen(c), NodesSeen(c)[n].server = node.server,
             node.server # NoServer, Meet(NodesSeen(c)[n], node)
      PROVE  n = id
  <2>1. n \in NodesOf(c, p[2]) /\ Meet(NodesSeen(c)[n], Row(c).node)
    BY <1>3 DEF NodesOf, NodeOf, Meet, Known
  <2>2. n = p[1] /\ n # NoServer
    BY <1>2, <2>1 DEF Numbered, NoServer
  <2> QED
    BY <2>2
<1>4. NodesApart(NodesSeen(c))'
  <2> HIDE DEF node, id
  <2>1. NodesApart(Put(NodesSeen(c), id, node))
    BY <1>2, <1>3, NodesApartPut
  <2> QED
    BY <1>1, <2>1 DEF node, id
<1>5. Numbered(DOMAIN NodesSeen(c) \cup {id})
  <2>1. CASE p[1] = NoServer
    BY <1>2, <2>1, FreshId
  <2>2. CASE p[1] # NoServer
    <3>1. DOMAIN NodesSeen(c) \cup {id} = DOMAIN NodesSeen(c)
      BY <1>2, <2>2 DEF NodesOf
    <3> QED
      BY <1>2, <3>1
  <2> QED
    BY <2>1, <2>2
<1>6. Numbered(DOMAIN NodesSeen(c))'
  <2>1. DOMAIN NodesSeen(c)' = DOMAIN NodesSeen(c) \cup {id}
    BY <1>1 DEF Put
  <2> QED
    BY <1>5, <2>1
<1>7. pc'[c] \in {"nodes", "commit"}
  BY <1>1 DEF NextRow, NodeTypes, CommandShape
<1> QED
  BY <1>1, <1>4, <1>6, <1>7 DEF NamesInv, tables

LEMMA InitNames ==
    ASSUME Init, NEW c \in Commands PROVE NamesInv(c)
<1>1. DOMAIN servers = {} /\ DOMAIN nodes = {} /\ pc[c] = "idle" /\ own[c] = NoChanges
  BY DEF Init, Empty
<1>2. DOMAIN own[c].servers = {} /\ DOMAIN own[c].nodes = {}
  BY <1>1 DEF NoChanges, Empty
<1>3. DOMAIN Servers(c) = {} /\ DOMAIN NodesSeen(c) = {}
  BY <1>1, <1>2, SeenParts
<1> QED
  BY <1>1, <1>3 DEF NamesInv, Numbered, ServersApart, NodesApart

LEMMA StepNames ==
    ASSUME OneAtATime, NodeTypes, NEW c \in Commands, NamesInv(c), Step(c)
    PROVE  NamesInv(c)'
<1>1. CASE Stop(c)
  <2>1. UNCHANGED tables \/ (servers' = Servers(c) /\ nodes' = NodesSeen(c))
    BY DEF Step, Start, Fail, AddAttribute, FindServerOfRow, WriteServer, SeeNodes,
           MarkInactive, FindNodeOfRow, WriteNode, Commit
  <2> QED
    BY <1>1, <2>1, StopNames
<1>2. CASE ~Stop(c)
  BY <1>2, LookNames, WriteServerNames, MarkNames, WriteNodeNames DEF Step, Fail, Commit
<1> QED
  BY <1>1, <1>2

LEMMA StutterSees ==
    ASSUME UNCHANGED vars, NEW c \in Commands
    PROVE  /\ UNCHANGED <<servers, nodes, pc, file, at, pending, own>>
           /\ Servers(c)' = Servers(c) /\ NodesSeen(c)' = NodesSeen(c)
           /\ \A server : NodesOf(c, server)' = NodesOf(c, server)
<1>1. UNCHANGED <<servers, nodes, pc, file, at, pending, own>>
  BY DEF vars, tables
<1>2. Servers(c)' = Servers(c) /\ NodesSeen(c)' = NodesSeen(c)
  BY <1>1 DEF Servers, NodesSeen
<1> QED
  BY <1>1, <1>2 DEF NodesOf

TablesApart == ServersApart(servers) /\ NodesApart(nodes)

AllNames == NodeTypes /\ TablesApart /\ \A c \in Commands : NamesInv(c)

LEMMA InitAllNames == FilesHaveRows /\ Init => AllNames
<1> SUFFICES ASSUME FilesHaveRows, Init PROVE AllNames
  OBVIOUS
<1>1. DOMAIN servers = {} /\ DOMAIN nodes = {}
  BY DEF Init, Empty
<1> QED
  BY <1>1, InitNodeTypes, InitNames DEF AllNames, TablesApart, ServersApart, NodesApart

LEMMA NextAllNames ==
    ASSUME OneAtATime, FilesHaveRows, AllNames, [Next]_vars PROVE AllNames'
<1>1. NodeTypes'
  BY NextNodeTypes DEF AllNames
<1>2. CASE UNCHANGED vars
  <2>1. TablesApart'
    BY <1>2 DEF AllNames, TablesApart, vars, tables
  <2>2. ASSUME NEW c \in Commands PROVE NamesInv(c)'
    <3>1. NamesInv(c)
      BY DEF AllNames
    <3> QED
      BY <1>2, <3>1, StutterSees DEF NamesInv, Row
  <2> QED
    BY <1>1, <2>1, <2>2 DEF AllNames
<1>3. CASE Next
  <2>1. PICK c \in Commands : Step(c)
    BY <1>3 DEF Next, Step
  <2>2. NamesInv(c)'
    BY <2>1, StepNames DEF AllNames
  <2>3. TablesApart'
    BY <2>2 DEF NamesInv, TablesApart
  <2> QED
    BY <1>1, <2>2, <2>3 DEF AllNames, OneAtATime
<1> QED
  BY <1>2, <1>3

\* dsv-nodes-update, one at a time: no name, primary or alternate, is ever that of two
\* servers or of two nodes of a server, whatever files are read one after the other.
THEOREM NamesStayUnique == OneAtATime /\ FilesHaveRows /\ Spec => []NamesUnique
<1> SUFFICES ASSUME OneAtATime, FilesHaveRows PROVE Spec => []NamesUnique
  OBVIOUS
<1>1. Init => AllNames
  BY InitAllNames
<1>2. AllNames /\ [Next]_vars => AllNames'
  BY NextAllNames
<1>3. AllNames => NamesUnique
  BY DEF AllNames, TablesApart, ServersApart, NodesApart, Meet, NamesUnique
<1> QED
  BY <1>1, <1>2, <1>3, PTL DEF Spec

\* The steps of the one command keep what it knows of its rows.
LEMMA LookRows ==
    ASSUME NodeTypes, NEW c \in Commands, RowsInv(c), ~Stop(c),
           \/ Start(c) \/ AddAttribute(c) \/ FindServerOfRow(c) \/ SeeNodes(c) \/ FindNodeOfRow(c)
    PROVE  RowsInv(c)'
<1>1. /\ own'[c].nodes = own[c].nodes
      /\ Servers(c)' = Servers(c) /\ NodesSeen(c)' = NodesSeen(c)
  BY LookSees
<1>2. CASE Start(c)
  <2>1. pc[c] = "idle" /\ pc'[c] = "attributes"
    BY <1>2 DEF Start, NodeTypes, CommandShape
  <2> QED
    BY <1>1, <2>1 DEF RowsInv
<1>3. CASE AddAttribute(c)
  <2>1. pc[c] = "attributes" /\ pc'[c] \in {"attributes", "servers"}
    BY <1>3 DEF AddAttribute, NextRow, NodeTypes, CommandShape
  <2> QED
    BY <1>1, <2>1 DEF RowsInv
<1>4. CASE FindServerOfRow(c)
  <2>1. pc[c] = "servers" /\ pc'[c] = "write_server"
    BY <1>4 DEF FindServerOfRow, NodeTypes, CommandShape
  <2> QED
    BY <1>1, <2>1 DEF RowsInv
<1>5. CASE SeeNodes(c)
  <2>1. /\ pc[c] = "inactive" /\ pc'[c] = "mark" /\ file' = file
        /\ pending'[c] = DOMAIN NodesSeen(c)
    BY <1>5 DEF SeeNodes, NodeTypes, CommandShape
  <2> QED
    BY <1>1, <2>1 DEF RowsInv, LastRow
<1>6. CASE FindNodeOfRow(c)
  <2>1. pc[c] = "nodes" /\ pc'[c] = "write_node" /\ file' = file
    BY <1>6 DEF FindNodeOfRow, NodeTypes, CommandShape
  <2> QED
    BY <1>1, <2>1 DEF RowsInv, LastRow
<1> QED
  BY <1>2, <1>3, <1>4, <1>5, <1>6

LEMMA WriteServerRows ==
    ASSUME OneAtATime, FilesHaveRows, NodeTypes, NEW c \in Commands, RowsInv(c),
           WriteServer(c), ~Stop(c)
    PROVE  RowsInv(c)'
<1>1. PICK id :
        /\ pc[c] = "write_server" /\ file' = file /\ own'[c].nodes = own[c].nodes
        /\ NextRow(c, "servers", "inactive")
        /\ Servers(c)' = Put(Servers(c), id, Row(c).server)
  BY WriteServerSees
<1>2. at[c] \in 1..Len(file[c]) /\ Len(file[c]) \in Nat
  BY <1>1 DEF NodeTypes, PlaceOK, FilesHaveRows
<1>3. pc'[c] = "servers" \/ (pc'[c] = "inactive" /\ at[c] = Len(file[c]))
  BY <1>1, <1>2, NextRowParts DEF NodeSteps, NodeTypes
<1>4. ASSUME pc'[c] = "inactive"
      PROVE  id \in DOMAIN Servers(c)' /\ Servers(c)'[id] = LastRow(c)'.server
  BY <1>1, <1>3, <1>4 DEF Put, Row, LastRow
<1> QED
  BY <1>1, <1>3, <1>4 DEF RowsInv

LEMMA MarkRows ==
    ASSUME NodeTypes, NEW c \in Commands, RowsInv(c), MarkInactive(c)
    PROVE  RowsInv(c)'
<1>1. /\ pc[c] = "mark" /\ pc'[c] = "nodes" /\ file' = file
      /\ Servers(c)' = Servers(c) /\ DOMAIN NodesSeen(c)' = DOMAIN NodesSeen(c)
      /\ \A n \in DOMAIN NodesSeen(c) : n \in pending[c] => NodesSeen(c)'[n].inactive = TRUE
  BY MarkSees
<1>2. pending[c] = DOMAIN NodesSeen(c)
  BY <1>1 DEF RowsInv
<1> QED
  BY <1>1, <1>2 DEF RowsInv, LastRow

LEMMA WriteNodeRows ==
    ASSUME OneAtATime, FilesHaveRows, NamesArePairs, NodeTypes, NEW c \in Commands,
           NamesInv(c), RowsInv(c), WriteNode(c), ~Stop(c)
    PROVE  RowsInv(c)'
<1>0. PICK p \in pending[c] : \E id :
        /\ pc[c] = "write_node" /\ file' = file
        /\ NextRow(c, "nodes", "commit") /\ Servers(c)' = Servers(c)
        /\ NodesSeen(c)' = Put(NodesSeen(c), id, NodeOf(Row(c), p[2]))
  BY WriteNodeSees
<1>1. PICK id :
        /\ pc[c] = "write_node" /\ file' = file
        /\ NextRow(c, "nodes", "commit") /\ Servers(c)' = Servers(c)
        /\ NodesSeen(c)' = Put(NodesSeen(c), id, NodeOf(Row(c), p[2]))
  BY <1>0
<1>2. /\ at[c] \in 1..Len(file[c]) /\ Len(file[c]) \in Nat /\ file[c] \in Files
      /\ ValidPair(Row(c).server)
  BY <1>1 DEF NodeTypes, PlaceOK, FilesHaveRows, Row
<1>3. pc'[c] = "nodes" \/ (pc'[c] = "commit" /\ at[c] = Len(file[c]))
  BY <1>1, <1>2, NextRowParts DEF NodeSteps, NodeTypes
<1>4. PICK s \in DOMAIN Servers(c) : Servers(c)[s] = LastRow(c).server
  BY <1>1 DEF RowsInv
<1>5. ASSUME NEW n \in DOMAIN NodesSeen(c)', ~NodesSeen(c)'[n].inactive
      PROVE  \E i \in 1..Len(file[c]) :
                /\ file[c][i].node = [name |-> NodesSeen(c)'[n].name, alt |-> NodesSeen(c)'[n].alt]
                /\ file[c][i].details = NodesSeen(c)'[n].details
  <2>1. CASE n = id
    <3>1. NodesSeen(c)'[n] = NodeOf(file[c][at[c]], p[2])
      BY <1>1, <2>1 DEF Put, Row
    <3>2. /\ NodesSeen(c)'[n].name = file[c][at[c]].node.name
          /\ NodesSeen(c)'[n].alt = file[c][at[c]].node.alt
          /\ NodesSeen(c)'[n].details = file[c][at[c]].details
      BY <3>1 DEF NodeOf
    <3>3. file[c][at[c]].node = [name |-> file[c][at[c]].node.name, alt |-> file[c][at[c]].node.alt]
      BY <1>2 DEF NamesArePairs
    <3> QED
      BY <1>2, <3>2, <3>3
  <2>2. CASE n # id
    <3>1. n \in DOMAIN NodesSeen(c) /\ NodesSeen(c)'[n] = NodesSeen(c)[n]
      BY <1>1, <1>5, <2>2 DEF Put
    <3> QED
      BY <1>1, <1>5, <3>1 DEF RowsInv
  <2> QED
    BY <2>1, <2>2
<1>6. ASSUME pc'[c] = "commit"
      PROVE  /\ id \in DOMAIN NodesSeen(c)' /\ p[2] \in DOMAIN Servers(c)
             /\ NodesSeen(c)'[id] = NodeOf(LastRow(c), p[2])
             /\ Servers(c)[p[2]] = LastRow(c).server
  <2>1. Row(c) = LastRow(c)
    BY <1>3, <1>6 DEF Row, LastRow
  <2>2. Meet(Servers(c)[s], Row(c).server)
    <3>1. Row(c).server.name # NoName \/ Row(c).server.alt # NoName
      BY <1>2 DEF ValidPair
    <3>2. Known(Row(c).server) # {}
      BY <3>1 DEF Known
    <3> QED
      BY <1>4, <2>1, <3>2 DEF Meet
  <2>3. p[2] # NoServer
    BY <1>1, <2>2 DEF NamesInv
  <2>4. p[2] \in DOMAIN Servers(c) /\ Meet(Servers(c)[p[2]], Row(c).server)
    BY <1>1, <2>3 DEF NamesInv
  <2>5. Meet(Servers(c)[p[2]], Servers(c)[s])
    BY <1>4, <2>1, <2>4
  <2>6. p[2] = s
    BY <2>4, <2>5 DEF NamesInv, ServersApart
  <2> QED
    BY <1>1, <1>4, <2>1, <2>6 DEF Put
<1> QED
  BY <1>1, <1>3, <1>4, <1>5, <1>6 DEF RowsInv, LastRow

LEMMA StepRows ==
    ASSUME OneAtATime, FilesHaveRows, NamesArePairs, NodeTypes, NEW c \in Commands,
           NamesInv(c), RowsInv(c), Step(c)
    PROVE  RowsInv(c)'
<1>1. CASE Stop(c)
  BY <1>1, StopSees DEF RowsInv, NodeTypes
<1>2. CASE ~Stop(c)
  BY <1>2, LookRows, WriteServerRows, MarkRows, WriteNodeRows DEF Step, Fail, Commit
<1> QED
  BY <1>1, <1>2

\* What RowsApart says of rows that meet.
LEMMA RowsMeet ==
    ASSUME NEW f, RowsApart(f), NEW i \in 1..Len(f), NEW k \in 1..Len(f)
    PROVE  /\ Meet(f[i].server, f[k].server) => f[i].server = f[k].server
           /\ \A u \in DOMAIN servers :
                Meet(servers[u], f[i].server) /\ Meet(servers[u], f[k].server)
                    => f[i].server = f[k].server
           /\ f[i].server = f[k].server /\ Meet(f[i].node, f[k].node) => i = k
           /\ \A u \in DOMAIN nodes :
                f[i].server = f[k].server /\ Meet(nodes[u], f[i].node) /\ Meet(nodes[u], f[k].node)
                    => i = k
<1>1. /\ f[i].server # f[k].server =>
            Apart(servers, DOMAIN servers, f[i].server, f[k].server)
      /\ f[i].server = f[k].server /\ i # k =>
            Apart(nodes, DOMAIN nodes, f[i].node, f[k].node)
  BY DEF RowsApart
<1> QED
  BY <1>1 DEF Apart, Meet

\* Rows that meet the same server are about the same names.
LEMMA SameServer ==
    ASSUME NEW c \in Commands, RowsApart(file[c]), ServersKept(c),
           NEW t \in DOMAIN Servers(c),
           NEW i \in 1..Len(file[c]), Meet(Servers(c)[t], file[c][i].server),
           NEW k \in 1..Len(file[c]), Meet(Servers(c)[t], file[c][k].server)
    PROVE  file[c][i].server = file[c][k].server
<1>1. CASE t \in DOMAIN servers /\ Servers(c)[t] = servers[t]
  BY <1>1, RowsMeet
<1>2. ASSUME NEW j \in 1..Len(file[c]), Servers(c)[t] = file[c][j].server
      PROVE  file[c][i].server = file[c][k].server
  <2>1. Meet(file[c][j].server, file[c][i].server) /\ Meet(file[c][j].server, file[c][k].server)
    BY <1>2
  <2> QED
    BY <2>1, RowsMeet
<1> QED
  BY <1>1, <1>2 DEF ServersKept

\* Nothing has been changed yet.
LEMMA UntouchedKept ==
    ASSUME NEW c \in Commands
    PROVE  /\ DOMAIN own'[c].servers = {} /\ ServersApart(servers)' => ServersKept(c)'
           /\ DOMAIN own'[c].nodes = {} /\ NodesApart(nodes)' => NodesKept(c)'
<1>1. ASSUME DOMAIN own'[c].servers = {}, ServersApart(servers)' PROVE ServersKept(c)'
  <2>1. /\ DOMAIN Servers(c)' = DOMAIN servers'
        /\ \A s \in DOMAIN servers' : Servers(c)'[s] = servers'[s]
    BY <1>1 DEF Servers, Over
  <2> QED
    BY <1>1, <2>1 DEF ServersKept, ServersApart
<1>2. ASSUME DOMAIN own'[c].nodes = {}, NodesApart(nodes)' PROVE NodesKept(c)'
  <2>1. /\ DOMAIN NodesSeen(c)' = DOMAIN nodes'
        /\ \A n \in DOMAIN nodes' : NodesSeen(c)'[n] = nodes'[n]
    BY <1>2 DEF NodesSeen, Over
  <2> QED
    BY <1>2, <2>1 DEF NodesKept, NodesApart
<1> QED
  BY <1>1, <1>2

\* Names of a server that the command sees are of the one that has them, or had them.
LEMMA OldServerFound ==
    ASSUME NEW c \in Commands, RowsApart(file[c]), ServersKept(c),
           NEW i \in 1..Len(file[c]), NEW u \in DOMAIN servers
    PROVE  Meet(Servers(c)[u], file[c][i].server) <=> Meet(servers[u], file[c][i].server)
<1>1. u \in DOMAIN Servers(c)
  BY SeenParts
<1>2. CASE Servers(c)[u] = servers[u]
  BY <1>2
<1>3. ASSUME NEW j \in 1..Len(file[c]), Servers(c)[u] = file[c][j].server,
             Meet(servers[u], file[c][j].server)
      PROVE  Meet(Servers(c)[u], file[c][i].server) <=> Meet(servers[u], file[c][i].server)
  <2>1. ASSUME Meet(Servers(c)[u], file[c][i].server) PROVE Meet(servers[u], file[c][i].server)
    <3>1. Meet(file[c][j].server, file[c][i].server)
      BY <1>3, <2>1
    <3>2. file[c][j].server = file[c][i].server
      BY <3>1, RowsMeet
    <3> QED
      BY <1>3, <3>2
  <2>2. ASSUME Meet(servers[u], file[c][i].server) PROVE Meet(Servers(c)[u], file[c][i].server)
    <3>1. file[c][j].server = file[c][i].server
      BY <1>3, <2>2, RowsMeet
    <3>2. Meet(file[c][i].server, file[c][i].server)
      BY <2>2 DEF Meet
    <3> QED
      BY <1>3, <3>1, <3>2
  <2> QED
    BY <2>1, <2>2
<1> QED
  BY <1>1, <1>2, <1>3 DEF ServersKept

LEMMA WriteServerKept ==
    ASSUME OneAtATime, FilesHaveRows, NodeTypes, NEW c \in Commands, NamesInv(c), RowsInv(c),
           KeptInv(c), WriteServer(c), ~Stop(c)
    PROVE  KeptInv(c)'
<1>1. PICK found \in pending[c] :
        /\ pc[c] = "write_server" /\ UNCHANGED <<tables, file>>
        /\ own'[c].nodes = own[c].nodes
        /\ Servers(c)' =
            Put(Servers(c),
                IF found = NoServer THEN NextId(DOMAIN Servers(c)) ELSE found,
                Row(c).server)
  BY WriteServerSees
<1> DEFINE id == IF found = NoServer THEN NextId(DOMAIN Servers(c)) ELSE found
<1> SUFFICES ASSUME RowsApart(file[c]) PROVE ServersKept(c)' /\ NodesKept(c)'
  <2>1. UNCHANGED <<servers, nodes, file>>
    BY <1>1 DEF tables
  <2>2. RowsApart(file[c])' <=> RowsApart(file[c])
    BY <2>1 DEF RowsApart, Apart
  <2> QED
    BY <2>2 DEF KeptInv
<1>2. ServersKept(c)
  BY DEF KeptInv
<1>3. /\ at[c] \in 1..Len(file[c]) /\ Row(c).server = file[c][at[c]].server
      /\ UNCHANGED <<servers, nodes, file>>
  BY <1>1 DEF NodeTypes, PlaceOK, Row, tables
<1>4. /\ found = NoServer \/ (found \in DOMAIN Servers(c) /\ Meet(Servers(c)[found], Row(c).server))
      /\ \A s \in DOMAIN Servers(c) : Meet(Servers(c)[s], Row(c).server) => s = found
      /\ NoServer \notin DOMAIN Servers(c) /\ Numbered(DOMAIN Servers(c))
  BY <1>1 DEF NamesInv, Numbered, NoServer
<1>5. \A u \in DOMAIN servers :
        u \in DOMAIN Servers(c)
            /\ (Meet(Servers(c)[u], Row(c).server) <=> Meet(servers[u], Row(c).server))
  BY <1>2, <1>3, OldServerFound, SeenParts
<1>6. id \in DOMAIN servers => id = found /\ id # NoServer
  BY <1>4, <1>5, FreshId
<1> HIDE DEF id
<1>7. /\ DOMAIN Servers(c)' = DOMAIN Servers(c) \cup {id}
      /\ Servers(c)'[id] = Row(c).server
      /\ \A t \in DOMAIN Servers(c) \ {id} : Servers(c)'[t] = Servers(c)[t]
  BY <1>1 DEF Put, id
<1>8. ASSUME NEW t \in DOMAIN Servers(c)', NEW u \in DOMAIN servers,
             Meet(Servers(c)'[t], servers[u])
      PROVE  t = u
  <2>1. CASE t = id
    <3>1. Meet(servers[u], Row(c).server)
      BY <1>7, <1>8, <2>1 DEF Meet
    <3>2. u = found /\ u # NoServer
      BY <1>4, <1>5, <3>1
    <3> QED
      BY <2>1, <3>2 DEF id
  <2>2. CASE t # id
    BY <1>2, <1>7, <1>8, <2>2 DEF ServersKept
  <2> QED
    BY <2>1, <2>2
<1>9. ASSUME NEW t \in DOMAIN Servers(c)'
      PROVE  \/ t \in DOMAIN servers /\ Servers(c)'[t] = servers[t]
             \/ \E i \in 1..Len(file[c]) :
                    /\ Servers(c)'[t] = file[c][i].server
                    /\ t \in DOMAIN servers => Meet(servers[t], file[c][i].server)
  <2>1. CASE t = id
    <3>1. Servers(c)'[t] = file[c][at[c]].server
      BY <1>3, <1>7, <2>1
    <3>2. t \in DOMAIN servers => Meet(servers[t], file[c][at[c]].server)
      BY <1>3, <1>4, <1>5, <1>6, <2>1
    <3> QED
      BY <1>3, <3>1, <3>2
  <2>2. CASE t # id
    BY <1>2, <1>7, <1>9, <2>2 DEF ServersKept
  <2> QED
    BY <2>1, <2>2
<1>10. ServersKept(c)'
  BY <1>3, <1>8, <1>9 DEF ServersKept
<1>11. NodesKept(c)'
  <2>1. DOMAIN own'[c].nodes = {}
    BY <1>1 DEF RowsInv
  <2>2. NodesApart(nodes)'
    BY <1>3 DEF NamesInv
  <2> QED
    BY <2>1, <2>2, UntouchedKept
<1> QED
  BY <1>10, <1>11

\* A node keeps its server, and its names are met as those that it had.
LEMMA OldNodeFound ==
    ASSUME NEW c \in Commands, RowsApart(file[c]), ServersKept(c), NodesKept(c),
           NEW i \in 1..Len(file[c]), NEW u \in DOMAIN nodes
    PROVE  /\ u \in DOMAIN NodesSeen(c) /\ NodesSeen(c)[u].server = nodes[u].server
           /\ /\ nodes[u].server # NoServer
              /\ nodes[u].server \in DOMAIN Servers(c)
              /\ Meet(Servers(c)[nodes[u].server], file[c][i].server)
              => (Meet(NodesSeen(c)[u], file[c][i].node) <=> Meet(nodes[u], file[c][i].node))
<1>1. u \in DOMAIN NodesSeen(c)
  BY SeenParts
<1>2. CASE /\ NodesSeen(c)[u].name = nodes[u].name /\ NodesSeen(c)[u].alt = nodes[u].alt
           /\ NodesSeen(c)[u].server = nodes[u].server
  BY <1>1, <1>2 DEF Meet, Known
<1>3. ASSUME NEW j \in 1..Len(file[c]),
             NodesSeen(c)[u].name = file[c][j].node.name,
             NodesSeen(c)[u].alt = file[c][j].node.alt,
             NodesSeen(c)[u].server # NoServer =>
                /\ NodesSeen(c)[u].server \in DOMAIN Servers(c)
                /\ Meet(Servers(c)[NodesSeen(c)[u].server], file[c][j].server),
             NodesSeen(c)[u].server = nodes[u].server,
             Meet(nodes[u], file[c][j].node)
      PROVE  /\ nodes[u].server # NoServer
             /\ nodes[u].server \in DOMAIN Servers(c)
             /\ Meet(Servers(c)[nodes[u].server], file[c][i].server)
             => (Meet(NodesSeen(c)[u], file[c][i].node) <=> Meet(nodes[u], file[c][i].node))
  <2> SUFFICES ASSUME nodes[u].server # NoServer,
                      nodes[u].server \in DOMAIN Servers(c),
                      Meet(Servers(c)[nodes[u].server], file[c][i].server)
               PROVE  Meet(NodesSeen(c)[u], file[c][i].node) <=> Meet(nodes[u], file[c][i].node)
    OBVIOUS
  <2>1. file[c][i].server = file[c][j].server
    BY <1>3, SameServer
  <2>2. Meet(NodesSeen(c)[u], file[c][i].node) <=> Meet(file[c][j].node, file[c][i].node)
    BY <1>3 DEF Meet, Known
  <2>3. ASSUME Meet(file[c][j].node, file[c][i].node) PROVE Meet(nodes[u], file[c][i].node)
    <3>1. i = j
      BY <2>1, <2>3, RowsMeet
    <3> QED
      BY <1>3, <3>1
  <2>4. ASSUME Meet(nodes[u], file[c][i].node) PROVE Meet(file[c][j].node, file[c][i].node)
    <3>1. i = j
      BY <1>3, <2>1, <2>4, RowsMeet
    <3> QED
      BY <2>4, <3>1 DEF Meet
  <2> QED
    BY <2>2, <2>3, <2>4
<1> QED
  BY <1>1, <1>2, <1>3 DEF NodesKept

LEMMA WriteNodeKept ==
    ASSUME OneAtATime, FilesHaveRows, NodeTypes, NEW c \in Commands, NamesInv(c),
           KeptInv(c), WriteNode(c), ~Stop(c)
    PROVE  KeptInv(c)'
<1>1. PICK p \in pending[c] :
        /\ pc[c] = "write_node" /\ UNCHANGED <<tables, file>> /\ Servers(c)' = Servers(c)
        /\ NodesSeen(c)' =
            Put(NodesSeen(c),
                IF p[1] = NoServer THEN NextId(DOMAIN NodesSeen(c)) ELSE p[1],
                NodeOf(Row(c), p[2]))
  BY WriteNodeSees
<1> DEFINE id == IF p[1] = NoServer THEN NextId(DOMAIN NodesSeen(c)) ELSE p[1]
<1> DEFINE node == NodeOf(Row(c), p[2])
<1> SUFFICES ASSUME RowsApart(file[c]) PROVE ServersKept(c)' /\ NodesKept(c)'
  <2>1. UNCHANGED <<servers, nodes, file>>
    BY <1>1 DEF tables
  <2>2. RowsApart(file[c])' <=> RowsApart(file[c])
    BY <2>1 DEF RowsApart, Apart
  <2> QED
    BY <2>2 DEF KeptInv
<1>2. ServersKept(c) /\ NodesKept(c)
  BY DEF KeptInv
<1>3. /\ at[c] \in 1..Len(file[c]) /\ Row(c) = file[c][at[c]]
      /\ UNCHANGED <<servers, nodes, file>>
  BY <1>1 DEF NodeTypes, PlaceOK, Row, tables
<1>4. ServersKept(c)'
  BY <1>1, <1>2, <1>3 DEF ServersKept
<1>5. /\ p[1] = NoServer \/ (p[1] \in NodesOf(c, p[2]) /\ Meet(NodesSeen(c)[p[1]], Row(c).node))
      /\ \A n \in NodesOf(c, p[2]) : Meet(NodesSeen(c)[n], Row(c).node) => n = p[1]
      /\ NoServer \notin DOMAIN NodesSeen(c) /\ Numbered(DOMAIN NodesSeen(c))
      /\ p[2] # NoServer => p[2] \in DOMAIN Servers(c) /\ Meet(Servers(c)[p[2]], Row(c).server)
  BY <1>1 DEF NamesInv, Numbered, NoServer
<1>6. /\ node.name = Row(c).node.name /\ node.alt = Row(c).node.alt /\ node.server = p[2]
      /\ \A n : Meet(node, n) <=> Meet(Row(c).node, n)
      /\ \A n : Meet(n, node) <=> Meet(n, Row(c).node)
  BY DEF NodeOf, Meet, Known
<1>7. ASSUME NEW u \in DOMAIN nodes, nodes[u].server = p[2], p[2] # NoServer
      PROVE  /\ u \in NodesOf(c, p[2])
             /\ Meet(NodesSeen(c)[u], Row(c).node) <=> Meet(nodes[u], Row(c).node)
  <2>1. u \in DOMAIN NodesSeen(c) /\ NodesSeen(c)[u].server = nodes[u].server
    BY <1>2, <1>3, OldNodeFound
  <2>2. Meet(NodesSeen(c)[u], Row(c).node) <=> Meet(nodes[u], Row(c).node)
    BY <1>2, <1>3, <1>5, <1>7, OldNodeFound
  <2> QED
    BY <1>7, <2>1, <2>2 DEF NodesOf
<1>8. ASSUME id \in DOMAIN nodes
      PROVE  /\ nodes[id].server = p[2] /\ p[2] # NoServer
             /\ Meet(nodes[id], Row(c).node)
  <2>1. DOMAIN nodes \subseteq DOMAIN NodesSeen(c)
    BY SeenParts
  <2>2. id = p[1] /\ p[1] # NoServer
    BY <1>5, <1>8, <2>1, FreshId
  <2>3. NodesSeen(c)[id].server = p[2] /\ p[2] # NoServer /\ Meet(NodesSeen(c)[id], Row(c).node)
    BY <1>5, <2>2 DEF NodesOf
  <2>4. nodes[id].server = p[2]
    <3> HIDE DEF id
    <3> QED
      BY <1>2, <1>3, <1>8, <2>3, OldNodeFound
  <2> QED
    BY <1>7, <1>8, <2>3, <2>4
<1> HIDE DEF node
<1>9. id = NoServer => FALSE
  BY <1>5, FreshId DEF NoServer
<1>10. p[1] # NoServer => id = p[1]
  OBVIOUS
<1>11. /\ DOMAIN NodesSeen(c)' = DOMAIN NodesSeen(c) \cup {id}
       /\ NodesSeen(c)'[id] = node
       /\ \A n \in DOMAIN NodesSeen(c) \ {id} : NodesSeen(c)'[n] = NodesSeen(c)[n]
  BY <1>1 DEF Put, node
<1> HIDE DEF id
<1>12. ASSUME NEW m \in DOMAIN NodesSeen(c)', NEW u \in DOMAIN nodes,
              NodesSeen(c)'[m].server = nodes[u].server, nodes[u].server # NoServer,
              Meet(NodesSeen(c)'[m], nodes[u])
       PROVE  m = u
  <2>1. CASE m = id
    <3>1. nodes[u].server = p[2] /\ p[2] # NoServer /\ Meet(Row(c).node, nodes[u])
      BY <1>6, <1>11, <1>12, <2>1
    <3>2. Meet(nodes[u], Row(c).node)
      BY <3>1 DEF Meet
    <3>3. u = p[1] /\ u # NoServer
      BY <1>5, <1>7, <3>1, <3>2 DEF NodesOf
    <3> QED
      BY <1>10, <2>1, <3>3
  <2>2. CASE m # id
    BY <1>2, <1>11, <1>12, <2>2 DEF NodesKept
  <2> QED
    BY <2>1, <2>2
<1> DEFINE Kept(m, seen) ==
        \/ /\ m \in DOMAIN nodes
           /\ seen.name = nodes[m].name /\ seen.alt = nodes[m].alt
           /\ seen.server = nodes[m].server
        \/ \E i \in 1..Len(file[c]) :
            /\ seen.name = file[c][i].node.name
            /\ seen.alt = file[c][i].node.alt
            /\ seen.server # NoServer =>
                /\ seen.server \in DOMAIN Servers(c)
                /\ Meet(Servers(c)[seen.server], file[c][i].server)
            /\ m \in DOMAIN nodes =>
                /\ seen.server = nodes[m].server
                /\ nodes[m].server # NoServer
                /\ Meet(nodes[m], file[c][i].node)
<1>13. ASSUME NEW m \in DOMAIN NodesSeen(c)' PROVE Kept(m, NodesSeen(c)'[m])
  <2>1. CASE m = id
    <3>1. Kept(id, node)
      BY <1>3, <1>5, <1>6, <1>8
    <3> QED
      BY <1>11, <2>1, <3>1
  <2>2. CASE m # id
    <3>1. m \in DOMAIN NodesSeen(c) /\ NodesSeen(c)'[m] = NodesSeen(c)[m]
      BY <1>11, <1>13, <2>2
    <3>2. Kept(m, NodesSeen(c)[m])
      BY <1>2, <3>1 DEF NodesKept
    <3> HIDE DEF Kept
    <3> QED
      BY <3>1, <3>2
  <2> QED
    BY <2>1, <2>2
<1>14. NodesKept(c)'
  BY <1>1, <1>3, <1>12, <1>13 DEF NodesKept
<1> QED
  BY <1>4, <1>14

LEMMA MarkKept ==
    ASSUME NodeTypes, NEW c \in Commands, NamesInv(c), KeptInv(c), MarkInactive(c)
    PROVE  KeptInv(c)'
<1>1. /\ UNCHANGED <<servers, nodes, file>> /\ Servers(c)' = Servers(c)
      /\ DOMAIN NodesSeen(c)' = DOMAIN NodesSeen(c)
  BY MarkSees DEF tables
<1>2. ASSUME NEW n \in DOMAIN NodesSeen(c)
      PROVE  /\ NodesSeen(c)'[n].name = NodesSeen(c)[n].name
             /\ NodesSeen(c)'[n].alt = NodesSeen(c)[n].alt
             /\ NodesSeen(c)'[n].server = NodesSeen(c)[n].server
  BY MarkSees
<1>3. RowsApart(file[c])' <=> RowsApart(file[c])
  BY <1>1 DEF RowsApart, Apart
<1> SUFFICES ASSUME ServersKept(c), NodesKept(c) PROVE ServersKept(c)' /\ NodesKept(c)'
  BY <1>3 DEF KeptInv
<1>4. ServersKept(c)'
  BY <1>1 DEF ServersKept
<1>5. ASSUME NEW m \in DOMAIN NodesSeen(c), NEW u \in DOMAIN nodes,
             NodesSeen(c)'[m].server = nodes[u].server, nodes[u].server # NoServer,
             Meet(NodesSeen(c)'[m], nodes[u])
      PROVE  m = u
  <2>1. Meet(NodesSeen(c)[m], nodes[u]) /\ NodesSeen(c)[m].server = nodes[u].server
    BY <1>2, <1>5 DEF Meet, Known
  <2> QED
    BY <1>5, <2>1 DEF NodesKept
<1>6. NodesKept(c)'
  BY <1>1, <1>2, <1>5 DEF NodesKept
<1> QED
  BY <1>4, <1>6

LEMMA LookKept ==
    ASSUME NodeTypes, NEW c \in Commands, NamesInv(c), NamesInv(c)', RowsInv(c), KeptInv(c),
           ~Stop(c),
           \/ Start(c) \/ AddAttribute(c) \/ FindServerOfRow(c) \/ SeeNodes(c) \/ FindNodeOfRow(c)
    PROVE  KeptInv(c)'
<1>1. /\ UNCHANGED <<servers, nodes>>
      /\ own'[c].servers = own[c].servers /\ own'[c].nodes = own[c].nodes
      /\ Servers(c)' = Servers(c) /\ NodesSeen(c)' = NodesSeen(c)
  BY LookSees DEF tables
<1>2. CASE Start(c)
  <2>1. own[c] = NoChanges
    BY <1>2 DEF Start, NodeTypes, PlaceOK
  <2>2. DOMAIN own'[c].servers = {} /\ DOMAIN own'[c].nodes = {}
    BY <1>1, <2>1 DEF NoChanges, Empty
  <2>3. ServersApart(servers)' /\ NodesApart(nodes)'
    BY DEF NamesInv
  <2> QED
    BY <2>2, <2>3, UntouchedKept DEF KeptInv
<1>3. CASE ~Start(c)
  <2>1. file' = file
    BY <1>3 DEF AddAttribute, FindServerOfRow, SeeNodes, FindNodeOfRow
  <2>2. RowsApart(file[c])' <=> RowsApart(file[c])
    BY <1>1, <2>1 DEF RowsApart, Apart
  <2> SUFFICES ASSUME ServersKept(c), NodesKept(c) PROVE ServersKept(c)' /\ NodesKept(c)'
    BY <2>2 DEF KeptInv
  <2>3. ServersKept(c)'
    BY <1>1, <2>1 DEF ServersKept
  <2>4. NodesKept(c)'
    BY <1>1, <2>1 DEF NodesKept
  <2> QED
    BY <2>3, <2>4
<1> QED
  BY <1>2, <1>3

LEMMA StepKept ==
    ASSUME OneAtATime, FilesHaveRows, NodeTypes, NEW c \in Commands,
           NamesInv(c), NamesInv(c)', RowsInv(c), KeptInv(c), Step(c)
    PROVE  KeptInv(c)'
<1>1. CASE Stop(c)
  <2>1. DOMAIN own'[c].servers = {} /\ DOMAIN own'[c].nodes = {}
    BY <1>1, StopSees DEF NodeTypes
  <2>2. ServersApart(servers)' /\ NodesApart(nodes)'
    BY DEF NamesInv
  <2> QED
    BY <2>1, <2>2, UntouchedKept DEF KeptInv
<1>2. CASE ~Stop(c)
  BY <1>2, LookKept, WriteServerKept, MarkKept, WriteNodeKept DEF Step, Fail, Commit
<1> QED
  BY <1>1, <1>2

\* The invariant of one command.
OneInv == AllNames /\ \A c \in Commands : RowsInv(c) /\ KeptInv(c)

LEMMA InitOneInv == FilesHaveRows /\ Init => OneInv
<1> SUFFICES ASSUME FilesHaveRows, Init, NEW c \in Commands PROVE RowsInv(c) /\ KeptInv(c)
  BY InitAllNames DEF OneInv
<1>1. DOMAIN servers = {} /\ DOMAIN nodes = {} /\ pc[c] = "idle" /\ own[c] = NoChanges
  BY DEF Init, Empty
<1>2. DOMAIN own[c].servers = {} /\ DOMAIN own[c].nodes = {}
  BY <1>1 DEF NoChanges, Empty
<1>3. DOMAIN Servers(c) = {} /\ DOMAIN NodesSeen(c) = {}
  BY <1>1, <1>2, SeenParts
<1>4. ServersKept(c) /\ NodesKept(c)
  BY <1>1, <1>3 DEF ServersKept, NodesKept
<1> QED
  BY <1>1, <1>2, <1>4 DEF RowsInv, KeptInv

LEMMA NextOneInv ==
    ASSUME OneAtATime, FilesHaveRows, NamesArePairs, OneInv, [Next]_vars PROVE OneInv'
<1>1. AllNames'
  BY NextAllNames DEF OneInv
<1>2. CASE UNCHANGED vars
  <2> SUFFICES ASSUME NEW c \in Commands PROVE RowsInv(c)' /\ KeptInv(c)'
    BY <1>1 DEF OneInv
  <2>1. RowsInv(c) /\ KeptInv(c)
    BY DEF OneInv
  <2>2. /\ UNCHANGED <<servers, nodes, pc, file, at, pending, own>>
        /\ Servers(c)' = Servers(c) /\ NodesSeen(c)' = NodesSeen(c)
    BY <1>2, StutterSees
  <2>3. RowsInv(c)'
    BY <2>1, <2>2 DEF RowsInv, LastRow
  <2>4. RowsApart(file[c])' <=> RowsApart(file[c])
    BY <2>2 DEF RowsApart, Apart
  <2>5. (ServersKept(c) => ServersKept(c)') /\ (NodesKept(c) => NodesKept(c)')
    BY <2>2 DEF ServersKept, NodesKept
  <2> QED
    BY <2>1, <2>3, <2>4, <2>5 DEF KeptInv
<1>3. CASE Next
  <2>1. PICK c \in Commands : Step(c)
    BY <1>3 DEF Next, Step
  <2>2. NodeTypes /\ NamesInv(c) /\ NamesInv(c)' /\ RowsInv(c) /\ KeptInv(c)
    BY <1>1 DEF OneInv, AllNames
  <2>3. RowsInv(c)' /\ KeptInv(c)'
    BY <2>1, <2>2, StepRows, StepKept
  <2> QED
    BY <1>1, <2>3 DEF OneInv, OneAtATime
<1> QED
  BY <1>2, <1>3

\* dsv-nodes-update, one at a time: when it is done, a node is active only if a row of its
\* file was about it, whatever was active before.
THEOREM ListedAreActive ==
    OneAtATime /\ FilesHaveRows /\ NamesArePairs /\ Spec => [][OnlyListedActive]_vars
<1> SUFFICES ASSUME OneAtATime, FilesHaveRows, NamesArePairs
             PROVE  Spec => [][OnlyListedActive]_vars
  OBVIOUS
<1>1. OneInv => OnlyListedActive
  <2> SUFFICES ASSUME OneInv, NEW c \in Commands, Committing(c),
                      NEW id \in DOMAIN nodes', ~nodes'[id].inactive
               PROVE  \E i \in 1..Len(file[c]) :
                        /\ file[c][i].node = [name |-> nodes'[id].name, alt |-> nodes'[id].alt]
                        /\ file[c][i].details = nodes'[id].details
    BY DEF OnlyListedActive
  <2> QED
    BY DEF OneInv, RowsInv, Committing
<1>2. OneInv /\ [Next]_vars => OneInv'
  BY NextOneInv
<1>3. Init => OneInv
  BY InitOneInv
<1> QED
  BY <1>1, <1>2, <1>3, PTL DEF Spec

\* What the last row says can be looked up with any of its names, and nothing else can.
LEMMA LastFound ==
    ASSUME OneInv, FilesHaveRows, NEW c \in Commands, Committing(c),
           NEW s \in Known(LastRow(c).server), NEW n \in Known(LastRow(c).node)
    PROVE  \E id \in DOMAIN nodes' :
                /\ FindNodeId(s, n)' = {id}
                /\ nodes'[id].details = LastRow(c).details
                /\ ~nodes'[id].inactive
<1>1. pc[c] = "commit" /\ servers' = Servers(c) /\ nodes' = NodesSeen(c)
  BY DEF Committing
<1>2. PICK id \in DOMAIN nodes', t \in DOMAIN servers' :
        nodes'[id] = NodeOf(LastRow(c), t) /\ servers'[t] = LastRow(c).server
  BY <1>1 DEF OneInv, RowsInv
<1>3. /\ ServersApart(servers') /\ NodesApart(nodes')
      /\ NoServer \notin DOMAIN servers'
  BY <1>1 DEF OneInv, AllNames, NamesInv, Numbered, NoServer
<1>4. /\ nodes'[id].name = LastRow(c).node.name /\ nodes'[id].alt = LastRow(c).node.alt
      /\ nodes'[id].server = t /\ nodes'[id].details = LastRow(c).details
      /\ nodes'[id].inactive = FALSE
  BY <1>2 DEF NodeOf
<1>5. s \in Known(servers'[t]) /\ n \in Known(nodes'[id])
  BY <1>2, <1>4 DEF Known
<1>6. id \in FindNodeId(s, n)'
  BY <1>2, <1>4, <1>5 DEF FindNodeId
<1>7. ASSUME NEW x \in FindNodeId(s, n)' PROVE x = id
  <2>1. /\ x \in DOMAIN nodes' /\ n \in Known(nodes'[x])
        /\ nodes'[x].server \in DOMAIN servers' /\ s \in Known(servers'[nodes'[x].server])
    BY DEF FindNodeId
  <2>2. nodes'[x].server = t
    BY <1>3, <1>5, <2>1 DEF ServersApart, Meet
  <2>3. Meet(nodes'[x], nodes'[id])
    BY <1>5, <2>1 DEF Meet
  <2>4. t # NoServer
    BY <1>2, <1>3
  <2> QED
    BY <1>2, <1>3, <1>4, <2>1, <2>2, <2>3, <2>4 DEF NodesApart
<1>8. FindNodeId(s, n)' = {id}
  BY <1>6, <1>7
<1> QED
  BY <1>2, <1>4, <1>8

\* dsv-nodes-update, one at a time: when it is done, dsv-find-node-id finds the node of the
\* last row by any of its names and its server's, and only that, with what the row says of it.
THEOREM LastRowIsFound ==
    OneAtATime /\ FilesHaveRows /\ NamesArePairs /\ Spec => [][LastRowFound]_vars
<1> SUFFICES ASSUME OneAtATime, FilesHaveRows, NamesArePairs
             PROVE  Spec => [][LastRowFound]_vars
  OBVIOUS
<1>1. OneInv => LastRowFound
  BY LastFound DEF LastRowFound, LastRow
<1>2. OneInv /\ [Next]_vars => OneInv'
  BY NextOneInv
<1>3. Init => OneInv
  BY InitOneInv
<1> QED
  BY <1>1, <1>2, <1>3, PTL DEF Spec

\* dsv-nodes-update, one at a time: a file of any length whose rows do not share what they
\* are about gives no node's names to another, of its server or of a server renamed with it.
THEOREM RenamingKeepsIds ==
    OneAtATime /\ FilesHaveRows /\ NamesArePairs /\ Spec => [][RenameKeepsId]_vars
<1> SUFFICES ASSUME OneAtATime, FilesHaveRows, NamesArePairs
             PROVE  Spec => [][RenameKeepsId]_vars
  OBVIOUS
<1>1. OneInv => RenameKeepsId
  <2> SUFFICES ASSUME OneInv, NEW c \in Commands, Committing(c), RowsApart(file[c]),
                      NEW id \in DOMAIN nodes, nodes[id].server # NoServer,
                      NEW s \in Known(servers[nodes[id].server]), NEW n \in Known(nodes[id]),
                      NEW x \in FindNodeId(s, n)'
               PROVE  x = id
    BY DEF RenameKeepsId
  <2>1. /\ servers' = Servers(c) /\ nodes' = NodesSeen(c)
        /\ ServersKept(c) /\ NodesKept(c)
    BY DEF Committing, OneInv, KeptInv
  <2>2. /\ x \in DOMAIN NodesSeen(c) /\ n \in Known(NodesSeen(c)[x])
        /\ NodesSeen(c)[x].server \in DOMAIN Servers(c)
        /\ s \in Known(Servers(c)[NodesSeen(c)[x].server])
    BY <2>1 DEF FindNodeId
  <2>3. nodes[id].server \in DOMAIN servers
    BY DEF OneInv, AllNames, NodeTypes, TablesOK, NodeOK
  <2>4. NodesSeen(c)[x].server = nodes[id].server
    BY <2>1, <2>2, <2>3 DEF ServersKept, Meet
  <2>5. Meet(NodesSeen(c)[x], nodes[id])
    BY <2>2 DEF Meet
  <2> QED
    BY <2>1, <2>2, <2>4, <2>5 DEF NodesKept
<1>2. OneInv /\ [Next]_vars => OneInv'
  BY NextOneInv
<1>3. Init => OneInv
  BY InitOneInv
<1> QED
  BY <1>1, <1>2, <1>3, PTL DEF Spec

-----------------------------------------------------------------------------
(* NodeSelection                                                           *)

CONSTANTS Site, NodeTables

VARIABLES options, chosen, all

Sel == INSTANCE NodeSelection WITH Tables <- NodeTables, nodes <- options

\* A city is in one country, and a country in one region.
PlacesNested ==
    \A table \in NodeTables : \A m, n \in table :
        /\ m.city = n.city => m.country = n.country
        /\ m.country = n.country => m.region = n.region

\* No two nodes have one name, of whatever servers they are.
NamesApart ==
    \A table \in NodeTables : \A m, n \in table : m.name = n.name => m = n

\* What is chosen of each variable are options of what is chosen of the others, all of
\* them if All is chosen.
SelectionInv ==
    /\ options \in NodeTables
    /\ DOMAIN chosen = Sel!Levels
    /\ \A k \in Sel!Levels :
        /\ chosen[k] \subseteq Sel!Options(k, chosen)
        /\ all[k] => chosen[k] = Sel!Options(k, chosen)

LEMMA TheVariables ==
    /\ Site = "test" =>
        /\ Len(Sel!Variables) = 6 /\ Sel!Levels = 1..6 /\ Sel!Variables[6] = "name"
    /\ Site # "test" => Len(Sel!Variables) = 5 /\ Sel!Levels = 1..5
    /\ Sel!Variables[1] = "server" /\ Sel!Variables[2] = "region"
    /\ Sel!Variables[3] = "country" /\ Sel!Variables[4] = "city" /\ Sel!Variables[5] = "instance"
BY DEF Sel!Variables, Sel!Levels

\* HIDDEN and INACTIVE are different bits: the condition holds of each node.
LEMMA EachIsOffered == \A node : Sel!Offered(node)
BY DEF Sel!Offered, Sel!Mask, Sel!HIDDEN, Sel!HIDDEN_TEST, Sel!INACTIVE

LEMMA RefersBelow == \A k \in Sel!Levels : Sel!RefersTo(k) \subseteq 1..(k - 1)
<1> SUFFICES ASSUME NEW k \in Sel!Levels PROVE Sel!RefersTo(k) \subseteq 1..(k - 1)
  OBVIOUS
<1>1. CASE Site = "test"
  BY <1>1 DEF Sel!RefersTo
<1>2. CASE Site # "test"
  <2>1. k = 1 \/ k = 2 \/ k = 3 \/ k = 4 \/ k = 5
    BY <1>2, TheVariables
  <2> QED
    BY <1>2, <2>1 DEF Sel!RefersTo
<1> QED
  BY <1>1, <1>2

\* The options of a variable depend on what is chosen of those before it.
LEMMA OptionsFollow ==
    ASSUME NEW k \in Sel!Levels, NEW a, NEW b, \A j \in 1..(k - 1) : a[j] = b[j]
    PROVE  Sel!Options(k, a) = Sel!Options(k, b)
<1>1. \A j \in Sel!RefersTo(k) : a[j] = b[j]
  BY RefersBelow
<1> QED
  BY <1>1 DEF Sel!Options

\* What has been refreshed up to the variable m.
UpTo(m, level, values, new) ==
    /\ DOMAIN new = Sel!Levels /\ new[level] = values
    /\ \A k \in Sel!Levels : k < level => new[k] = chosen[k]
    /\ \A k \in Sel!Levels : level < k /\ k <= m => new[k] = Sel!Refreshed(k, new)

LEMMA OneMore ==
    ASSUME NEW m \in Nat, NEW n \in Nat, n = m + 1, NEW level \in Sel!Levels, NEW values, NEW new,
           UpTo(m, level, values, new)
    PROVE  UpTo(n, level, values, Sel!Refresh(n, level, new))
<1>1. Sel!Levels \subseteq Nat
  BY DEF Sel!Levels
<1>2. CASE n > level /\ n \in Sel!Levels
  <2> DEFINE then == Sel!Refresh(n, level, new)
  <2>1. /\ DOMAIN then = Sel!Levels /\ then[n] = Sel!Refreshed(n, new)
        /\ \A k \in Sel!Levels : k # n => then[k] = new[k]
    BY <1>2 DEF Sel!Refresh, UpTo
  <2> HIDE DEF then
  <2>2. \A k \in Sel!Levels : k <= n => Sel!Options(k, then) = Sel!Options(k, new)
    <3> SUFFICES ASSUME NEW k \in Sel!Levels, k <= n
                 PROVE  \A j \in 1..(k - 1) : then[j] = new[j]
      BY OptionsFollow
    <3> QED
      BY <1>1, <2>1 DEF Sel!Levels
  <2>3. \A k \in Sel!Levels : k <= n => Sel!Refreshed(k, then) = Sel!Refreshed(k, new)
    BY <2>2 DEF Sel!Refreshed
  <2>4. ASSUME NEW k \in Sel!Levels, level < k, k <= n PROVE then[k] = Sel!Refreshed(k, then)
    <3>1. CASE k = n
      BY <2>1, <2>3, <3>1
    <3>2. CASE k # n
      <4>1. k <= m
        BY <1>1, <2>4, <3>2
      <4> QED
        BY <2>1, <2>3, <2>4, <3>2, <4>1 DEF UpTo
    <3> QED
      BY <3>1, <3>2
  <2>5. /\ then[level] = values
        /\ \A k \in Sel!Levels : k < level => then[k] = chosen[k]
    BY <1>1, <1>2, <2>1 DEF UpTo
  <2>6. UpTo(n, level, values, then)
    BY <2>1, <2>4, <2>5 DEF UpTo
  <2> QED
    BY <2>6 DEF then
<1>3. CASE ~(n > level /\ n \in Sel!Levels)
  <2>1. Sel!Refresh(n, level, new) = new
    BY <1>3 DEF Sel!Refresh
  <2>2. \A k \in Sel!Levels : level < k /\ k <= n => k <= m
    BY <1>1, <1>3
  <2> QED
    BY <2>1, <2>2 DEF UpTo
<1> QED
  BY <1>2, <1>3

\* After a choice, each variable behind the one chosen of is as refreshed by the rest.
LEMMA AllRefreshed ==
    ASSUME SelectionInv, NEW level \in Sel!Levels, NEW values
    PROVE  UpTo(6, level, values, Sel!AfterChoice(level, values))
<1> DEFINE v1 == [chosen EXCEPT ![level] = values]
           v2 == Sel!Refresh(2, level, v1)
           v3 == Sel!Refresh(3, level, v2)
           v4 == Sel!Refresh(4, level, v3)
           v5 == Sel!Refresh(5, level, v4)
           v6 == Sel!Refresh(6, level, v5)
<1>1. UpTo(1, level, values, v1)
  BY DEF UpTo, SelectionInv, Sel!Levels
<1>7. v6 = Sel!AfterChoice(level, values)
  BY DEF Sel!AfterChoice
<1> HIDE DEF v1, v2, v3, v4, v5, v6
<1>2. UpTo(2, level, values, v2)
  BY <1>1, OneMore DEF v2
<1>3. UpTo(3, level, values, v3)
  BY <1>2, OneMore DEF v3
<1>4. UpTo(4, level, values, v4)
  BY <1>3, OneMore DEF v4
<1>5. UpTo(5, level, values, v5)
  BY <1>4, OneMore DEF v5
<1>6. UpTo(6, level, values, v6)
  BY <1>5, OneMore DEF v6
<1> QED
  BY <1>6, <1>7

LEMMA InitSelection == Sel!Init => SelectionInv
<1> SUFFICES ASSUME Sel!Init PROVE SelectionInv
  OBVIOUS
<1>1. ASSUME NEW k \in Sel!Levels PROVE chosen[k] = Sel!Options(k, chosen)
  <2>1. \A n \in options, j \in Sel!RefersTo(k) : n[Sel!Variables[j]] \in chosen[j]
    BY RefersBelow, EachIsOffered DEF Sel!Init, Sel!Levels
  <2> QED
    BY <2>1 DEF Sel!Init, Sel!Options
<1> QED
  BY <1>1 DEF Sel!Init, SelectionInv

LEMMA ChooseKeepsSelection ==
    ASSUME SelectionInv, NEW level \in Sel!Levels, NEW values, NEW isAll,
           values \subseteq Sel!Options(level, chosen),
           isAll => values = Sel!Options(level, chosen),
           Sel!Choose(level, values, isAll)
    PROVE  SelectionInv'
<1> DEFINE new == Sel!AfterChoice(level, values)
<1>1. /\ chosen' = new /\ options' = options
      /\ \A k \in Sel!Levels :
            all'[k] = IF k = level THEN isAll
                      ELSE all[k] \/ (k > level /\ chosen[k] \cap Sel!Options(k, new) = {})
  BY DEF Sel!Choose
<1>2. UpTo(6, level, values, new)
  BY AllRefreshed
<1> HIDE DEF new
<1>3. Sel!Levels \subseteq 1..6 /\ \A k \in Sel!Levels : \A j \in 1..(k - 1) : j \in Sel!Levels
  BY TheVariables
<1>4. \A k \in Sel!Levels : k <= level => Sel!Options(k, new) = Sel!Options(k, chosen)
  <2> SUFFICES ASSUME NEW k \in Sel!Levels, k <= level
               PROVE  \A j \in 1..(k - 1) : new[j] = chosen[j]
    BY OptionsFollow
  <2> QED
    BY <1>2, <1>3 DEF UpTo
<1>5. ASSUME NEW k \in Sel!Levels
      PROVE  new[k] \subseteq Sel!Options(k, new) /\ (all'[k] => new[k] = Sel!Options(k, new))
  <2>1. CASE k < level
    <3>1. new[k] = chosen[k] /\ Sel!Options(k, new) = Sel!Options(k, chosen)
      BY <1>2, <1>3, <1>4, <2>1 DEF UpTo
    <3>2. all'[k] => all[k]
      <4>1. k # level /\ ~(k > level)
        BY <1>3, <2>1
      <4> QED
        BY <1>1, <4>1, Zenon
    <3> QED
      BY <3>1, <3>2 DEF SelectionInv
  <2>2. CASE k = level
    <3>1. new[k] = values /\ Sel!Options(k, new) = Sel!Options(k, chosen)
      BY <1>2, <1>3, <1>4, <2>2 DEF UpTo
    <3>2. all'[k] => isAll
      BY <1>1, <2>2
    <3> QED
      BY <2>2, <3>1, <3>2
  <2>3. CASE k > level
    <3>1. new[k] = Sel!Refreshed(k, new)
      BY <1>2, <1>3, <2>3 DEF UpTo
    <3>2. all'[k] => all[k] \/ chosen[k] \cap Sel!Options(k, new) = {}
      <4>1. k # level
        BY <1>3, <2>3
      <4> QED
        BY <1>1, <4>1, Zenon
    <3> QED
      BY <3>1, <3>2 DEF Sel!Refreshed
  <2> QED
    BY <1>3, <2>1, <2>2, <2>3
<1>6. \A k : Sel!Options(k, new) = Sel!Options(k, chosen)'
  BY <1>1 DEF Sel!Options
<1>7. DOMAIN chosen' = Sel!Levels
  BY <1>1, <1>2 DEF UpTo
<1> QED
  BY <1>1, <1>5, <1>6, <1>7 DEF SelectionInv

LEMMA NextSelection ==
    ASSUME SelectionInv, [Sel!Next]_(Sel!vars) PROVE SelectionInv'
<1>1. CASE Sel!ChooseValues
  <2>1. PICK level \in Sel!Levels : \E values \in SUBSET Sel!Options(level, chosen) :
            Sel!Choose(level, values, FALSE)
    BY <1>1 DEF Sel!ChooseValues
  <2>2. PICK values \in SUBSET Sel!Options(level, chosen) : Sel!Choose(level, values, FALSE)
    BY <2>1
  <2> QED
    BY <2>2, ChooseKeepsSelection
<1>2. CASE Sel!ChooseAll
  <2>1. PICK level \in Sel!Levels : Sel!Choose(level, Sel!Options(level, chosen), TRUE)
    BY <1>2 DEF Sel!ChooseAll
  <2> QED
    BY <2>1, ChooseKeepsSelection
<1>3. CASE UNCHANGED Sel!vars
  BY <1>3 DEF Sel!vars, SelectionInv, Sel!Options
<1> QED
  BY <1>1, <1>2, <1>3 DEF Sel!Next

LEMMA SelectionInvariant == Sel!Spec => []SelectionInv
<1>1. SelectionInv /\ [Sel!Next]_(Sel!vars) => SelectionInv'
  BY NextSelection
<1> QED
  BY InitSelection, <1>1, PTL DEF Sel!Spec

\* Only nodes are plotted that have a chosen value of each variable, after any choices, though
\* the test site's fragment has two conditions only: as long as no two nodes have one name.
THEOREM ChosenArePlotted == (Site = "test" => NamesApart) /\ Sel!Spec => []Sel!OnlyChosen
<1> SUFFICES ASSUME Site = "test" => NamesApart PROVE Sel!Spec => []Sel!OnlyChosen
  OBVIOUS
<1>1. ASSUME SelectionInv PROVE Sel!OnlyChosen
  <2>1. CASE Site # "test"
    BY <2>1, TheVariables DEF Sel!OnlyChosen, Sel!Selected
  <2>2. CASE Site = "test"
    <3> SUFFICES ASSUME NEW node \in Sel!Selected, NEW k \in Sel!Levels
                 PROVE  node[Sel!Variables[k]] \in chosen[k]
      BY DEF Sel!OnlyChosen
    <3>1. /\ node \in options /\ node.name \in chosen[6]
          /\ Sel!Levels = 1..6 /\ Sel!Variables[6] = "name"
      BY <2>2, TheVariables DEF Sel!Selected
    <3>2. node.name \in Sel!Options(6, chosen)
      BY <1>1, <3>1 DEF SelectionInv
    <3>3. PICK n \in options : /\ n.name = node.name
                               /\ \A j \in 1..5 : n[Sel!Variables[j]] \in chosen[j]
      BY <2>2, <3>1, <3>2 DEF Sel!Options, Sel!RefersTo
    <3>4. n = node
      BY <1>1, <2>2, <3>1, <3>3 DEF NamesApart, SelectionInv
    <3> QED
      BY <3>1, <3>3, <3>4
  <2> QED
    BY <2>1, <2>2
<1> QED
  BY <1>1, SelectionInvariant, PTL

\* No option of the last variable leads to an empty plot, after any choices: on the main site,
\* as long as cities are in one country and countries in one region.
THEOREM OptionsHaveData == (Site # "test" => PlacesNested) /\ Sel!Spec => []Sel!NoEmptyOption
<1> SUFFICES ASSUME Site # "test" => PlacesNested PROVE Sel!Spec => []Sel!NoEmptyOption
  OBVIOUS
<1>1. ASSUME SelectionInv PROVE Sel!NoEmptyOption
  <2>1. CASE Site = "test"
    <3>1. /\ Len(Sel!Variables) = 6 /\ Sel!Levels = 1..6
          /\ Sel!RefersTo(6) = 1..5 /\ Sel!Variables[6] = "name"
      BY <2>1, TheVariables DEF Sel!RefersTo
    <3> SUFFICES ASSUME NEW value \in chosen[6]
                 PROVE  \E node \in Sel!Selected : node[Sel!Variables[6]] = value
      BY <3>1 DEF Sel!NoEmptyOption
    <3>2. value \in Sel!Options(6, chosen)
      BY <1>1, <3>1 DEF SelectionInv
    <3>3. PICK n \in options : /\ n[Sel!Variables[6]] = value
                               /\ \A j \in 1..5 : n[Sel!Variables[j]] \in chosen[j]
      BY <3>1, <3>2 DEF Sel!Options
    <3> QED
      BY <2>1, <3>3 DEF Sel!Selected
  <2>2. CASE Site # "test"
    <3>1. /\ Len(Sel!Variables) = 5 /\ Sel!Levels = 1..5
          /\ Sel!RefersTo(5) = {1, 4} /\ Sel!RefersTo(4) = {1, 3} /\ Sel!RefersTo(3) = {1, 2}
      BY <2>2, TheVariables DEF Sel!RefersTo
    <3> SUFFICES ASSUME NEW value \in chosen[5]
                 PROVE  \E node \in Sel!Selected : node[Sel!Variables[5]] = value
      BY <3>1 DEF Sel!NoEmptyOption
    <3>2. /\ chosen[5] \subseteq Sel!Options(5, chosen)
          /\ chosen[4] \subseteq Sel!Options(4, chosen)
          /\ chosen[3] \subseteq Sel!Options(3, chosen)
      BY <1>1, <3>1 DEF SelectionInv
    <3>3. PICK n \in options : /\ n[Sel!Variables[5]] = value
                               /\ n[Sel!Variables[1]] \in chosen[1]
                               /\ n[Sel!Variables[4]] \in chosen[4]
      BY <3>1, <3>2 DEF Sel!Options
    <3>4. PICK m \in options : /\ m[Sel!Variables[4]] = n[Sel!Variables[4]]
                               /\ m[Sel!Variables[3]] \in chosen[3]
      BY <3>1, <3>2, <3>3 DEF Sel!Options
    <3>5. n[Sel!Variables[3]] \in chosen[3]
      BY <1>1, <2>2, <3>4, TheVariables DEF PlacesNested, SelectionInv
    <3>6. PICK p \in options : /\ p[Sel!Variables[3]] = n[Sel!Variables[3]]
                               /\ p[Sel!Variables[2]] \in chosen[2]
      BY <3>1, <3>2, <3>5 DEF Sel!Options
    <3>7. n[Sel!Variables[2]] \in chosen[2]
      BY <1>1, <2>2, <3>6, TheVariables DEF PlacesNested, SelectionInv
    <3>8. \A k \in 1..5 : n[Sel!Variables[k]] \in chosen[k]
      <4>1. \A k \in 1..5 : k = 1 \/ k = 2 \/ k = 3 \/ k = 4 \/ k = 5
        OBVIOUS
      <4> QED
        BY <3>3, <3>5, <3>7, <4>1
    <3> QED
      BY <2>2, <3>3, <3>8 DEF Sel!Selected
  <2> QED
    BY <2>1, <2>2
<1> QED
  BY <1>1, SelectionInvariant, PTL

\* If only servers are chosen, all of their nodes are plotted, whatever was chosen before.
THEOREM ServersArePlotted == Sel!Spec => []Sel!WholeServers
<1>1. ASSUME SelectionInv PROVE Sel!WholeServers
  <2> SUFFICES ASSUME \A k \in Sel!Levels \ {1} : all[k]
               PROVE  Sel!Selected = {node \in options : node.server \in chosen[1]}
    BY DEF Sel!WholeServers
  <2>1. \A k \in Sel!Levels \ {1} : chosen[k] = Sel!Options(k, chosen)
    BY <1>1 DEF SelectionInv
  <2>2. ASSUME NEW node \in options, node.server \in chosen[1], NEW k \in Sel!Levels,
               \A j \in 1..(k - 1) : node[Sel!Variables[j]] \in chosen[j]
        PROVE  node[Sel!Variables[k]] \in chosen[k]
    <3>1. CASE k = 1
      BY <2>2, <3>1, TheVariables
    <3>2. CASE k # 1
      <4>1. \A j \in Sel!RefersTo(k) : node[Sel!Variables[j]] \in chosen[j]
        BY <2>2, RefersBelow
      <4>2. node[Sel!Variables[k]] \in Sel!Options(k, chosen)
        BY <4>1, EachIsOffered DEF Sel!Options
      <4> QED
        BY <2>1, <3>2, <4>2
    <3> QED
      BY <3>1, <3>2
  <2>3. ASSUME NEW node \in options, node.server \in chosen[1]
        PROVE  \A k \in Sel!Levels : node[Sel!Variables[k]] \in chosen[k]
    <3> DEFINE In(k) == k \in Sel!Levels => node[Sel!Variables[k]] \in chosen[k]
    <3>1. /\ Sel!Levels \subseteq 1..6
          /\ \A k \in Sel!Levels : \A j \in 1..(k - 1) : j \in Sel!Levels
      BY TheVariables
    <3>2. \A k \in Sel!Levels : (\A j \in 1..(k - 1) : In(j)) => In(k)
      BY <2>2, <2>3, <3>1
    <3> HIDE DEF In
    <3>3. In(1)
      BY <2>3, TheVariables DEF In
    <3>4. In(2)
      BY <3>2, <3>3 DEF In
    <3>5. In(3)
      BY <3>2, <3>3, <3>4 DEF In
    <3>6. In(4)
      BY <3>2, <3>3, <3>4, <3>5 DEF In
    <3>7. In(5)
      BY <3>2, <3>3, <3>4, <3>5, <3>6 DEF In
    <3>8. In(6)
      BY <3>2, <3>3, <3>4, <3>5, <3>6, <3>7 DEF In
    <3> QED
      BY <3>1, <3>3, <3>4, <3>5, <3>6, <3>7, <3>8 DEF In
  <2>4. ASSUME NEW node \in Sel!Selected
        PROVE  node \in options /\ node.server \in chosen[1]
    BY TheVariables DEF Sel!Selected
  <2>5. \A k \in (IF Site = "test" THEN {1, 6} ELSE 1..5) : k \in Sel!Levels
    BY TheVariables
  <2> QED
    BY <2>3, <2>4, <2>5 DEF Sel!Selected
<1> QED
  BY <1>1, SelectionInvariant, PTL
=============================================================================
