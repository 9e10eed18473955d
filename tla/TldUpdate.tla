----------------------------- MODULE TldUpdate ------------------------------
(***************************************************************************)
(* dsv-tld-update: the table of top level domains follows IANA's list.     *)
(* The command reads the list, then the table, asks for a page for each    *)
(* new internationalised name, and changes the table in one transaction.   *)
(*                                                                         *)
(* A statement of Postgres sees what other transactions have committed,    *)
(* and waits for a row that another transaction has changed.               *)
(***************************************************************************)
EXTENDS Integers, FiniteSets, Tables

CONSTANTS
    Names,          \* top level domains
    TwoLetters,     \* those of two letters
    Idn,            \* those that begin with xn--
    CountryPages,   \* those whose page has the text 'Country-code top-level domain'
    Legacy,         \* those that the first schema has
    Commands,       \* the commands that may run at once
    MaxLists        \* bound: how often the list changes

VARIABLES
    tld,            \* the table: type and U-label of each name
    list,           \* IANA's list
    lists,
    pc,
    listed,         \* tlds of each command
    known,          \* pg_tlds of each command
    todo,           \* what its loops have still to do
    inserted,       \* the rows that its transaction has inserted
    deleted,        \* and the names that it has deleted
    ulabels         \* the names whose U-label it has set

vars == <<tld, list, lists, pc, listed, known, todo, inserted, deleted, ulabels>>

\* The table may come from a schema that had no U-labels.
Init ==
    /\ tld \in {[n \in Legacy |-> [type |-> "Legacy-gTLD", ulabel |-> u]] : u \in BOOLEAN}
    /\ list = Legacy /\ lists = 0
    /\ pc = [c \in Commands |-> "idle"]
    /\ listed = [c \in Commands |-> {}] /\ known = [c \in Commands |-> {}]
    /\ todo = [c \in Commands |-> {}]
    /\ inserted = [c \in Commands |-> <<>>]
    /\ deleted = [c \in Commands |-> {}] /\ ulabels = [c \in Commands |-> {}]

\* IANA adds and removes names.
ListChanges ==
    /\ lists < MaxLists
    /\ lists' = lists + 1
    /\ list' \in (SUBSET Names) \ {{}, list}
    /\ UNCHANGED <<tld, pc, listed, known, todo, inserted, deleted, ulabels>>

Go(c, to) == pc' = [pc EXCEPT ![c] = to]

ReadList(c) ==
    /\ pc[c] = "idle"
    /\ listed' = [listed EXCEPT ![c] = list]
    /\ Go(c, "select")
    /\ UNCHANGED <<tld, list, lists, known, todo, inserted, deleted, ulabels>>

\* SELECT name FROM tld; from here on the names are known that are to be added and removed.
ReadTable(c) ==
    /\ pc[c] = "select"
    /\ known' = [known EXCEPT ![c] = DOMAIN tld]
    /\ todo' = [todo EXCEPT ![c] = DOMAIN tld]
    /\ inserted' = [inserted EXCEPT ![c] = <<>>]
    /\ deleted' = [deleted EXCEPT ![c] = {}]
    /\ ulabels' = [ulabels EXCEPT ![c] = {}]
    /\ Go(c, "labels")
    /\ UNCHANGED <<tld, list, lists, listed>>

Others(c) == Commands \ {c}

\* No other transaction has changed the row and not ended.
Free(c, name) ==
    \A d \in Others(c) : name \notin DOMAIN inserted[d] \cup deleted[d] \cup ulabels[d]

\* UPDATE ... WHERE ulabel IS null, for each name that was in the table.
SetLabel(c) ==
    /\ pc[c] = "labels"
    /\ \E name \in todo[c] :
        /\ Free(c, name)
        /\ todo' = [todo EXCEPT ![c] = @ \ {name}]
        /\ ulabels' = IF name \in DOMAIN tld /\ ~tld[name].ulabel
                      THEN [ulabels EXCEPT ![c] = @ \cup {name}] ELSE ulabels
    /\ UNCHANGED <<tld, list, lists, pc, listed, known, inserted, deleted>>

Labelled(c) ==
    /\ pc[c] = "labels" /\ todo[c] = {}
    /\ todo' = [todo EXCEPT ![c] = listed[c] \ known[c]]
    /\ Go(c, "add")
    /\ UNCHANGED <<tld, list, lists, listed, known, inserted, deleted, ulabels>>

\* Faulty: the page is not asked for.
TldTypeShort(name) == IF name \in TwoLetters THEN "ccTLD" ELSE "New-gTLD"

TldType(name) ==
    IF name \in TwoLetters \/ (name \in Idn /\ name \in CountryPages) THEN "ccTLD" ELSE "New-gTLD"

\* Names are unique: an INSERT of one that is there meanwhile fails.
Add(c) ==
    /\ pc[c] = "add"
    /\ \E name \in todo[c] :
        /\ Free(c, name) /\ name \notin DOMAIN tld
        /\ todo' = [todo EXCEPT ![c] = @ \ {name}]
        /\ inserted' = [inserted EXCEPT ![c] =
                            Put(@, name, [type |-> TldType(name), ulabel |-> TRUE])]
    /\ UNCHANGED <<tld, list, lists, pc, listed, known, deleted, ulabels>>

Added(c) ==
    /\ pc[c] = "add" /\ todo[c] = {}
    /\ todo' = [todo EXCEPT ![c] = known[c] \ listed[c]]
    /\ Go(c, "remove")
    /\ UNCHANGED <<tld, list, lists, listed, known, inserted, deleted, ulabels>>

Remove(c) ==
    /\ pc[c] = "remove"
    /\ \E name \in todo[c] :
        /\ Free(c, name)
        /\ todo' = [todo EXCEPT ![c] = @ \ {name}]
        /\ deleted' = [deleted EXCEPT ![c] = @ \cup {name}]
    /\ UNCHANGED <<tld, list, lists, pc, listed, known, inserted, ulabels>>

\* Faulty: the U-labels are those of new names only.
TableAfterNoLabels(c) ==
    [name \in (DOMAIN tld \cup DOMAIN inserted[c]) \ deleted[c] |->
        IF name \in DOMAIN inserted[c] THEN inserted[c][name] ELSE tld[name]]

TableAfter(c) ==
    [name \in (DOMAIN tld \cup DOMAIN inserted[c]) \ deleted[c] |->
        IF name \in DOMAIN inserted[c] THEN inserted[c][name]
        ELSE [tld[name] EXCEPT !.ulabel = @ \/ name \in ulabels[c]]]

Forget(c) ==
    /\ todo' = [todo EXCEPT ![c] = {}]
    /\ inserted' = [inserted EXCEPT ![c] = <<>>]
    /\ deleted' = [deleted EXCEPT ![c] = {}]
    /\ ulabels' = [ulabels EXCEPT ![c] = {}]

\* Faulty: what is removed is committed with what is added by then.
CommitEarly(c) ==
    /\ pc[c] = "remove"
    /\ tld' = TableAfter(c)
    /\ Forget(c) /\ Go(c, "idle")
    /\ UNCHANGED <<list, lists, listed, known>>

\* A dry run has printed what it would do, and changes nothing.
Commit(c) ==
    /\ pc[c] = "remove" /\ todo[c] = {}
    /\ tld' = TableAfter(c) \/ tld' = tld
    /\ Forget(c) /\ Go(c, "idle")
    /\ UNCHANGED <<list, lists, listed, known>>

\* The list, a page or the database fails, or a name is there meanwhile.
Fail(c) ==
    /\ pc[c] # "idle" /\ Go(c, "idle")
    /\ Forget(c)
    /\ UNCHANGED <<tld, list, lists, listed, known>>

Next ==
    \/ ListChanges
    \/ \E c \in Commands :
        \/ ReadList(c) \/ ReadTable(c) \/ SetLabel(c) \/ Labelled(c) \/ Add(c) \/ Added(c)
        \/ Remove(c) \/ Commit(c) \/ Fail(c)

Spec == Init /\ [][Next]_vars

-----------------------------------------------------------------------------

\* "TLDs no longer present in the IANA list are deleted. New TLDs are added": when the
\* table has changed, it has the names of the list that the command has read.
TableIsList ==
    \A c \in Commands : pc[c] = "remove" /\ tld' # tld /\ pc'[c] = "idle" =>
        DOMAIN tld' = listed[c]

\* A name that was added is a country's if its letters or its page say so, and its type
\* does not change while it is in the table.
TypesTrue ==
    \A name \in DOMAIN tld' : tld'[name].type =
        IF name \in DOMAIN tld THEN tld[name].type
        ELSE IF name \in TwoLetters \cup (Idn \cap CountryPages) THEN "ccTLD"
        ELSE "New-gTLD"

\* After a change, every name has its U-label.
LabelsSet == tld' # tld => \A name \in DOMAIN tld' : tld'[name].ulabel
=============================================================================
