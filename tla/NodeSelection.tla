--------------------------- MODULE NodeSelection ----------------------------
(***************************************************************************)
(* The drop-downs above the dashboards, and the nodes whose data is        *)
(* plotted.  A dashboard has a list of variables; the options of each are  *)
(* what a query finds for the values chosen of others, and one SQL         *)
(* fragment selects the nodes.                                             *)
(*                                                                         *)
(* Grafana runs a variable's query again when one that it refers to has    *)
(* changed; of the values chosen before, those that still are options stay *)
(* chosen, or, if there are none, the first option, which is All.          *)
(***************************************************************************)
EXTENDS Integers, Sequences, FiniteSets

CONSTANTS
    Site,           \* "main" or "test"
    Tables          \* what the view node_text may be: sets of nodes

\* The bits of NodeFlag.
HIDDEN == {"hidden"}
HIDDEN_TEST == {"hidden_test"}
INACTIVE == {"inactive"}

VARIABLES
    nodes,          \* the view node_text
    chosen,         \* of each variable: the values that are chosen
    all             \* of each variable: All is chosen

vars == <<nodes, chosen, all>>

Variables ==
    <<"server", "region", "country", "city", "instance">> \o
        (IF Site = "test" THEN <<"name">> ELSE <<>>)

Levels == 1..Len(Variables)

\* COND_NOT_HIDDEN and COND_NOT_HIDDEN_TEST: the mask is the bitwise AND of two flags.
Mask == (IF Site = "test" THEN HIDDEN_TEST ELSE HIDDEN) \cap INACTIVE

Offered(node) == node.flags \cap Mask = {}

\* Faulty: the last variable does not depend on all of the others.
RefersToSome(level) ==
    IF Site = "test" THEN (IF level = 6 THEN {2, 3, 4} ELSE 1..(level - 1))
    ELSE CASE level = 1 -> {}
           [] level = 2 -> {1}
           [] level = 3 -> {1, 2}
           [] level = 4 -> {1, 3}
           [] level = 5 -> {1}

\* The variables that the query of a variable refers to.
RefersTo(level) ==
    IF Site = "test" THEN 1..(level - 1)
    ELSE CASE level = 1 -> {}
           [] level = 2 -> {1}
           [] level = 3 -> {1, 2}
           [] level = 4 -> {1, 3}
           [] level = 5 -> {1, 4}

Options(level, values) ==
    {node[Variables[level]] : node \in {n \in nodes :
        Offered(n) /\ \A k \in RefersTo(level) : n[Variables[k]] \in values[k]}}

\* Faulty: All is not expanded again.
RefreshedKept(k, new) ==
    IF chosen[k] \cap Options(k, new) = {} THEN Options(k, new)
    ELSE chosen[k] \cap Options(k, new)

\* What is chosen of a variable when its options are found again.
Refreshed(k, new) ==
    IF all[k] \/ chosen[k] \cap Options(k, new) = {} THEN Options(k, new)
    ELSE chosen[k] \cap Options(k, new)

\* A variable after the one that has changed is refreshed, one before it is not.
Refresh(k, level, new) ==
    IF k > level /\ k \in Levels THEN [new EXCEPT ![k] = Refreshed(k, new)] ELSE new

\* What is chosen after values, or All, were chosen of one variable.
AfterChoice(level, values) ==
    Refresh(6, level, Refresh(5, level, Refresh(4, level, Refresh(3, level,
        Refresh(2, level, [chosen EXCEPT ![level] = values])))))

Choose(level, values, isAll) ==
    LET new == AfterChoice(level, values) IN
    /\ chosen' = new
    /\ all' = [k \in Levels |->
                IF k = level THEN isAll
                ELSE all[k] \/ (k > level /\ chosen[k] \cap Options(k, new) = {})]
    /\ UNCHANGED nodes

Init ==
    /\ nodes \in Tables
    /\ chosen = [k \in Levels |-> {node[Variables[k]] : node \in {n \in nodes : Offered(n)}}]
    /\ all = [k \in Levels |-> TRUE]

ChooseValues ==
    \E level \in Levels : \E values \in SUBSET Options(level, chosen) :
        values # {} /\ Choose(level, values, FALSE)

ChooseAll == \E level \in Levels : Choose(level, Options(level, chosen), TRUE)

Next == ChooseValues \/ ChooseAll

Spec == Init /\ [][Next]_vars

-----------------------------------------------------------------------------

\* Faulty: the nodes of the instances, in whatever city.
SelectedInstance ==
    {node \in nodes :
        \A k \in (IF Site = "test" THEN {1, 6} ELSE {5}) : node[Variables[k]] \in chosen[k]}

\* NODE_SELECT_SQL and INSTANCE_SELECT_SQL: the nodes whose data is plotted.
Selected ==
    {node \in nodes :
        \A k \in (IF Site = "test" THEN {1, 6} ELSE 1..5) : node[Variables[k]] \in chosen[k]}

\* Only nodes that have a chosen value of each variable are plotted.
OnlyChosen == \A node \in Selected : \A k \in Levels : node[Variables[k]] \in chosen[k]

\* Each value chosen of the last variable has data: no option leads to an empty plot.
NoEmptyOption ==
    \A value \in chosen[Len(Variables)] :
        \E node \in Selected : node[Variables[Len(Variables)]] = value

\* If only servers are chosen, as by the URL of dsv-rssac-reports, all of their
\* nodes are plotted.
WholeServers ==
    (\A k \in Levels \ {1} : all[k]) =>
        Selected = {node \in nodes : node.server \in chosen[1]}
=============================================================================
