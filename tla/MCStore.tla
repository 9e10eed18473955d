------------------------------- MODULE MCStore -------------------------------
(***************************************************************************)
(* The commands about what is stored, for TLC: dsv-prune and the           *)
(* partitions of ClickHouse; dsv-import's choice of files, by filters and  *)
(* in turn; and dsv-queue-details.  Each is explored for itself: what is   *)
(* running is chosen at first and stays, and the variables of the others   *)
(* stay as they are.                                                       *)
(***************************************************************************)
EXTENDS Prune, Sequences, TLC

CONSTANTS s1, s2, Global, NoText, n1, n2

VARIABLES
    running,        \* what is explored
    \* ImportChoice
    texts, store, given, ipc, server_filters, listing, unseen, nodefiles, turn, done,
    meantime,
    \* QueueReport
    place, dirs, table, qpc, counted, listed, info, stored, stayed

choiceVars ==
    <<texts, store, given, ipc, server_filters, listing, unseen, nodefiles, turn, done,
      meantime>>
queueVars == <<place, dirs, table, qpc, counted, listed, info, stored, stayed>>
storeVars == <<running, vars, choiceVars, queueVars>>

-----------------------------------------------------------------------------
(* Partitions: two servers and a table, or a server and two; both are also *)
(* of the larger Prune that is EXTENDed                                    *)

TwoServers == INSTANCE Prune WITH Tables <- {"raw"}

TwoTables ==
    INSTANCE Prune WITH Servers <- {s1}, Tables <- {"raw", "extra"}, Days <- {0, 2, 3}

-----------------------------------------------------------------------------
(* Filters: two nodes of a server, all filters of up to two instructions   *)
(* in any order for it, and of up to one for all servers; or three nodes   *)
(* of two servers, and few filters, which are edited meanwhile; or one of  *)
(* each server, and files that are queued again                            *)

Instruction(op, kind, names, date) == [op |-> op, kind |-> kind, args |-> names, date |-> date]

Name(op, kind, item) == Instruction(op, kind, {item}, 0)

Lines ==
    {Name(op, kind, "n1") : op \in {"include", "exclude"}, kind \in {"node", "import"}} \cup
    {Name("include", "server", "s1"), Name("exclude", "server", "s1"),
     Name("exclude", "server_import", "s1"),
     Instruction("start", "none", {}, 2), Instruction("end", "none", {}, 2),
     Instruction("enable", "none", {}, 0)}

Bad == Instruction("enable_pcpa", "none", {}, 0)

ShortTexts == {<<>>} \cup {<<a>> : a \in Lines}

AllTexts == ShortTexts \cup {<<a, b>> : a, b \in Lines}

FewTexts == {<<>>, <<Name("exclude", "import", "n1"), Name("include", "node", "n1")>>, <<Bad>>}

Com(source, from, to, dryrun) == [source |-> source, from |-> from, to |-> to, dryrun |-> dryrun]

Plain == {Com(source, 0, 0, FALSE) : source \in {"incoming", "cbor", "pcap"}}

Ranges == {Com("incoming", 0, 0, FALSE), Com("incoming", 0, 0, TRUE), Com("cbor", 2, 0, FALSE),
           Com("pcap", 0, 3, FALSE), Com("cbor", 2, 1, FALSE)}

Filters ==
    INSTANCE ImportChoice WITH
        Nodes <- {<<"s1", "n1">>, <<"s1", "n2">>}, Dates <- {1, 2}, Texts <- AllTexts,
        Commands <- Plain, Edited <- {}, Arriving <- {},
        command <- given, pc <- ipc, since <- meantime

Order ==
    INSTANCE ImportChoice WITH
        Nodes <- {<<"s1", "n1">>, <<"s1", "n2">>, <<"s2", "n1">>}, Dates <- {1, 2},
        Texts <- FewTexts, Commands <- Ranges,
        Edited <- {<<"s1", "dsv">>, <<Global, "dsv">>},
        Arriving <- {<<<<"s1", "n2">>, 2>>},
        command <- given, pc <- ipc, since <- meantime

Again == {Com(source, 0, 0, FALSE) : source \in {"error", "pending"}} \cup
         {Com("error", 2, 0, TRUE), Com("pending", 0, 0, TRUE)}

Relisted ==
    INSTANCE ImportChoice WITH
        Nodes <- {<<"s1", "n1">>, <<"s2", "n1">>}, Dates <- {1, 2}, Texts <- FewTexts,
        Commands <- Again, Edited <- {<<"s1", "dsv">>}, Arriving <- {},
        command <- given, pc <- ipc, since <- meantime

\* The second filter of s1 has an error, and is not read if there is a first one; all
\* files but the one that arrives are in one place.
Settled(Texts, GlobalTexts) ==
    /\ \E own \in Texts \cup {NoText}, global \in GlobalTexts \cup {NoText} :
        texts = [site \in {"s1", "s2", Global} |->
            [dsv |-> CASE site = "s1" -> own [] site = Global -> global [] OTHER -> NoText,
             inspector |-> IF site = "s1" THEN <<Bad>> ELSE NoText]]

AllIn(files) == \E d \in {"incoming", "cbor"} :
    store = [dir \in Order!Dirs |-> IF dir = d THEN files ELSE {}]

\* One node's files failed or wait in the first directories, the other's file in any of them.
Scattered == \E other \in Order!Dirs \ {"incoming", "cbor"} :
    store = [dir \in Order!Dirs |->
        (IF dir = other THEN {<<<<"s1", "n1">>, 1>>} ELSE {}) \cup
        (IF dir \in {"cdns-to-tsv", "incoming/pending"} THEN {<<"s2", "n1">>} \X {1, 2} ELSE {})]

-----------------------------------------------------------------------------
(* A queue: one file of a node that Postgres may know.  Files are counted  *)
(* independently of each other.                                            *)

Queue ==
    INSTANCE QueueReport WITH
        Files <- {1}, Nodes <- {n1, n2}, NodeOf <- [f \in {1} |-> n1],
        Reprocessing <- FALSE, pc <- qpc

-----------------------------------------------------------------------------

StoreInit ==
    /\ running \in {"partitions", "tables", "filters", "order", "again", "queue"}
    /\ IF running = "tables" THEN TwoTables!Init ELSE TwoServers!Init
    /\ running \notin {"partitions", "tables"} => parts = {}
    /\ CASE running = "filters" -> Settled(AllTexts, ShortTexts)
         [] running = "order" -> Settled(FewTexts, FewTexts)
         [] running = "again" -> Settled(FewTexts, {<<>>, <<Bad>>})
         [] OTHER -> Settled({}, {})
    /\ CASE running = "filters" -> AllIn(Filters!Files)
         [] running = "again" -> Scattered
         [] OTHER -> AllIn(Order!Files \ {<<<<"s1", "n2">>, 2>>})
    /\ running \notin {"filters", "order", "again"} => store["cbor"] = {}
    /\ IF running = "filters" THEN Filters!Idle ELSE Order!Idle
    /\ Queue!Init
    /\ running # "queue" => table = {} /\ dirs = {}

\* The command runs, and the user answers.
PruneStep ==
    /\ \/ running = "partitions" /\ TwoServers!CommandNext
       \/ running = "tables" /\ TwoTables!CommandNext
    /\ UNCHANGED <<running, choiceVars, queueVars>>

StoreNext ==
    /\ UNCHANGED running
    /\ \/ /\ \/ running = "partitions" /\ TwoServers!Next
             \/ running = "tables" /\ TwoTables!Next
          /\ UNCHANGED <<choiceVars, queueVars>>
       \/ /\ \/ running = "filters" /\ Filters!Next
             \/ running = "order" /\ Order!Next
             \/ running = "again" /\ Relisted!Next
          /\ UNCHANGED <<vars, queueVars>>
       \/ /\ running = "queue"
          /\ Queue!Next
          /\ UNCHANGED <<vars, choiceVars>>

StoreSpec == StoreInit /\ [][StoreNext]_storeVars /\ WF_storeVars(PruneStep)

-----------------------------------------------------------------------------
(* Properties of the components, for what is explored here                 *)

\* Prune: TypeOK, OldestAged, NothingLeft and Ends.

\* With --incremental and one table, each drop is begun while a server is short of space.
WhileShort == [][running = "partitions" => TwoServers!BegunWhileShort]_vars

\* What is decided for the files of a server is what two texts say that its filter and the
\* global filter had while the command ran, the same two for all of them; a command that
\* meets a filter with an error decides nothing from then on, and has decided nothing of
\* the files that it was listing.  In a listing no node starves another, and the files of a
\* node are taken from the most recent to the oldest.
ChoiceTrue ==
    /\ running = "filters" => Filters!DoneAsMeant
    /\ running = "order" =>
        Order!DoneAsMeant /\ Order!BadFilterStops /\ Order!InTurn /\ Order!NewestFirst
    /\ running = "again" =>
        /\ Relisted!DoneAsMeant /\ Relisted!BadFilterStops
        /\ Relisted!InTurn /\ Relisted!NewestFirst

\* What is queued all the while is counted, though it may move between the counts.
NoneMissed == Queue!NoneMissed
=============================================================================
