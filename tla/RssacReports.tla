---------------------------- MODULE RssacReports ----------------------------
(***************************************************************************)
(* dsv-rssac-reports: the files that one command after another writes into *)
(* the directory of the month.  What a YAML file says of a day is in       *)
(* RssacFigures; here it is written whole, cut short, or of another day.   *)
(***************************************************************************)
EXTENDS Integers, Sequences, Tables

CONSTANTS
    Dates,          \* the days that reports are for: numbers
    Month,          \* the month of each
    Offset,         \* of each day: how many hours local time is ahead of UTC
    Reports,        \* REPORTS, in its order
    LoadTime,       \* the one that may be missing data
    Panels,         \* PANELS: of each report, the labels of its plots in order
    Queries,        \* of each report: how many queries its YAML file needs
    Dotted,         \* the prefix of the files has a '.' in it
    MaxRuns         \* bound: how many commands are run

NoCommand == [wanted |-> <<>>, failed |-> FALSE, exit |-> 0]

VARIABLES
    files,          \* the files that there are: what was written last
    missing,        \* the days on which a serial did not reach the threshold
    runs,
    pc,
    command,        \* the options of the command, and how it ended
    todo,           \* the reports that main has still to do
    panels,         \* the plots that make_report_panels has still to do
    queries,        \* the queries that make_yaml has still to do
    complete,       \* ok_data of make_yaml
    okData          \* ok_data of main

vars == <<files, missing, runs, pc, command, todo, panels, queries, complete, okData>>

Init ==
    /\ files = <<>>
    /\ missing \in SUBSET Dates
    /\ runs = 0
    /\ pc = "idle"
    /\ command = NoCommand
    /\ todo = <<>> /\ panels = <<>> /\ queries = 0
    /\ complete = TRUE /\ okData = TRUE

\* Faulty: the name has no date.
FileUndated(report, date, label) ==
    <<Month[date], report>> \o (IF Dotted THEN <<label = "yaml">> ELSE <<label>>)

\* A directory of the month and report; with_suffix replaces what follows the last '.'
\* of the name, date, report and label included if the prefix has one.
File(report, date, label) ==
    <<Month[date], report>> \o (IF Dotted THEN <<label = "yaml">> ELSE <<date, label>>)

\* What the file is about: a plot goes from midnight to midnight in local time.
Content(report, date, label, whole) ==
    [report |-> report, date |-> date, label |-> label, whole |-> whole,
     start |-> 24 * date - (IF label = "yaml" THEN 0 ELSE Offset[date])]

Write(label, whole) ==
    files' = Put(files, File(Head(todo), command.date, label),
                 Content(Head(todo), command.date, label, whole))

Start ==
    /\ pc = "idle" /\ runs < MaxRuns
    /\ \E date \in Dates, wanted \in {Reports} \cup {<<Reports[k]>> : k \in DOMAIN Reports},
          plots, yaml \in BOOLEAN :
        /\ command' = [date |-> date, wanted |-> wanted, plots |-> plots, yaml |-> yaml,
                       failed |-> FALSE, exit |-> 0]
        /\ todo' = wanted
    /\ runs' = runs + 1
    /\ okData' = TRUE
    /\ pc' = "next"
    /\ UNCHANGED <<files, missing, panels, queries, complete>>

\* make_report is called only if ok_data still is true.
MakeReport ==
    /\ pc = "next" /\ todo # <<>> /\ okData
    /\ panels' = IF command.plots THEN Panels[Head(todo)] ELSE <<>>
    /\ pc' = "panels"
    /\ UNCHANGED <<files, missing, runs, command, todo, queries, complete, okData>>

SkipReport ==
    /\ pc = "next" /\ todo # <<>> /\ ~okData
    /\ todo' = Tail(todo)
    /\ UNCHANGED <<files, missing, runs, pc, command, panels, queries, complete, okData>>

\* make_report_panel opens the file before the URL.
OpenPanel ==
    /\ pc = "panels" /\ panels # <<>>
    /\ Write(Head(panels), FALSE)
    /\ pc' = "fetch"
    /\ UNCHANGED <<missing, runs, command, todo, panels, queries, complete, okData>>

FetchPanel ==
    /\ pc = "fetch"
    /\ Write(Head(panels), TRUE)
    /\ panels' = Tail(panels)
    /\ pc' = "panels"
    /\ UNCHANGED <<missing, runs, command, todo, queries, complete, okData>>

MakeYaml ==
    /\ pc = "panels" /\ panels = <<>> /\ command.yaml
    /\ queries' = Queries[Head(todo)]
    /\ complete' = TRUE
    /\ pc' = "query"
    /\ UNCHANGED <<files, missing, runs, command, todo, panels, okData>>

NoYaml ==
    /\ pc = "panels" /\ panels = <<>> /\ ~command.yaml
    /\ todo' = Tail(todo)
    /\ pc' = "next"
    /\ UNCHANGED <<files, missing, runs, command, panels, queries, complete, okData>>

Query ==
    /\ pc = "query" /\ queries > 0
    /\ queries' = queries - 1
    /\ complete' = (complete /\ ~(Head(todo) = LoadTime /\ command.date \in missing))
    /\ UNCHANGED <<files, missing, runs, pc, command, todo, panels, okData>>

OpenYaml ==
    /\ pc = "query" /\ queries = 0
    /\ Write("yaml", FALSE)
    /\ pc' = "write"
    /\ UNCHANGED <<missing, runs, command, todo, panels, queries, complete, okData>>

\* Faulty: missing data is only logged.
WriteYamlOnly ==
    /\ pc = "write"
    /\ Write("yaml", TRUE)
    /\ todo' = Tail(todo)
    /\ pc' = "next"
    /\ UNCHANGED <<missing, runs, command, panels, queries, complete, okData>>

WriteYaml ==
    /\ pc = "write"
    /\ Write("yaml", TRUE)
    /\ okData' = complete
    /\ todo' = Tail(todo)
    /\ pc' = "next"
    /\ UNCHANGED <<missing, runs, command, panels, queries, complete>>

End ==
    /\ pc = "next" /\ todo = <<>>
    /\ command' = [command EXCEPT !.exit = IF okData THEN 0 ELSE 1]
    /\ pc' = "idle"
    /\ UNCHANGED <<files, missing, runs, todo, panels, queries, complete, okData>>

\* A directory, a file, Grafana or ClickHouse fails.
Fail ==
    /\ \/ pc = "next" /\ todo # <<>> /\ okData
       \/ pc \in {"panels", "fetch", "query", "write"}
    /\ command' = [command EXCEPT !.failed = TRUE, !.exit = 1]
    /\ pc' = "idle"
    /\ todo' = <<>> /\ panels' = <<>> /\ queries' = 0
    /\ UNCHANGED <<files, missing, runs, complete, okData>>

Next ==
    \/ Start \/ MakeReport \/ SkipReport \/ OpenPanel \/ FetchPanel \/ MakeYaml \/ NoYaml
    \/ Query \/ OpenYaml \/ WriteYaml \/ End \/ Fail

Spec == Init /\ [][Next]_vars

-----------------------------------------------------------------------------

Ended == pc = "idle" /\ command # NoCommand

Wants(report) == \E k \in DOMAIN command.wanted : command.wanted[k] = report

Labels(report) ==
    (IF command.plots THEN {Panels[report][k] : k \in DOMAIN Panels[report]} ELSE {})
        \cup (IF command.yaml THEN {"yaml"} ELSE {})

Generated(report) ==
    \A label \in Labels(report) :
        LET file == File(report, command.date, label) IN
        /\ file \in DOMAIN files
        /\ files[file].whole
        /\ files[file].date = command.date /\ files[file].label = label

\* "Non-zero on any error, or if any YAML report is missing data", and only then; with
\* 0, all the files that the options ask for are there, whole and of that day.
ExitTells ==
    Ended =>
        /\ (command.exit # 0) <=>
            (command.failed \/ (command.yaml /\ Wants(LoadTime) /\ command.date \in missing))
        /\ command.exit = 0 => \A report \in {Reports[k] : k \in DOMAIN Reports} :
            Wants(report) => Generated(report)

\* A command replaces its own report, of that day, and no other file.
OthersKept ==
    \A file \in DOMAIN files :
        /\ file \in DOMAIN files'
        /\ files'[file].date = files[file].date
        /\ files'[file].label = files[file].label
=============================================================================
