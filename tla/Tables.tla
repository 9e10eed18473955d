------------------------------- MODULE Tables -------------------------------
(***************************************************************************)
(* Tables of a database, and directories of files: functions from what     *)
(* identifies a row.                                                       *)
(***************************************************************************)

\* INSERT of a row, or UPDATE of the one that is there.
Put(table, id, row) == [k \in DOMAIN table \cup {id} |-> IF k = id THEN row ELSE table[k]]

\* The table as a transaction sees it that has made these changes.
Over(changes, table) ==
    [k \in DOMAIN changes \cup DOMAIN table |->
        IF k \in DOMAIN changes THEN changes[k] ELSE table[k]]
=============================================================================
