------------------------------ MODULE SchemaLog ------------------------------
(***************************************************************************)
(* What dsv-clickhouse-update and dsv-postgres-update promise: versions of *)
(* the schema are applied one at a time, each once, and only the highest   *)
(* of them is ever taken back.                                             *)
(***************************************************************************)
EXTENDS Integers

CONSTANT Versions

VARIABLE applied    \* the versions that are applied

Init == applied = {}

Apply(v) == v \notin applied /\ applied' = applied \cup {v}

Rollback(v) ==
    /\ v \in applied
    /\ \A u \in applied : u <= v
    /\ applied' = applied \ {v}

Next == \E v \in Versions : Apply(v) \/ Rollback(v)

Spec == Init /\ [][Next]_applied
=============================================================================
