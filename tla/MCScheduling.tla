---------------------------- MODULE MCScheduling ----------------------------
(* Scheduling for TLC: a job of one queue and a delayed job of another; one      *)
(* worker serves both queues, the other one only the second.                     *)
EXTENDS Scheduling, TLC

CONSTANTS j1, j2, w1, w2

MCQueueOf == (j1 :> "cdns-to-tsv") @@ (j2 :> "import-tsv")

MCIgnored == (w1 :> {}) @@ (w2 :> {"cdns-to-tsv"})
=============================================================================
