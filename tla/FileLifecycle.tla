---------------------------- MODULE FileLifecycle ----------------------------
(***************************************************************************)
(* What the import pipeline promises of each C-DNS file, whatever workers, *)
(* queues and retries it takes: a received file that dsv.filter wants is   *)
(* queued and then either loaded into the database or set aside as failed; *)
(* a file never slips back, and never leaves the pipeline in between.      *)
(***************************************************************************)
CONSTANTS Files, Wanted

VARIABLE stage

Stages == {"absent", "received", "archived", "queued", "loaded", "rejected"}

Init == stage = [f \in Files |-> "absent"]

Move(f, from, to) == stage[f] = from /\ stage' = [stage EXCEPT ![f] = to]

Receive(f) == Move(f, "absent", "received")

Archive(f) == f \notin Wanted /\ Move(f, "received", "archived")

Enqueue(f) == f \in Wanted /\ Move(f, "received", "queued")

Load(f) == Move(f, "queued", "loaded")

Reject(f) == Move(f, "queued", "rejected")

Next ==
    \E f \in Files : Receive(f) \/ Archive(f) \/ Enqueue(f) \/ Load(f) \/ Reject(f)

Spec == Init /\ [][Next]_stage
=============================================================================
