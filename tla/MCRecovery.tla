----------------------------- MODULE MCRecovery -----------------------------
(* Recovery for TLC: workers are interchangeable, which the runs that check    *)
(* no liveness property may use.                                               *)
EXTENDS RecoveryInvariant, TLC

WorkerSymmetry == Permutations(Workers)
=============================================================================
