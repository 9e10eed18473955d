----------------------------- MODULE MCPipeline -----------------------------
(* Pipeline for TLC: workers are interchangeable, which the runs that check    *)
(* no liveness property may use.                                               *)
EXTENDS PipelineInvariant, TLC

WorkerSymmetry == Permutations(Workers)
=============================================================================
