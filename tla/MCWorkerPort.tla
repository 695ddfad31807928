---------------------------- MODULE MCWorkerPort ----------------------------
(* The funnel over the browser's worker and tile lane: instances for TLC. *)
EXTENDS WorkerPort

CONSTANTS j1, t1

\* A render and a tile batch, or the render beside an idle lane.
RenderAndBatch == {j1, t1}
Batch == {t1}
RenderOnly == {j1}
NoBatch == {}

=============================================================================
