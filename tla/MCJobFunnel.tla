----------------------------- MODULE MCJobFunnel -----------------------------
(* The funnel alone, its sinks left open: instances for TLC. *)
EXTENDS JobFunnel

=============================================================================
