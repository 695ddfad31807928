------------------------------ MODULE MCJobPool ------------------------------
(* The funnel over the native pool: the instance TLC checks. *)
EXTENDS JobPool

CONSTANTS j1, j2, k1, d1, d2, o1

\* Two renders share the described lane and its two threads; a map job has its own.
MCJobs == {j1, j2, k1}
MCInteractive == {k1}
MCRdJob == {d1, d2}
MCRdOpaque == {o1}

=============================================================================
