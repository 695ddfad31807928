---------------------------- MODULE MCLoopVolumes ----------------------------
(* A site's loop and its volumes: instances for TLC. *)
EXTENDS LoopVolumes

\* The listing names two volumes by 1 and 3. The second is also at 4, by which the
\* chunk feed files it: the time of its first radial.
Identity == 1 :> 2 @@ 3 :> 4 @@ 4 :> 4
=============================================================================
