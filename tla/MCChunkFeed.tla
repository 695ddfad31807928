----------------------------- MODULE MCChunkFeed -----------------------------
(* One site's feed: instances for TLC. *)
EXTENDS ChunkFeed

CONSTANTS t1, t2

\* Two rounds may be out while the first volume is the newest; then one at a time.
TwoThenOne == <<2, 1, 1>>
TwoThroughout == <<2, 2, 2>>
=============================================================================
