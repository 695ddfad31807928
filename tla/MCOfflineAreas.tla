---------------------------- MODULE MCOfflineAreas ---------------------------
(* The offline areas of a device: instances for TLC. *)
EXTENDS OfflineAreas

\* The first and the last tile share a span, and the cap makes two segments of the
\* four tiles; the newer archive makes two others. At 0 and 2 are one read, and 9 another.
Span0 == [offset |-> 0, length |-> 2]
Span2 == [offset |-> 2, length |-> 2]
Span9 == [offset |-> 9, length |-> 1]
Tile(t, span) == [tile |-> t, span |-> span]
OldBasemap == <<Tile(1, Span0), Tile(2, Span2), Tile(3, Span9), Tile(4, Span0)>>
NewBasemap == <<Tile(1, Span0), Tile(2, [offset |-> 2, length |-> 3])>>
Hillshade == <<Tile(1, Span0)>>
TwoArchives == [g \in {1, 2} |-> [h \in {"Basemap", "Terrain"} |->
    CASE h = "Basemap" -> IF g = 1 THEN OldBasemap ELSE NewBasemap
      [] h = "Terrain" -> IF g = 1 THEN Hillshade ELSE <<>>]]
=============================================================================
