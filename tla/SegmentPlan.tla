----------------------------- MODULE SegmentPlan -----------------------------
(***************************************************************************)
(* The pure half of squallar-egui/src/basemap_download.rs: how an area's   *)
(* tiles are cut into segments, and how a segment's spans are merged into  *)
(* reads.  A tile is a coordinate and the span of the archive that holds   *)
(* its bytes; several tiles may share a span.  Tiles the archive does not  *)
(* hold are in no plan, and are left out here.                             *)
(***************************************************************************)
EXTENDS Naturals, FiniteSets, Sequences, SequencesExt

CONSTANTS
    SegmentBytes,  \* the soft cap on a segment's distinct tile bytes
    CoalesceGap    \* COALESCE_GAP_BYTES

Span == [offset : Nat, length : Nat \ {0}]

ASSUME PlanAssumption == SegmentBytes \in Nat \ {0} /\ CoalesceGap \in Nat

\* What a set of spans weighs: the bytes they are of, counted.
BytesOf(spans) == UNION {{span} \X (1..span.length) : span \in spans}
Bytes(spans) == Cardinality(BytesOf(spans))
SpansOf(segment) == {segment[i].span : i \in DOMAIN segment}

\* plan_area's packing: a tile joins the open segment while the distinct spans fit,
\* and a tile too large for the cap is a segment on its own.
Pack(segments, tile) ==
    IF segments # <<>> /\ Bytes(SpansOf(Last(segments)) \cup {tile.span}) <= SegmentBytes
    THEN ReplaceAt(segments, Len(segments), Append(Last(segments), tile))
    ELSE Append(segments, <<tile>>)

\* The tiles come in ascending tile-id order.
PlanArea(tiles) ==
    LET plan[n \in 0..Len(tiles)] == IF n = 0 THEN <<>> ELSE Pack(plan[n - 1], tiles[n])
    IN  plan[Len(tiles)]

\* coalesce's first read: the spans from the lowest on, up to the first that begins
\* more than the gap after all before it end.
Reaches(span, other) ==
    span.offset < other.offset /\ other.offset <= span.offset + span.length + CoalesceGap
FirstRead(spans) ==
    {span \in spans : \A other \in spans :
        other.offset <= span.offset =>
            \/ \A least \in spans : other.offset <= least.offset
            \/ \E before \in spans : Reaches(before, other)}
=============================================================================
