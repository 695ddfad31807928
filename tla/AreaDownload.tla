---------------------------- MODULE AreaDownload -----------------------------
(***************************************************************************)
(* The offline-area engine of squallar-egui/src/basemap_download.rs and    *)
(* the native store it publishes into.                                     *)
(*                                                                         *)
(* A run lists what the store holds of its area, cuts the area against the *)
(* archive, fetches, writes, verifies and publishes the segments that are  *)
(* missing, and says how that went.  Each run is a thread of its own and   *)
(* two may be alive at once.  A file is opened, filled and renamed in      *)
(* steps of their own, and a file still being written when the process     *)
(* dies stays torn.                                                        *)
(***************************************************************************)
EXTENDS SegmentPlan, FiniteSetsExt

CONSTANTS
    Areas,        \* area ids
    Generations,  \* the archive generations that are ever live
    Archive,      \* [Generations -> [Halves -> the area's tiles, in tile-id order]]
    Slots,        \* the runs that may be alive at once: a bound
    None

Halves == {"Basemap", "Terrain"}

VARIABLES
    disk,    \* the store's directory: a file for each name in its domain
    engines  \* the run each slot is of, or None

\* What plan_area answers; segments are numbered from 1 here.
Cuts == [g \in Generations |-> [h \in Halves |-> PlanArea(Archive[g][h])]]
Segments == UNION {DOMAIN Cuts[g][h] : g \in Generations, h \in Halves}

ASSUME ArchiveAssumption ==
    \A g \in Generations, h \in Halves : Archive[g][h] \in Seq([tile : Nat, span : Span])
ASSUME SlotsAssumption == None \notin Slots

\* {area_id}.{seg}{infix}.part and .pmtiles.
Name == [area : Areas, half : Halves, seg : Segments, kind : {"part", "pmtiles"}]

\* The slots in writing have the file open; torn is what a write that never ended left.
File == [gen : Generations, writing : SUBSET Slots, torn : BOOLEAN]
Whole(f) == f.writing = {} /\ ~f.torn

\* What one run came to; running until then.
Outcome == {"running", "Complete", "Partial", "Failed"}

AllSpans == UNION {SpansOf(Archive[g][h]) : g \in Generations, h \in Halves}

\* Run, Planned, Ledger and RunEnd together.
Run == [area : Areas, gen : Generations, terrain : BOOLEAN,
        pc : {"basemap", "terrain", "fetch", "write", "rename", "ended"},
        planned : SUBSET Halves,
        half : Halves,                     \* the archive being built
        missing : [Halves -> SUBSET Segments],   \* less those the run is past
        held : SUBSET AllSpans,            \* the spans carried
        moved : [Halves -> Nat],           \* bytes_done, for each archive
        due : Nat, total : Nat,            \* bytes_total, segments_total
        done : Nat,                        \* segments_done
        failed : BOOLEAN,                  \* first_error is set
        outcome : Outcome,
        swept : BOOLEAN]                   \* auxiliary: a removal took a file under it

DownloadInit ==
    /\ disk = [n \in {} |-> None]
    /\ engines = [e \in Slots |-> None]

NewRun(a, g, terrain) ==
    [area |-> a, gen |-> g, terrain |-> terrain, pc |-> "basemap", planned |-> {},
     half |-> "Basemap", missing |-> [h \in Halves |-> {}], held |-> {},
     moved |-> [h \in Halves |-> 0], due |-> 0, total |-> 0, done |-> 0, failed |-> FALSE,
     outcome |-> "running", swept |-> FALSE]

-----------------------------------------------------------------------------
(* FsSegmentStore. *)

\* The segment the run is on: they come in the cut's order.
Current(r) == Min(r.missing[r.half])
NameOf(a, h, s, kind) == [area |-> a, half |-> h, seg |-> s, kind |-> kind]
\* In the mutant a segment is written straight under its published name.
InPlace(r) == NameOf(r.area, r.half, Min(r.missing[r.half]), "pmtiles")
PartOf(r) == NameOf(r.area, r.half, Current(r), "part")
Published(part) == [part EXCEPT !.kind = "pmtiles"]

Without(files, n) == [m \in DOMAIN files \ {n} |-> files[m]]
With(files, n, f) == [m \in DOMAIN files \cup {n} |-> IF m = n THEN f ELSE files[m]]

\* existing_segments: a .part is never listed.
Listed(a, h) ==
    {n.seg : n \in {m \in DOMAIN disk : m.area = a /\ m.half = h /\ m.kind = "pmtiles"}}

\* std::fs::write opens the path and truncates what is there, which another writer may
\* have open as well.
Opened(files, n, e, g) ==
    With(files, n, [gen |-> g, torn |-> FALSE,
                    writing |-> {e} \cup (IF n \in DOMAIN files THEN files[n].writing ELSE {})])

\* The end of e's write, into whatever name its file has by now.
Closed(e, torn) ==
    [n \in DOMAIN disk |->
        IF e \in disk[n].writing
        THEN [disk[n] EXCEPT !.writing = @ \ {e}, !.torn = @ \/ torn]
        ELSE disk[n]]

-----------------------------------------------------------------------------
(* A run. *)

Spans(r, segments) == UNION {SpansOf(Cuts[r.gen][r.half][s]) : s \in segments}
Needed(r) == Spans(r, {Current(r)}) \ r.held

\* In the mutant nothing is carried from one segment to the next.
CarriesNothing(r) == {}

\* The retain at the foot of build_archive's loop, by last_use.
Carried(r) == r.held \cap Spans(r, r.missing[r.half] \ {Current(r)})

\* The fold of drive's end.
Verdict(r) == IF ~r.failed THEN "Complete" ELSE IF r.done = 0 THEN "Failed" ELSE "Partial"

Ended(r) == [r EXCEPT !.pc = "ended", !.held = {}, !.outcome = Verdict(r)]

\* To the next missing segment, from one archive's build into the other's, or to the end.
Proceed(r) ==
    IF r.missing[r.half] # {} THEN [r EXCEPT !.pc = "fetch"]
    ELSE IF r.missing["Terrain"] # {} THEN [r EXCEPT !.half = "Terrain", !.held = {}, !.pc = "fetch"]
    ELSE Ended(r)

Past(r) == [r.missing EXCEPT ![r.half] = @ \ {Current(r)}]

\* In the mutant a segment's error is only logged.
SegmentEndsSilently(r, ok) ==
    Proceed([r EXCEPT !.done = IF ok THEN @ + 1 ELSE @, !.held = Carried(r), !.missing = Past(r)])

\* One pass of build_archive's loop: a segment fails on its own.
SegmentEnds(r, ok) ==
    Proceed([r EXCEPT !.done = IF ok THEN @ + 1 ELSE @, !.failed = @ \/ ~ok,
                      !.held = Carried(r), !.missing = Past(r)])

\* prepare's tail: the cut, less what the store holds of this half.
Planned(r, h, existing) ==
    LET cut == DOMAIN Cuts[r.gen][h]
    IN  [r EXCEPT !.planned = @ \cup {h}, !.missing = [@ EXCEPT ![h] = cut \ existing],
                  !.done = @ + Cardinality(cut \cap existing)]

RunBytes(r, h) == Bytes(UNION {SpansOf(Cuts[r.gen][h][s]) : s \in r.missing[h]})

\* Both archives are planned: the denominators, once, and the first build.
Building(r) ==
    Proceed([r EXCEPT !.due = RunBytes(r, "Basemap") + RunBytes(r, "Terrain"),
                      !.total = Len(Cuts[r.gen]["Basemap"])
                                + IF "Terrain" \in r.planned THEN Len(Cuts[r.gen]["Terrain"]) ELSE 0])

-----------------------------------------------------------------------------
(* Steps of the run in slot e. *)

At(e, pc) == engines[e] # None /\ engines[e].pc = pc
Becomes(e, r) == engines' = [engines EXCEPT ![e] = r]

PrepareBasemap(e) ==
    /\ At(e, "basemap")
    /\ LET r == Planned(engines[e], "Basemap", Listed(engines[e].area, "Basemap"))
       IN  Becomes(e, IF r.terrain THEN [r EXCEPT !.pc = "terrain"] ELSE Building(r))
    /\ UNCHANGED disk

\* `?` on the base map's prepare: the run is over.
BasemapWillNotPlan(e) ==
    /\ At(e, "basemap")
    /\ Becomes(e, [engines[e] EXCEPT !.pc = "ended", !.failed = TRUE, !.outcome = "Failed"])
    /\ UNCHANGED disk

PrepareTerrain(e) ==
    /\ At(e, "terrain")
    /\ Becomes(e, Building(Planned(engines[e], "Terrain", Listed(engines[e].area, "Terrain"))))
    /\ UNCHANGED disk

\* The base map goes on without the hillshade, and the run will not be Complete.
TerrainWillNotPlan(e) ==
    /\ At(e, "terrain")
    /\ Becomes(e, Building([engines[e] EXCEPT !.failed = TRUE]))
    /\ UNCHANGED disk

\* One coalesced read.
Fetch(e) ==
    /\ At(e, "fetch")
    /\ Needed(engines[e]) # {}
    /\ LET r == engines[e]
           spans == FirstRead(Needed(r))
       IN  Becomes(e, [r EXCEPT !.held = @ \cup spans, !.moved[r.half] = @ + Bytes(spans)])
    /\ UNCHANGED disk

\* A read fails or is short, or the artifact is not written, or does not address a tile
\* of its plan, or its file does not open.
SegmentFails(e) ==
    /\ At(e, "fetch")
    /\ Becomes(e, SegmentEnds(engines[e], FALSE))
    /\ UNCHANGED disk

\* The artifact is verified; its .part is opened.
OpenPart(e) ==
    /\ At(e, "fetch")
    /\ Needed(engines[e]) = {}
    /\ disk' = Opened(disk, PartOf(engines[e]), e, engines[e].gen)
    /\ Becomes(e, [engines[e] EXCEPT !.pc = "write"])

WriteEnds(e) ==
    /\ At(e, "write")
    /\ disk' = Closed(e, FALSE)
    /\ Becomes(e, [engines[e] EXCEPT !.pc = "rename"])

WriteFails(e) ==
    /\ At(e, "write")
    /\ disk' = Closed(e, TRUE)
    /\ Becomes(e, SegmentEnds(engines[e], FALSE))

\* The rename publishes the segment, if the .part is still under its name.
Rename(e) ==
    LET part == PartOf(engines[e])
    IN  /\ At(e, "rename")
        /\ IF part \in DOMAIN disk
           THEN disk' = With(Without(disk, part), Published(part), disk[part])
           ELSE UNCHANGED disk
        /\ Becomes(e, SegmentEnds(engines[e], part \in DOMAIN disk))

RenameFails(e) ==
    /\ At(e, "rename")
    /\ disk' = Without(disk, PartOf(engines[e]))
    /\ Becomes(e, SegmentEnds(engines[e], FALSE))

RunStep(e) ==
    \/ PrepareBasemap(e) \/ BasemapWillNotPlan(e) \/ PrepareTerrain(e) \/ TerrainWillNotPlan(e)
    \/ Fetch(e) \/ SegmentFails(e)
    \/ OpenPart(e) \/ WriteEnds(e) \/ WriteFails(e) \/ Rename(e) \/ RenameFails(e)

\* Between two awaits a run does not see that it is dropped.
Droppable(e) == engines[e].pc \notin {"write", "rename"}
=============================================================================
