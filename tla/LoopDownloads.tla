---------------------------- MODULE LoopDownloads ----------------------------
(***************************************************************************)
(* What the loop's download manager holds of one radar site and what each  *)
(* of its operations does, squallar-radar/src/loop_downloads.rs, for a     *)
(* loop in one pane.  The operations are operators on the manager's state, *)
(* because one handler of the application calls several of them.           *)
(*                                                                         *)
(* A volume is held decoded, as the compressed archive it was decoded      *)
(* from, or both, under its address: the time its file is named by.  Its   *)
(* identity is the time of its first radial, which is only learned from a  *)
(* decode; two addresses may name one volume.  Each volume has the price   *)
(* of one, so ceilings are numbers of volumes.                             *)
(***************************************************************************)
EXTENDS Naturals, FiniteSets, Sequences, SequencesExt, FiniteSetsExt

CONSTANTS
    None,
    Stamps,           \* addresses, in the order of time
    CollectedAt,      \* the identity of the volume at an address
    Named,            \* the addresses the archive's listing names
    Cap,              \* budgets.concurrent_loop_downloads
    DecodedCeiling, ArchiveCeiling,
    SpillCeiling      \* 0: archives never leave the heap but to be dropped

ASSUME LoopAssumption ==
    /\ Stamps \subseteq Nat /\ IsFiniteSet(Stamps) /\ Named \subseteq Stamps
    /\ CollectedAt \in [Stamps -> Nat]
    /\ {Cap, DecodedCeiling, ArchiveCeiling} \subseteq Nat \ {0}
    /\ SpillCeiling \in Nat

Less(a, b) == IF b <= a THEN a - b ELSE 0
\* The first n of a set's stamps, ahead[a] being those that come before a.
First(S, ahead, n) == {a \in S : Cardinality(S \cap ahead[a]) < n}
Older == [a \in Stamps |-> {b \in Stamps : b < a}]

\* An errand is one stamp's way: "fetch" from the network, "decode" off the thread, or
\* the reply that waits in the channel, which carries nothing, the archive, or the
\* archive and the volume. nth is 1 unless the stamp had an errand already.
Replies == {"nothing", "archive", "volume"}
Errand == [at : Stamps, stage : {"fetch", "decode"} \cup Replies, nth : Nat]

VARIABLE mgr

NoManager == [
    decoded |-> {},     \* scan_cache
    heap |-> {},        \* archive_cache
    spilled |-> {},     \* archives on the medium
    known |-> {},       \* archive_identity
    marked |-> {},      \* in_flight_set
    reserved |-> {},    \* decodes_in_flight
    count |-> 0,        \* in_flight_count
    plan |-> None,      \* the frames of the pane's plan
    queue |-> {},       \* its pending downloads; oldest first, there iff the plan is
    wants |-> None,     \* what the sweep published: wanted frames and their distance
    out |-> {}          \* the errands under way
]

-----------------------------------------------------------------------------
(* Questions. *)

Held(m) == m.heap \cup m.spilled
NeedsDecode(m) == Held(m) \ (m.decoded \cup m.marked)

\* archive_for_identity; the map's order is some fixed one.
ArchiveForIdentity(m, collected) ==
    LET found == {a \in Held(m) \cap m.known : CollectedAt[a] = collected}
    IN IF found = {} THEN None ELSE Min(found)

Committed(m) == Cardinality(m.decoded) + Cardinality(m.reserved)
RoomFor(m) == Committed(m) = 0 \/ Committed(m) < DecodedCeiling

\* frames_needing_decode: the plan's wanted frames, nearest first, and then whatever
\* else is held of the site, oldest first.
Offers(m) == {a \in NeedsDecode(m) : a \in m.plan /\ m.wants # None => a \in DOMAIN m.wants}
Nearness(m, a) == IF m.wants = None \/ a \notin m.plan THEN 0 ELSE m.wants[a]
Nearer(m) ==
    LET first(a) == a \in m.plan
    IN [a \in Offers(m) |->
           {b \in Offers(m) : \/ first(b) /\ ~first(a)
                             \/ /\ first(b) <=> first(a)
                                /\ \/ Nearness(m, b) < Nearness(m, a)
                                   \/ Nearness(m, b) = Nearness(m, a) /\ b < a}]

\* Furthest first, and the oldest of those that are equally far.
Further(rank) ==
    [a \in Stamps |-> {b \in Stamps : rank[a] < rank[b] \/ (rank[a] = rank[b] /\ b < a)}]

-----------------------------------------------------------------------------
(* Arrivals and marks. *)

CacheScan(m, at) ==
    [m EXCEPT !.decoded = @ \cup at, !.known = @ \cup at]
CacheArchive(m, at) ==
    [m EXCEPT !.heap = @ \cup at, !.spilled = @ \ at]

\* share_archive_with_twin
Twins(m, a) ==
    {b \in (m.known \cap m.decoded) \ (Held(m) \cup {a}) : CollectedAt[b] = CollectedAt[a]}
ShareWithTwin(m, a) ==
    IF a \in m.known /\ Twins(m, a) # {} THEN CacheArchive(m, {Min(Twins(m, a))}) ELSE m

Send(m, at, stage) ==
    LET Nth(a) == Cardinality({e \in m.out : e.at = a}) + 1
    IN [m EXCEPT !.marked = @ \cup at,
                 !.out = @ \cup {[at |-> a, stage |-> stage, nth |-> Nth(a)] : a \in at}]
SendDecodes(m, at) == [Send(m, at, "decode") EXCEPT !.reserved = @ \cup at]

KeepsReserve(m, at) == [m EXCEPT !.marked = @ \ at]
CompleteDownload(m, at) ==
    [m EXCEPT !.marked = @ \ at, !.reserved = @ \ at]

\* apply_completed_download, for every reply the channel holds
Stage(m, stages) == {e.at : e \in {f \in m.out : f.stage \in stages}}
Completed(m) ==
    LET cleared == CompleteDownload(m, Stage(m, Replies))
        filed == CacheArchive(cleared, Stage(m, {"archive", "volume"}))
    IN CacheScan(filed, Stage(m, {"volume"}))

\* complete_batch: each reply counts, a decode's too
KeepsSlots(m) == [m EXCEPT !.out = {e \in @ : e.stage \notin Replies}]
CompleteBatch(m) ==
    LET replies == {e \in m.out : e.stage \in Replies}
    IN [m EXCEPT !.count = Less(@, Cardinality(replies)), !.out = @ \ replies]

-----------------------------------------------------------------------------
(* Plans, and the pump that works them off. *)

RemovePending(m) == [m EXCEPT !.plan = None, !.queue = {}]
\* set_plan and plan_downloads_for
Plan(m, frames) == [m EXCEPT !.plan = frames, !.queue = frames]
Replan(m) == [m EXCEPT !.queue = m.plan]
RetainPlanFrames(m, kept) ==
    IF m.plan = None THEN m
    ELSE [m EXCEPT !.plan = @ \cap kept, !.queue = @ \cap kept]

\* dispatch_pending_loop_downloads: decodes first, as slots and room allow, then
\* downloads for the slots that are left. Of a download only a listed one is started,
\* and only those are counted.
DecodesNow(m) ==
    LET slots == Less(Cap, m.count)
        room == Less(DecodedCeiling, Committed(m))
    IN First(Offers(m), Nearer(m), IF slots < room THEN slots ELSE room)
SpareUnlessMarked(m) == m.decoded \cup Held(m)
Spare(m) == m.decoded \cup m.marked \cup Held(m)
Batch(m, slots) == First(m.queue \ Spare(m), Older, slots)
Left(m, batch, slots) ==
    IF Cardinality(batch) < slots THEN {} ELSE {a \in m.queue : \A b \in batch : b < a}
Pump(m) ==
    IF m.plan = None \/ m.count >= Cap THEN mgr' = m
    ELSE \E decodes \in {DecodesNow(m)} : \E d \in {SendDecodes(m, decodes)} :
         LET slots == Cap - m.count - Cardinality(decodes)
         IN \E batch \in {Batch(d, slots)} :
            mgr' = [Send(d, batch \cap Named, "fetch") EXCEPT
                        !.queue = Left(d, batch, slots),
                        !.count = @ + Cardinality(batch \cap Named)]

-----------------------------------------------------------------------------
(* Residency. *)

RetainArchives(m, kept) ==
    [m EXCEPT !.heap = @ \cap kept, !.spilled = @ \cap kept,
              !.known = @ \ (Held(m) \ kept)]
RetainScans(m, kept) == [m EXCEPT !.decoded = @ \cap kept]
EvictsTheOnlyForm(m, kept) == [m EXCEPT !.decoded = @ \cap kept]
\* A volume without an archive is kept whatever kept says.
EvictDecodedExcept(m, kept) == [m EXCEPT !.decoded = @ \ (Held(m) \ kept)]
EvictDecodedToCeiling(m, rank, pinned) ==
    LET over == Less(Cardinality(m.decoded), DecodedCeiling)
    IN [m EXCEPT !.decoded =
            @ \ First((m.decoded \cap Held(m)) \ pinned, Further(rank), over)]
\* An archive over the ceiling goes to the medium while that has room. One that is
\* dropped takes what was learned of its volume with it.
EvictArchivesToCeiling(m, rank, pinned) ==
    LET over == Less(Cardinality(m.heap), ArchiveCeiling)
        room == Less(SpillCeiling, Cardinality(m.spilled))
        leaving == First(m.heap \ pinned, Further(rank), over)
        spilling == First(m.heap \ pinned, Further(rank), IF over < room THEN over ELSE room)
    IN [m EXCEPT !.heap = @ \ leaving, !.spilled = @ \cup spilling,
                 !.known = @ \ (leaving \ spilling)]
=============================================================================
