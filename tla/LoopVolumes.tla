----------------------------- MODULE LoopVolumes -----------------------------
(***************************************************************************)
(* A radar loop in one pane of one site: the handlers of squallar-app that *)
(* drive the download manager of LoopDownloads, the loop's frame list, and *)
(* the site's merge base, whose moments are dropped when nothing reads     *)
(* them and decoded again when something does.                             *)
(*                                                                         *)
(* All handlers run on the frame thread; downloads and decodes run off it  *)
(* and reply through a channel.  A frame runs the handlers in one order;   *)
(* here they come in any order.                                            *)
(***************************************************************************)
EXTENDS LoopDownloads

CONSTANTS
    MaxFrames,   \* the frames a loop may hold
    Lookahead,   \* LOOP_DECODED_LOOKAHEAD_FRAMES
    MoveBound    \* bound on what the user, the radar and failing jobs do

VARIABLES
    loop,        \* "off", or "settling" and "overdue" before the listing, and "listed"
    list,        \* the addresses of the loop's frames
    textured,    \* those that have their picture
    playhead,    \* the frame the clock names, or None
    parked,      \* the identity of the volume the pane shows, or None
    base,        \* the site's merge base: its identity, and whether it has its gates
    asked,       \* base_gate_asks
    reader,      \* a section or a 3D view shows the site
    moves

loopVars == <<loop, list, textured, playhead>>
baseVars == <<base, asked>>
vars == <<mgr, loop, list, textured, playhead, parked, base, asked, reader, moves>>

Init ==
    /\ mgr = NoManager
    /\ loop = "off"
    /\ list = {} /\ textured = {} /\ playhead = None
    /\ parked = None
    /\ base = None /\ asked = FALSE
    /\ reader = FALSE
    /\ moves = 0

Move == moves < MoveBound /\ moves' = moves + 1

\* The stamps whose volume is from a time, by either clock.
Of(time) == {a \in Stamps : time \in {a, CollectedAt[a]}}
With(time) == {a \in mgr.known : CollectedAt[a] = time}

Released == base # None /\ ~base.whole
\* restore_released_base
RestorableByAddress(m) == base.at \in m.decoded
Restorable(m) == ArchiveForIdentity(m, base.at) \in m.decoded

-----------------------------------------------------------------------------
(* The sweep: evict_unshown_scans. *)

Settling == loop = "settling"
Needed == list \cup (IF parked \in Stamps THEN {parked} ELSE {})
Keep == IF Settling THEN Stamps ELSE Needed
Parked == IF parked = None THEN {} ELSE Of(parked)

\* How many frames the clock has to go before it is at f.
Ahead(f) ==
    LET Index(a) == Cardinality({b \in list : b < a})
    IN (Index(f) + Cardinality(list) - Index(playhead)) % Cardinality(list)
Far == Cardinality(Stamps)
Distance == [a \in Stamps |-> IF a \in list THEN Ahead(a) ELSE Far]
Wanted == {f \in list : f \notin textured \/ (Lookahead # None /\ Ahead(f) <= Lookahead)}

\* evict_unneeded_loop_scans
WayBackByAddress == IF Released THEN {base.at} \cap Stamps ELSE {}
WayBack == IF Released THEN With(base.at) ELSE {}
Published(m, wanted) ==
    [m EXCEPT !.wants = IF loop = "off" THEN None ELSE [f \in wanted |-> Ahead(f)]]
Kept(waysBack) == Keep \cup waysBack \cup (IF parked = None THEN {} ELSE With(parked))
Retained(m, keep) ==
    RetainScans(RetainArchives(RetainPlanFrames(m, Keep), keep),
                IF loop = "off" THEN Parked ELSE Keep)
Pinned == IF Settling THEN Stamps ELSE Parked
Bounded(m, rank, pinned, waysBack) ==
    EvictArchivesToCeiling(EvictDecodedToCeiling(m, rank, pinned), rank, waysBack)

\* release_unneeded_base_gates; owed: a pane still waits for a picture of the site.
Releasable(m, owed) ==
    /\ base # None /\ base.whole
    /\ ~reader /\ ~owed
    /\ ArchiveForIdentity(m, base.at) \notin m.marked \cup {None}
Release(m) == EvictDecodedExcept(m, Stamps \ {ArchiveForIdentity(m, base.at)})
EvictUnshown ==
    \E owed \in BOOLEAN, rank \in {Distance}, pinned \in {Pinned},
       wanted \in {Wanted}, waysBack \in {WayBack} :
    \E published \in {Published(mgr, wanted)} :
    \E kept \in {Retained(published, Kept(waysBack))} :
    \E traded \in {EvictDecodedExcept(kept, pinned \cup wanted)} :
    \E swept \in {Bounded(traded, rank, pinned, waysBack)} :
        LET releases == Releasable(swept, owed)
        IN /\ mgr' = IF releases THEN Release(swept) ELSE swept
           /\ base' = IF releases THEN [base EXCEPT !.whole = FALSE] ELSE base
           /\ asked' = (asked /\ ~releases)
           /\ UNCHANGED <<loopVars, parked, reader, moves>>

-----------------------------------------------------------------------------
(* Errands. *)

Goes(e, stage) == mgr' = [mgr EXCEPT !.out = (mgr.out \ {e}) \cup {[e EXCEPT !.stage = stage]}]

\* A download ends, and take_loop_frame_archive files what there is of it: with room for
\* the volume it is decoded, and no room is reserved for that.
TakeLoopFrameArchive(a) ==
    \E e \in mgr.out :
        /\ e.at = a /\ e.stage = "fetch"
        /\ \/ Goes(e, "nothing")
           \/ Goes(e, IF RoomFor(mgr) THEN "decode" ELSE "archive")
        /\ UNCHANGED <<loopVars, parked, baseVars, reader, moves>>

\* The decode's `deliver`, with the volume or, from a job that was lost, without.
Decoded(a) ==
    \E e \in mgr.out :
        /\ e.at = a /\ e.stage = "decode"
        /\ Goes(e, "volume")
        /\ UNCHANGED <<loopVars, parked, baseVars, reader, moves>>
DecodeLost(a) ==
    /\ Move
    /\ \E e \in mgr.out : e.at = a /\ e.stage = "decode" /\ Goes(e, "archive")
    /\ UNCHANGED <<loopVars, parked, baseVars, reader>>

\* poll_loop_scan_download_results
PollResults ==
    /\ \E e \in mgr.out : e.stage \in Replies
    /\ \E m \in {CompleteBatch(Completed(mgr))} :
        LET restores == Released /\ asked /\ Restorable(m)
        IN /\ base' = IF restores THEN [base EXCEPT !.whole = TRUE] ELSE base
           /\ asked' = (asked /\ ~restores)
           /\ Pump(m)
    /\ UNCHANGED <<loopVars, parked, reader, moves>>

\* ensure_base_whole, for as long as a reader is there
EnsureBaseWhole ==
    LET address == ArchiveForIdentity(mgr, base.at)
        restores == address \in mgr.decoded
    IN /\ reader /\ Released
       /\ asked' = ~restores
       /\ base' = IF restores THEN [base EXCEPT !.whole = TRUE] ELSE base
       /\ mgr' = IF address \in {None} \cup mgr.decoded \cup mgr.marked THEN mgr
                 ELSE SendDecodes(mgr, {address})
       /\ UNCHANGED <<loopVars, parked, reader, moves>>

-----------------------------------------------------------------------------
(* The loop's frames. *)

\* settle_playheads: the frame the clock names stays, if it is still there.
PlayheadIn(frames) ==
    IF playhead \in frames THEN playhead' = playhead ELSE playhead' \in frames

\* begin_loop_for_pane
EnableLoop ==
    /\ Move
    /\ parked # None
    /\ loop' = "settling"
    /\ list' = {} /\ textured' = {} /\ playhead' = None
    /\ mgr' = RemovePending(mgr)
    /\ UNCHANGED <<parked, baseVars, reader>>

\* LOOP_LISTING_GRACE
GracePasses ==
    /\ Settling
    /\ loop' = "overdue"
    /\ UNCHANGED <<mgr, list, textured, playhead, parked, baseVars, reader, moves>>

\* accept_loop_scan_listings
ListingLands ==
    /\ loop \in {"settling", "overdue"}
    /\ \E frames \in (SUBSET Named) \ {{}} :
        /\ Cardinality(frames) <= MaxFrames
        /\ loop' = "listed"
        /\ list' = frames /\ textured' = {}
        /\ playhead' = Max(frames)
        /\ \E m \in {Plan(mgr, frames)} : Pump(m)
    /\ UNCHANGED <<parked, baseVars, reader, moves>>

\* handle_disable_loop
DisableLoop ==
    /\ Move
    /\ loop # "off"
    /\ loop' = "off"
    /\ list' = {} /\ textured' = {} /\ playhead' = None
    /\ mgr' = RemovePending(mgr)
    /\ UNCHANGED <<parked, baseVars, reader>>

PlayheadMoves ==
    /\ Move
    /\ playhead' \in list \ {playhead}
    /\ UNCHANGED <<mgr, loop, list, textured, parked, baseVars, reader>>

\* dispatch_loop_renders: the plan follows the list.
Rederive ==
    /\ list # {} /\ mgr.plan # list
    /\ \E m \in {Plan(mgr, list)} : Pump(m)
    /\ UNCHANGED <<loopVars, parked, baseVars, reader, moves>>

\* retarget_renders_keyed: another product, or another tilt, which downloads nothing new.
Retarget ==
    /\ Move
    /\ loop = "listed"
    /\ textured' = {}
    /\ \/ UNCHANGED mgr
       \/ mgr.plan # None /\ \E m \in {Replan(mgr)} : Pump(m)
    /\ UNCHANGED <<loop, list, playhead, parked, baseVars, reader>>

\* A frame is rendered from its volume.
Render(f) ==
    /\ f \in (list \cap mgr.decoded) \ textured
    /\ textured' = textured \cup {f}
    /\ UNCHANGED <<mgr, loop, list, playhead, parked, baseVars, reader, moves>>

-----------------------------------------------------------------------------
(* A volume arrives outside the loop: from the poll, or whole from the chunk feed. *)

\* append_polled_frame_to_loops
FrameAppended(a) ==
    LET frames == list \cup {a}
        Newer == [b \in Stamps |-> {c \in Stamps : b < c}]
        kept == First(frames, Newer, MaxFrames)
    IN IF loop = "off" THEN UNCHANGED loopVars
       ELSE /\ loop' = loop
            /\ list' = kept /\ textured' = textured \cap kept
            /\ PlayheadIn(kept)

\* append_scan_to_active_loops
Filed(a, archive) ==
    LET scan == CacheScan(mgr, {a})
    IN IF archive THEN CacheArchive(ShareWithTwin(scan, a), {a}) ELSE scan

\* An older volume becomes the base unless the live feed is ahead of it; a pane that is
\* not live stays where it is.
VolumeArrives(a, archive) ==
    /\ Move
    /\ mgr' = Filed(a, archive)
    /\ base' \in {[at |-> CollectedAt[a], whole |-> TRUE]} \cup
                 (IF base # None /\ CollectedAt[a] <= base.at THEN {base} ELSE {})
    /\ parked' \in {parked, CollectedAt[a]}
    /\ FrameAppended(a)
    /\ UNCHANGED <<asked, reader>>

ReaderComesOrGoes ==
    /\ Move
    /\ reader' = ~reader
    /\ UNCHANGED <<mgr, loopVars, parked, baseVars>>

-----------------------------------------------------------------------------
Disturbance ==
    \/ EnableLoop \/ DisableLoop \/ PlayheadMoves \/ Retarget \/ ReaderComesOrGoes
    \/ \E a \in Stamps : DecodeLost(a) \/ \E archive \in BOOLEAN : VolumeArrives(a, archive)

Next ==
    \/ EvictUnshown \/ PollResults \/ EnsureBaseWhole
    \/ GracePasses \/ ListingLands \/ Rederive
    \/ \E a \in Stamps : TakeLoopFrameArchive(a) \/ Decoded(a) \/ Render(a)
    \/ Disturbance

Spec == Init /\ [][Next]_vars

\* The network and the funnel answer; frames come, and with them the poll of the replies
\* and, while a reader is there, its question.
FairSpec ==
    /\ Spec
    /\ WF_vars(PollResults) /\ WF_vars(EnsureBaseWhole)
    /\ \A a \in Stamps : WF_vars(TakeLoopFrameArchive(a)) /\ WF_vars(Decoded(a))

-----------------------------------------------------------------------------
(* Types; the plan's queue is part of it, no archive is on the heap and on the medium, *)
(* what is reserved is marked, and the slots in use are no more than there are.        *)
TypeOK ==
    /\ DOMAIN mgr = DOMAIN NoManager
    /\ \A held \in {mgr.decoded, mgr.heap, mgr.spilled, mgr.known, mgr.marked, mgr.queue, list} :
        held \subseteq Stamps
    /\ mgr.out \subseteq Errand
    /\ mgr.heap \cap mgr.spilled = {}
    /\ mgr.reserved \subseteq mgr.marked
    /\ mgr.count \in 0..Cap
    /\ mgr.queue \subseteq (IF mgr.plan = None THEN {} ELSE mgr.plan)
    /\ textured \subseteq list
    /\ loop \in {"off", "settling", "overdue", "listed"}
    /\ playhead \in list \/ (list = {} /\ playhead = None)
    /\ base = None \/ (base.at \in Nat /\ base.whole \in BOOLEAN)

(* A stamp is marked in flight exactly while one errand of its is under way.  A mark   *)
(* left behind keeps the frame from ever being fetched or decoded again; a mark lost   *)
(* early fetches it twice.                                                             *)
OneErrandPerMark ==
    \A a \in Stamps :
        Cardinality({e \in mgr.out : e.at = a}) = IF a \in mgr.marked THEN 1 ELSE 0

(* A base without its gates has an archive to decode them from.  ensure_base_whole     *)
(* warns when there is none that "the withdrawal that released it should not have".    *)
ReleasedBaseHasWayBack == Released => ArchiveForIdentity(mgr, base.at) # None

(* The only copy of a frame's volume is not dropped while the frame is in the list,    *)
(* unless the archives are over their ceiling; and a volume that has no archive stays  *)
(* decoded: "a volume with no archive behind it is never evicted here".                *)
ListedFramesKeepAForm ==
    [][\A a \in list \cap list' :
        /\ a \in mgr.decoded /\ a \notin Held(mgr) => a \in mgr'.decoded
        /\ a \in Held(mgr) => \/ a \in mgr'.decoded \cup Held(mgr')
                              \/ Cardinality(mgr.heap) > ArchiveCeiling]_vars

(* Every download of a plan is started, found spare or given up, unless errands never *)
(* cease: a slot that is taken comes back, and what frees one works the queue off.     *)
DownloadsFinish == []<>(mgr.out = {}) => (mgr.queue # {} ~> mgr.queue = {})

(* A section or 3D view gets the gates it asks for.                                    *)
ReaderGetsGates == (reader /\ Released) ~> (~reader \/ ~Released)

(* A site that is left alone comes to rest: no volume is decoded, evicted and decoded  *)
(* again for ever, since of the held archives the pump offers none that nothing wants:  *)
(* "a moment offered here is one something still wants".                                *)
DecodesCease == <>[](mgr.out = {})
=============================================================================
