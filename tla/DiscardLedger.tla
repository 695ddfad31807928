---------------------------- MODULE DiscardLedger ----------------------------
(***************************************************************************)
(* What `squallar_worker::offload::discard` hands away, until it is freed. *)
(* Native: the pool's one-thread rd-free lane (offload/pool.rs); wasm, and *)
(* native with no free thread: a queue of the frame thread, drained a      *)
(* budget at a time from App::handle_redraw.  Both price what they hold in *)
(* squallar-device-profile/src/discard_ledger.rs.                          *)
(*                                                                         *)
(* The frame loop rests on ControlFlow::Wait: a frame runs only when       *)
(* something has asked for one.                                            *)
(***************************************************************************)
EXTENDS Integers, Sequences, FiniteSetsExt, SequencesExt

CONSTANTS
    Payloads,
    Declared,  \* the bytes a Priced declares for each payload, 0 when unpriced
    Struct,    \* the size of the payload's own struct
    Inner,     \* what each payload's Drop discards in its turn
    Builds,    \* the targets, each with or without a live free thread
    None

ASSUME DiscardAssumption ==
    /\ Declared \in [Payloads -> Nat]
    /\ Struct \in [Payloads -> Nat \ {0}]
    /\ Inner \in [Payloads -> SUBSET Payloads]
    /\ Builds \subseteq [target : {"wasm", "desktop", "mobile"}, lane : BOOLEAN]
    /\ [target |-> "wasm", lane |-> TRUE] \notin Builds
    /\ None \notin Payloads

VARIABLES
    build,     \* the target this process runs on
    custody,   \* where each payload is
    hand,      \* the payload each thread has priced and not yet sent
    falling,   \* the payload each thread is dropping
    laneQueue, \* the free lane's channel
    deferred,  \* DEFERRED_DROPS
    onLane,    \* ON_LANE
    queued,    \* QUEUED
    phase,     \* where the frame thread is
    asked,     \* a redraw has been asked for
    shown      \* the window is neither minimized, nor empty, nor gone

laneVars == <<laneQueue, onLane>>
queueVars == <<deferred, queued>>
frameVars == <<phase, asked, shown>>
vars == <<build, custody, hand, falling, laneVars, queueVars, frameVars>>

Threads == {"frame", "free"}
Phases == {"rests", "warned", "head", "drains", "gate", "tail"}

\* priced_parts
Price(p) == Max({Declared[p], Struct[p]})

\* lane_freed and queue_freed: never below zero.
Less(total, bytes) == IF bytes > total THEN 0 ELSE total - bytes

DiscardInit ==
    /\ build \in Builds
    /\ custody = [p \in Payloads |-> "kept"]
    /\ hand = [t \in Threads |-> None]
    /\ falling = [t \in Threads |-> None]
    /\ laneQueue = <<>>
    /\ deferred = <<>>
    /\ onLane = 0
    /\ queued = 0
    /\ phase = "rests"
    /\ asked = FALSE
    /\ shown = TRUE

(***************************************************************************)
(* discard.  The frame thread calls it from a frame's head and tail and    *)
(* from a platform's memory warning; either thread calls it from the Drop  *)
(* of a payload it is freeing.                                             *)
(***************************************************************************)
May(t, p) ==
    /\ custody[p] = "kept"
    /\ hand[t] = None
    /\ IF falling[t] # None
         THEN p \in Inner[falling[t]]
         ELSE /\ t = "frame"
              /\ phase \in {"head", "tail", "warned"}
              /\ \A q \in Payloads : p \notin Inner[q]

\* file_deferred.
FileDeferred(p) ==
    /\ queued' = queued + Price(p)
    /\ deferred' = Append(deferred, p)
    /\ custody' = [custody EXCEPT ![p] = "deferred"]

DiscardToQueue(t, p) ==
    /\ build.target = "wasm"
    /\ May(t, p)
    /\ FileDeferred(p)
    /\ UNCHANGED <<build, hand, falling, laneVars, frameVars>>

\* run_free prices the payload before the lane can see it ...
PriceOntoLane(t, p) ==
    /\ build.target # "wasm"
    /\ May(t, p)
    /\ onLane' = onLane + Price(p)
    /\ custody' = [custody EXCEPT ![p] = "handing"]
    /\ hand' = [hand EXCEPT ![t] = p]
    /\ UNCHANGED <<build, falling, laneQueue, queueVars, frameVars>>

SendToLane(t) ==
    /\ hand[t] # None
    /\ build.lane
    /\ laneQueue' = Append(laneQueue, hand[t])
    /\ custody' = [custody EXCEPT ![hand[t]] = "lane"]
    /\ hand' = [hand EXCEPT ![t] = None]
    /\ UNCHANGED <<build, falling, onLane, queueVars, frameVars>>

\* ... and takes the price back from a lane with no live thread.
LaneRefuses(t) ==
    /\ hand[t] # None
    /\ ~build.lane
    /\ onLane' = Less(onLane, Price(hand[t]))
    /\ FileDeferred(hand[t])
    /\ hand' = [hand EXCEPT ![t] = None]
    /\ UNCHANGED <<build, falling, laneQueue, frameVars>>

(***************************************************************************)
(* The rd-free thread.                                                     *)
(***************************************************************************)
LaneTakes ==
    /\ build.lane
    /\ falling["free"] = None
    /\ laneQueue # <<>>
    /\ falling' = [falling EXCEPT !["free"] = Head(laneQueue)]
    /\ laneQueue' = Tail(laneQueue)
    /\ custody' = [custody EXCEPT ![Head(laneQueue)] = "falling"]
    /\ UNCHANGED <<build, hand, onLane, queueVars, frameVars>>

\* A Drop ends when all it discards has been discarded.
Dropped(t) ==
    /\ falling[t] # None
    /\ hand[t] = None
    /\ \A q \in Inner[falling[t]] : custody[q] # "kept"

\* The guarded drop de-prices on both arms, once; the mutants never, or twice over.
NeverDepriced(p) == onLane' = onLane
DepricedTwice(p) == onLane' = onLane - 2 * Price(p)
DepricedAfterPanic(p) == onLane' = Less(onLane, Price(p))

LaneFrees ==
    /\ Dropped("free")
    /\ custody' = [custody EXCEPT ![falling["free"]] = "freed"]
    /\ onLane' = Less(onLane, Price(falling["free"]))
    /\ falling' = [falling EXCEPT !["free"] = None]
    /\ UNCHANGED <<build, hand, laneQueue, queueVars, frameVars>>

\* A Drop that panics part-way: unwinding frees what it had not discarded.
LanePanics ==
    /\ falling["free"] # None
    /\ hand["free"] = None
    /\ LET p == falling["free"]
           gone == {p} \cup {q \in Inner[p] : custody[q] = "kept"}
       IN  /\ custody' = [q \in Payloads |-> IF q \in gone THEN "freed" ELSE custody[q]]
           /\ DepricedAfterPanic(p)
    /\ falling' = [falling EXCEPT !["free"] = None]
    /\ UNCHANGED <<build, hand, laneQueue, queueVars, frameVars>>

(***************************************************************************)
(* The frame loop, App::handle_redraw.                                     *)
(***************************************************************************)
FrameIdle == hand["frame"] = None /\ falling["frame"] = None

Redraw ==
    /\ phase = "rests"
    /\ asked
    /\ phase' = "head"
    /\ asked' = FALSE
    /\ UNCHANGED <<build, custody, hand, falling, laneVars, queueVars, shown>>

\* drain_deferred_drops: an empty queue asks nothing of the clock.
DrainStarts ==
    /\ phase = "head"
    /\ FrameIdle
    /\ phase' = IF deferred = <<>> THEN "gate" ELSE "drains"
    /\ UNCHANGED <<build, custody, hand, falling, laneVars, queueVars, asked, shown>>

\* The mutant looks at the budget first.
DrainGivesUp ==
    /\ phase = "drains"
    /\ FrameIdle
    /\ phase' = "gate"
    /\ UNCHANGED <<build, custody, hand, falling, laneVars, queueVars, asked, shown>>

DrainPops ==
    /\ phase = "drains"
    /\ FrameIdle
    /\ deferred # <<>>
    /\ falling' = [falling EXCEPT !["frame"] = Head(deferred)]
    /\ deferred' = Tail(deferred)
    /\ custody' = [custody EXCEPT ![Head(deferred)] = "falling"]
    /\ UNCHANGED <<build, hand, laneVars, queued, frameVars>>

\* The budget is looked at after each free, so one payload goes per call.
DrainFrees ==
    /\ phase = "drains"
    /\ Dropped("frame")
    /\ custody' = [custody EXCEPT ![falling["frame"]] = "freed"]
    /\ queued' = Less(queued, Price(falling["frame"]))
    /\ falling' = [falling EXCEPT !["frame"] = None]
    /\ phase' \in {"drains", "gate"}
    /\ UNCHANGED <<build, hand, laneVars, deferred, asked, shown>>

DrainEnds ==
    /\ phase = "drains"
    /\ FrameIdle
    /\ deferred = <<>>
    /\ phase' = "gate"
    /\ UNCHANGED <<build, custody, hand, falling, laneVars, queueVars, asked, shown>>

\* A window with nothing to draw in ends the frame before the re-arm.
Gate ==
    /\ phase = "gate"
    /\ phase' = IF shown THEN "tail" ELSE "rests"
    /\ UNCHANGED <<build, custody, hand, falling, laneVars, queueVars, asked, shown>>

\* has_deferred_drops names the next frame; the mutant asks it of the ledger's lane.
HasLaneBytes == onLane > 0
HasDeferredDrops == deferred # <<>>

FrameEnds ==
    /\ phase = "tail"
    /\ FrameIdle
    /\ phase' = "rests"
    /\ asked' = (asked \/ HasDeferredDrops)
    /\ UNCHANGED <<build, custody, hand, falling, laneVars, queueVars, shown>>

\* Input, an arrival, another claim on the next frame.
AskForFrame ==
    /\ asked' = TRUE
    /\ UNCHANGED <<build, custody, hand, falling, laneVars, queueVars, phase, shown>>

\* The platform hides the window, or brings it back and says so.
HideOrShow ==
    /\ shown' = ~shown
    /\ asked' = (asked \/ shown')
    /\ UNCHANGED <<build, custody, hand, falling, laneVars, queueVars, phase>>

\* memory_warning: on_pressure evicts outside any frame and asks for none.
MemoryWarning ==
    /\ build.target = "mobile"
    /\ phase = "rests"
    /\ phase' = "warned"
    /\ UNCHANGED <<build, custody, hand, falling, laneVars, queueVars, asked, shown>>

WarningEnds ==
    /\ phase = "warned"
    /\ FrameIdle
    /\ phase' = "rests"
    /\ UNCHANGED <<build, custody, hand, falling, laneVars, queueVars, asked, shown>>

-----------------------------------------------------------------------------
Discard(t) == \E p \in Payloads : DiscardToQueue(t, p) \/ PriceOntoLane(t, p)
Hands(t) == SendToLane(t) \/ LaneRefuses(t)

DrainSteps == DrainStarts \/ DrainPops \/ DrainFrees \/ DrainEnds
FrameSteps == Redraw \/ DrainSteps \/ Gate \/ FrameEnds \/ WarningEnds
LaneSteps == LaneTakes \/ LaneFrees \/ LanePanics
Platform == AskForFrame \/ HideOrShow \/ MemoryWarning

Next ==
    \/ \E t \in Threads : Discard(t) \/ Hands(t)
    \/ FrameSteps
    \/ LaneSteps
    \/ Platform

\* A Drop under way does not stop between the payloads it discards.
DropGoesOn(t) == falling[t] # None /\ Discard(t)

\* Both threads run.  Nothing here makes a frame start: Redraw needs `asked`.
Fairness ==
    /\ WF_vars(FrameSteps)
    /\ WF_vars(LaneSteps)
    /\ \A t \in Threads : WF_vars(Hands(t)) /\ WF_vars(DropGoesOn(t))

DiscardSpec == DiscardInit /\ [][Next]_vars /\ Fairness

-----------------------------------------------------------------------------
LaneHolds == ToSet(laneQueue) \cup ({falling["free"], hand["frame"], hand["free"]} \ {None})
QueueHolds == ToSet(deferred) \cup ({falling["frame"]} \ {None})
\* The bytes of a set of payloads, one by one.
BytesOf(S) == UNION {{p} \X (1..Price(p)) : p \in S}
Bytes(S) == Cardinality(BytesOf(S))

\* Every variable stays in its range.
TypeOK ==
    /\ build \in Builds
    /\ custody \in [Payloads -> {"kept", "handing", "lane", "deferred", "falling", "freed"}]
    /\ hand \in [Threads -> Payloads \cup {None}]
    /\ falling \in [Threads -> Payloads \cup {None}]
    /\ laneQueue \in Seq(Payloads)
    /\ deferred \in Seq(Payloads)
    /\ onLane \in Nat
    /\ queued \in Nat
    /\ phase \in Phases
    /\ asked \in BOOLEAN
    /\ shown \in BOOLEAN

\* The two routes' totals and custody agree, with both threads filing and retiring at
\* once. discard_ledger.rs: each total is the price of what its route holds, from before
\* the lane can see a payload until after its drop, whichever arm the drop took. "Zero
\* exactly when both holders are empty": a census that reads nothing in flight has not
\* overlooked a payload nobody priced. "A payload is in exactly one of them": whatever
\* was discarded and not freed is held once, by one route, at one place in it, also
\* while a refused handover moves over.
LedgerIsExact ==
    /\ onLane = Bytes(LaneHolds) /\ queued = Bytes(QueueHolds)
    /\ onLane + queued = 0 <=> LaneHolds \cup QueueHolds = {}
    /\ LaneHolds \cap QueueHolds = {}
    /\ LaneHolds \cup QueueHolds = {p \in Payloads : custody[p] \notin {"kept", "freed"}}
    /\ Cardinality(LaneHolds \cup QueueHolds) =
         Len(laneQueue) + Len(deferred)
           + Cardinality({t \in Threads : hand[t] # None})
           + Cardinality({t \in Threads : falling[t] # None})

\* drain_deferred_drops: "a non-empty queue must keep the frame loop awake"; the loop
\* of a window that can be drawn in never rests on a payload without a frame to come.
QueueKeepsTheLoopAwake ==
    phase = "rests" /\ deferred # <<>> /\ shown => asked

\* Whatever is discarded is freed, or the window is hidden and no frame comes: by the
\* lane past a Drop that panics, by the drain however small its budget.
EveryDiscardIsFreed ==
    \A p \in Payloads :
        custody[p] \notin {"kept", "freed"} ~> (custody[p] = "freed" \/ ~shown)

=============================================================================
