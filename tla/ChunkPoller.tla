----------------------------- MODULE ChunkPoller -----------------------------
(***************************************************************************)
(* One round of squallar_radar::chunks::ChunkPoller, as the set of ways it *)
(* can end.  The poller belongs to the round while it runs, so nothing     *)
(* else sees the steps between its awaits.                                 *)
(*                                                                         *)
(* A volume is numbered by when its scan started; a directory's successor  *)
(* holds the next one.  Its chunks are taken to be two, the one its start  *)
(* time is learned from and the one it ends with, which may come together: *)
(* that bounds the progress one volume is.                                 *)
(***************************************************************************)
EXTENDS Integers, Sequences

CONSTANT VolBound  \* the volumes a radar starts

ASSUME VolAssumption == VolBound \in Nat \ {0}

Volumes == 1..VolBound
NoVolume == 0

Poller == [vol : Volumes \cup {NoVolume},
           known : BOOLEAN,       \* the assembler's volume_time is Some
           ended : BOOLEAN,       \* saw_scan_end
           pending : Seq(Volumes),
           owed : SUBSET Volumes] \* closed by a roll, on no outcome that left as Ok

\* ChunkPoller::new, and resume on a volume whose chunks are not held.
ResumeAt(v) ==
    [vol |-> v, known |-> FALSE, ended |-> FALSE, pending |-> <<>>, owed |-> {}]

-----------------------------------------------------------------------------
(* A round under way: the poller, the closed volume its outcome carries, and *)
(* whether it rolled or ingested.                                            *)

TakePending(p) ==
    IF p.pending = <<>>
    THEN [poller |-> p, closed |-> NoVolume, moved |-> FALSE]
    ELSE [poller |-> [p EXCEPT !.pending = Tail(@)],
          closed |-> Head(p.pending), moved |-> FALSE]

\* One directory too far.
BeginPast(r, v) ==
    [r EXCEPT !.poller.vol = v + 1, !.poller.known = FALSE, !.poller.ended = FALSE,
              !.moved = TRUE]

\* A fresh assembler; the one it replaces is dropped.
Begin(r, v) ==
    [r EXCEPT !.poller.vol = v, !.poller.known = FALSE, !.poller.ended = FALSE,
              !.moved = TRUE]

DeliverOrQueue(r, v) ==
    LET closing == [r EXCEPT !.poller.owed = @ \cup {v}]
    IN IF r.closed = NoVolume
       THEN [closing EXCEPT !.closed = v]
       ELSE [closing EXCEPT !.poller.pending = Append(@, v)]

\* Only a volume a chunk has arrived of is ever rolled away from.
Roll(r, v) == Begin(DeliverOrQueue(r, r.poller.vol), v)

\* The round leaves by its Ok: what it carries has been told.
Lands(r) ==
    [poller |-> [r.poller EXCEPT !.owed = @ \ {r.closed}], ok |-> TRUE, moved |-> r.moved]

\* Parked behind what is already queued.
FailsParkingBehind(r) ==
    [poller |-> IF r.closed = NoVolume THEN r.poller
                ELSE [r.poller EXCEPT !.pending = Append(@, r.closed)],
     ok |-> FALSE, moved |-> FALSE]

\* The round leaves by its Err: the outcome is dropped, what it carried is the oldest again.
Fails(r) ==
    [poller |-> IF r.closed = NoVolume THEN r.poller
                ELSE [r.poller EXCEPT !.pending = <<r.closed>> \o @],
     ok |-> FALSE, moved |-> FALSE]

\* What the chunks a round downloads can teach the assembler: nothing, the
\* volume's start time, or that it has ended too.
Ingests(r) ==
    {r} \cup {[r EXCEPT !.poller.known = TRUE, !.poller.ended = end, !.moved = TRUE] :
               end \in {e \in BOOLEAN : ~r.poller.ended /\ (r.poller.known => e)}}

\* The listing, then chunk by chunk until one aborts the round or none is left.
Filled(r) == UNION {{Lands(s), Fails(s)} : s \in Ingests(r)}

\* One chunk: nothing follows it that could still fail.
Fetched(r) == {Fails(r)} \cup {Lands(s) : s \in Ingests(r)}

\* poll: `newest` is what discovery finds, `aged` the last volume past VOLUME_STALE.
PollOutcomes(p, newest, aged) ==
    LET r == TakePending(p)
        discovers == p.vol = NoVolume \/ (p.known /\ p.vol <= aged)
    IN CASE discovers -> {Fails(r)} \cup Filled(Begin(r, newest))   \* PollPlan::Discover
         [] ~discovers /\ ~p.ended -> Filled(r)                    \* Fill
         [] OTHER -> {Fails(r)} \cup                               \* ProbeNext
              IF newest > p.vol THEN Filled(Roll(r, p.vol + 1)) ELSE {Lands(r)}

\* fetch_notified, for a chunk of volume v.
NotifiedOutcomes(p, v) ==
    LET r == TakePending(p)
        held == p.vol # NoVolume /\ p.known
    IN CASE held /\ v < p.vol -> {Lands(r)}               \* is_stale_notification
         [] held /\ v > p.vol -> Fetched(Roll(r, v))       \* should_roll_to
         [] p.vol = NoVolume -> Fetched(Begin(r, v))
         [] p.vol = v -> Fetched(r)
         [] OTHER -> {Lands(r), Fails(r)}                 \* ingest refuses another volume's

=============================================================================
