------------------------------ MODULE ChunkFeed ------------------------------
(***************************************************************************)
(* One site's real-time chunk feed: squallar-radar/src/chunk_feed.rs as    *)
(* the frame loop of squallar-app/src/app_chunks.rs drives it.             *)
(*                                                                         *)
(* The manager lends its poller to a detached task for each round and gets *)
(* it back from the channel the frame drains.  The user hides and shows    *)
(* the site and switches live chunks off and on, and notifications arrive, *)
(* while rounds are in the air.  Time is what it makes true: an interval,  *)
(* a stall or a retry window that has passed.                              *)
(*                                                                         *)
(* A round's end and its arrival on the frame are one step: until then it  *)
(* shares nothing.  What an arrival goes on to draw, once the poller is    *)
(* back, is not in this module.                                            *)
(***************************************************************************)
EXTENDS ChunkPoller, FiniteSets

CONSTANTS
    Tasks,      \* the rounds dispatched and not yet drained...
    Room,       \* ...and how many of them, while that volume is the newest: bounds
    MaxErrors,  \* MAX_CONSECUTIVE_ERRORS
    None

VARIABLES
    shown,     \* a pane is live on the site
    enabled,   \* live_chunks
    feed,      \* the manager's feed for the site, or None
    rounds,    \* the rounds spawned and not yet drained
    phase,     \* where the frame thread is in its chunk rows
    newest,    \* the newest volume in the bucket
    aged,      \* the last volume past VOLUME_STALE
    overtaken  \* auxiliary: some round out was in the air when a feed was made

userVars == <<shown, enabled>>
roundVars == <<feed, rounds, overtaken>>
bucketVars == <<newest, aged>>
vars == <<userVars, roundVars, phase, bucketVars>>

Watched == shown /\ enabled
Out == {t \in Tasks : rounds[t] # None}
Poll == NoVolume  \* what a round asks for when it is not one notified volume

\* SiteFeed.
Feed == [poller : Poller \cup {None},
         inFlight : BOOLEAN,
         errors : 0..MaxErrors,
         due : BOOLEAN,       \* last_poll is None, or the interval has passed
         stalled : BOOLEAN,   \* STALL has passed since last_progress
         retired : BOOLEAN,
         waited : BOOLEAN]    \* RETRY_AFTER has passed since it retired

\* A spawned round.
Round == [poller : Poller, asks : Volumes \cup {Poll}]

ASSUME FeedAssumption ==
    /\ IsFiniteSet(Tasks)
    /\ \A v \in Volumes : Room[v] \in Nat
    /\ MaxErrors \in Nat \ {0}
    /\ None \notin Poller \cup Feed \cup Round

\* SiteFeed::new
NewFeed(resumeFrom) ==
    [poller |-> ResumeAt(resumeFrom), inFlight |-> FALSE, errors |-> 0, due |-> TRUE,
     stalled |-> FALSE, retired |-> FALSE, waited |-> FALSE]

Init ==
    /\ shown = FALSE
    /\ enabled \in BOOLEAN
    /\ feed = None
    /\ rounds = [t \in Tasks |-> None]
    /\ phase = "idle"
    /\ newest = 1
    /\ aged = 0
    /\ overtaken = FALSE

-----------------------------------------------------------------------------
(* The manager. *)

\* A retirement is for good.
EnsureOnlyMissing(f) == IF f = None THEN NewFeed(NoVolume) ELSE f

\* ensure: a feed for the site, or a retired one's successor. A retired feed has its
\* poller, and last_volume is what that poller works on.
Ensure(f) ==
    CASE f = None -> NewFeed(NoVolume)
      [] f # None /\ f.retired /\ f.waited -> NewFeed(f.poller.vol)
      [] OTHER -> f

ShouldPoll(f) == ~f.inFlight /\ ~f.retired /\ f.poller # None /\ f.due
TakeNow(f) == ~f.inFlight /\ ~f.retired

\* The round gets a copy and the feed is not marked.
BorrowedCopy(f) == [f EXCEPT !.due = FALSE]

\* The tail of take_now and take_for_round: mark it, and `feed.poller.take()`.
Borrowed(f) == [f EXCEPT !.due = FALSE, !.inFlight = TRUE, !.poller = None]

\* finish_round, on a feed that is there: a round that moved is the progress.
ErrorsAfter(f, r) == IF r.ok THEN 0 ELSE IF f.errors = MaxErrors THEN MaxErrors ELSE f.errors + 1
StalledAfter(f, r) == f.stalled /\ ~(r.ok /\ r.moved)
Retires(f, r) == ErrorsAfter(f, r) = MaxErrors \/ StalledAfter(f, r)

\* An Err returns before the poller is put back.
FinishOnlyOk(f, r) ==
    IF r.ok THEN [f EXCEPT !.poller = r.poller, !.inFlight = FALSE, !.errors = 0]
    ELSE [f EXCEPT !.errors = ErrorsAfter(f, r)]

FinishRound(f, r) ==
    [f EXCEPT !.poller = r.poller, !.inFlight = FALSE,
              !.errors = ErrorsAfter(f, r), !.stalled = StalledAfter(f, r),
              !.retired = @ \/ Retires(f, r), !.waited = @ /\ ~Retires(f, r)]

\* The feed is f from here on; the rounds of one it replaces stay out.
Becomes(f) ==
    /\ feed' = f
    /\ overtaken' = (overtaken \/ (Ensure(feed) # feed /\ Out # {}))

Full == Out = Tasks \/ Cardinality(Out) >= Room[newest]

\* Take f's poller and spawn a round with it. At the bound no round starts: an
\* interval may always be longer, a notification may always be lost.
Dispatch(f, asks) ==
    CASE Full -> Becomes(f) /\ UNCHANGED rounds
      [] ~Full /\ f.poller = None -> Becomes(Borrowed(f)) /\ UNCHANGED rounds
      [] OTHER ->
            /\ Becomes(Borrowed(f))
            /\ rounds' = [rounds EXCEPT ![CHOOSE t \in Tasks : rounds[t] = None] =
                  [poller |-> f.poller, asks |-> asks]]

-----------------------------------------------------------------------------
(* The frame. *)

\* What the bucket answers a round of these.
Outcomes(r) ==
    IF r.asks = Poll THEN PollOutcomes(r.poller, newest, aged)
    ELSE NotifiedOutcomes(r.poller, r.asks)

\* poll_chunk_results: one round has ended and its ChunkResponse is drained. The budget
\* may leave others to a later frame.
PollChunkResults(t) ==
    /\ phase = "idle"
    /\ rounds[t] # None
    /\ \E o \in Outcomes(rounds[t]) :
          feed' = IF feed = None THEN None ELSE FinishRound(feed, o)
    /\ rounds' = [rounds EXCEPT ![t] = None]
    /\ overtaken' = (overtaken /\ Out # {t})
    /\ UNCHANGED <<userVars, phase, bucketVars>>

\* drive_chunk_feeds, up to drive_chunk_notifications.
DriveChunkFeeds ==
    /\ phase = "idle"
    /\ phase' = "drives"
    /\ UNCHANGED <<userVars, roundVars, bucketVars>>

\* A notification that names no chunk: mark_due.
NotifiedSite ==
    /\ phase = "drives" /\ enabled
    /\ feed # None /\ ~feed.due
    /\ feed' = [feed EXCEPT !.due = TRUE]
    /\ UNCHANGED <<userVars, rounds, overtaken, phase, bucketVars>>

\* fetch_notified_chunk. The site may be one no pane is live on any more.
FetchNotifiedChunk(v) ==
    /\ phase = "drives" /\ enabled
    /\ IF TakeNow(Ensure(feed)) THEN Dispatch(Ensure(feed), v)
       ELSE Becomes(Ensure(feed)) /\ UNCHANGED rounds
    /\ UNCHANGED <<userVars, phase, bucketVars>>

\* retain_live: no pane is live on the site, or the setting is off.
RetainLive ==
    /\ phase = "drives" /\ ~Watched
    /\ feed' = None
    /\ phase' = "idle"
    /\ UNCHANGED <<userVars, rounds, overtaken, bucketVars>>

\* The loop over the live sites: ensure, then a round if one is due.
TakeForRound ==
    /\ phase = "drives" /\ Watched
    /\ IF ShouldPoll(Ensure(feed)) THEN Dispatch(Ensure(feed), Poll)
       ELSE Becomes(Ensure(feed)) /\ UNCHANGED rounds
    /\ phase' = "idle"
    /\ UNCHANGED <<userVars, bucketVars>>

-----------------------------------------------------------------------------
(* The user, the bucket and the clock. *)

HideOrShow ==
    /\ phase = "idle"
    /\ shown' = ~shown
    /\ UNCHANGED <<enabled, roundVars, phase, bucketVars>>

SwitchLiveChunks ==
    /\ phase = "idle"
    /\ enabled' = ~enabled
    /\ UNCHANGED <<shown, roundVars, phase, bucketVars>>

VolumeStarts ==
    /\ newest < VolBound
    /\ newest' = newest + 1
    /\ UNCHANGED <<userVars, roundVars, phase, aged>>

\* VOLUME_STALE is three volume periods: with no more than three volumes, none is past
\* it until the radar has stopped, and then they all are.
RadarFallsSilent ==
    /\ newest = VolBound /\ aged = 0
    /\ aged' = newest
    /\ UNCHANGED <<userVars, roundVars, phase, newest>>

IntervalPasses ==
    /\ feed # None /\ ~feed.due
    /\ feed' = [feed EXCEPT !.due = TRUE]
    /\ UNCHANGED <<userVars, rounds, overtaken, phase, bucketVars>>

StallPasses ==
    /\ feed # None /\ ~feed.stalled
    /\ feed' = [feed EXCEPT !.stalled = TRUE]
    /\ UNCHANGED <<userVars, rounds, overtaken, phase, bucketVars>>

RetryPasses ==
    /\ feed # None /\ feed.retired /\ ~feed.waited
    /\ feed' = [feed EXCEPT !.waited = TRUE]
    /\ UNCHANGED <<userVars, rounds, overtaken, phase, bucketVars>>

Frame ==
    \/ \E t \in Tasks : PollChunkResults(t)
    \/ DriveChunkFeeds
    \/ NotifiedSite
    \/ \E v \in 1..newest : FetchNotifiedChunk(v)
    \/ RetainLive
    \/ TakeForRound

Clock == RadarFallsSilent \/ IntervalPasses \/ StallPasses \/ RetryPasses

Next ==
    \/ Frame
    \/ HideOrShow \/ SwitchLiveChunks
    \/ VolumeStarts
    \/ Clock

FeedSpec == Init /\ [][Next]_vars

\* next_round_delay asks for the frame a feed at home is due in, the end of a round
\* for the one that drains it, and every frame drains at least one; rounds end, on
\* the executor's threads, and time passes.
FairFeedSpec ==
    /\ FeedSpec
    /\ \A t \in Tasks : SF_vars(PollChunkResults(t))
    /\ WF_vars(DriveChunkFeeds)
    /\ WF_vars(RetainLive \/ TakeForRound)
    /\ WF_vars(RadarFallsSilent) /\ WF_vars(IntervalPasses)
    /\ WF_vars(StallPasses) /\ WF_vars(RetryPasses)

-----------------------------------------------------------------------------
(* Properties. *)

\* Every variable has its type: a round has its poller, a feed may lack it.
TypeOK ==
    /\ shown \in BOOLEAN /\ enabled \in BOOLEAN /\ overtaken \in BOOLEAN
    /\ feed \in Feed \cup {None}
    /\ rounds \in [Tasks -> Round \cup {None}]
    /\ phase \in {"idle", "drives"}
    /\ newest \in Volumes
    /\ aged \in 0..newest

\* A feed without its poller waits for a round, and one that reads in flight has a
\* round out that will bring a poller back: whatever was hidden, rebuilt or fetched
\* since, no feed waits for a poller that went with another one (SiteFeed::poller,
\* "None only while a round is in flight").
PollerComesHome ==
    feed # None =>
        /\ feed.poller = None => feed.inFlight
        /\ feed.inFlight => Out # {}

\* Two rounds of a site are out together only where a feed was made over a round
\* still in the air; the flag of take_for_round and take_now excludes every other way
\* (drive_chunk_feeds, fetch_notified_chunk).
OneRoundUnlessOvertaken == \A s, t \in Out : s = t \/ overtaken

\* The pollers there are: the feed's own, and those out with a round.
Pollers ==
    {rounds[t].poller : t \in Out} \cup
    IF feed = None THEN {} ELSE {feed.poller} \ {None}

Ascending(s) == \A i, j \in DOMAIN s : i < j => s[i] < s[j]

\* A volume a roll closed is waiting in its poller until an outcome that leaves as Ok
\* carries it, and the oldest leaves first: no failed round drops one, repeats one or
\* lets a younger one pass (take_pending, deliver_or_queue, park_for_next_round).
ClosedVolumesQueue ==
    \A p \in Pollers :
        /\ Ascending(p.pending)
        /\ {p.pending[i] : i \in DOMAIN p.pending} = p.owed

\* A site that is watched with its feed on has a round dispatched again and again,
\* after failures, retirements, and rounds that other fetches overtook.
SiteIsPolledAgain == Watched ~> (Out # {} \/ ~Watched)

\* STALL and Retirement::Stalled: a watched site whose radar has gone silent is retired
\* again and again, so that the archive serves it (chunk_feed.rs, "How long a feed may
\* make no progress at all before it is retired").
SilentSiteRetires == <>[]Watched => []<>(feed # None /\ feed.retired)

=============================================================================
