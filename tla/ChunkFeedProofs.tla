-------------------------- MODULE ChunkFeedProofs ----------------------------
(***************************************************************************)
(* Theorems about one site's feed, for any number of volumes, of rounds in *)
(* the air and of errors before a retirement.                              *)
(***************************************************************************)
EXTENDS ChunkFeed, TLAPS

(* A round under way. *)
Underway == [poller : Poller, closed : Volumes \cup {NoVolume}, moved : BOOLEAN]
Ended == [poller : Poller, ok : BOOLEAN, moved : BOOLEAN]

LEMMA TakePendingType == ASSUME NEW p \in Poller PROVE TakePending(p) \in Underway
  <1>1. CASE p.pending = <<>>
    BY <1>1 DEF TakePending, Underway
  <1>2. CASE p.pending # <<>>
    <2>1. Head(p.pending) \in Volumes /\ Tail(p.pending) \in Seq(Volumes)
      BY <1>2 DEF Poller
    <2>2. [p EXCEPT !.pending = Tail(@)] \in Poller
      BY <2>1 DEF Poller
    <2>3. QED
      BY <1>2, <2>1, <2>2 DEF TakePending, Underway
  <1>3. QED
    BY <1>1, <1>2

LEMMA BeginType ==
    ASSUME NEW r \in Underway, NEW v \in Volumes PROVE Begin(r, v) \in Underway
  <1>1. [r.poller EXCEPT !.vol = v, !.known = FALSE, !.ended = FALSE] \in Poller
    BY DEF Underway, Poller
  <1>2. QED
    BY <1>1 DEF Begin, Underway

LEMMA RollType ==
    ASSUME NEW r \in Underway, r.poller.vol \in Volumes, NEW v \in Volumes
    PROVE  Roll(r, v) \in Underway
  <1> DEFINE old == r.poller.vol
             closing == [r EXCEPT !.poller.owed = @ \cup {old}]
             queued == [closing.poller EXCEPT !.pending = Append(@, old)]
  <1>1. r.poller \in Poller
    BY DEF Underway
  <1>2. [r.poller EXCEPT !.owed = @ \cup {old}] \in Poller
    BY <1>1 DEF Poller
  <1>3. closing \in Underway /\ closing.poller = [r.poller EXCEPT !.owed = @ \cup {old}]
    BY <1>2 DEF Underway
  <1>4. [closing EXCEPT !.closed = old] \in Underway
    BY <1>3 DEF Underway
  <1>5. Append(closing.poller.pending, old) \in Seq(Volumes)
    BY <1>2, <1>3 DEF Poller
  <1>6. queued \in Poller
    BY <1>2, <1>3, <1>5 DEF Poller
  <1>7. [closing EXCEPT !.poller.pending = Append(@, old)] \in Underway
    BY <1>3, <1>6 DEF Underway
  <1>8. DeliverOrQueue(r, old) \in Underway
    BY <1>4, <1>7 DEF DeliverOrQueue
  <1>9. QED
    BY <1>8, BeginType DEF Roll

LEMMA EndsType ==
    ASSUME NEW r \in Underway PROVE Lands(r) \in Ended /\ Fails(r) \in Ended
  <1>1. r.poller \in Poller /\ r.closed \in Volumes \cup {NoVolume}
    BY DEF Underway
  <1>2. [r.poller EXCEPT !.owed = @ \ {r.closed}] \in Poller
    BY <1>1 DEF Poller
  <1>3. Lands(r) \in Ended
    BY <1>2 DEF Lands, Ended, Underway
  <1>4. CASE r.closed = NoVolume
    BY <1>1, <1>3, <1>4 DEF Fails, Ended
  <1>5. CASE r.closed # NoVolume
    <2>1. <<r.closed>> \in Seq(Volumes) /\ r.poller.pending \in Seq(Volumes)
      BY <1>1, <1>5 DEF Poller
    <2>2. <<r.closed>> \o r.poller.pending \in Seq(Volumes)
      BY <2>1
    <2>3. [r.poller EXCEPT !.pending = <<r.closed>> \o @] \in Poller
      BY <1>1, <2>2 DEF Poller
    <2>4. QED
      BY <1>3, <1>5, <2>3 DEF Fails, Ended
  <1>6. QED
    BY <1>4, <1>5

LEMMA FilledType == ASSUME NEW r \in Underway PROVE Filled(r) \subseteq Ended
  <1>1. ASSUME NEW e \in BOOLEAN
        PROVE  [r EXCEPT !.poller.known = TRUE, !.poller.ended = e, !.moved = TRUE]
                  \in Underway
    <2>1. [r.poller EXCEPT !.known = TRUE, !.ended = e] \in Poller
      BY DEF Underway, Poller
    <2>2. QED
      BY <2>1 DEF Underway
  <1>2. Ingests(r) \subseteq Underway
    BY <1>1 DEF Ingests
  <1>3. \A s \in Ingests(r) : Lands(s) \in Ended /\ Fails(s) \in Ended
    BY <1>2, EndsType
  <1>4. QED
    BY <1>3 DEF Filled

(* However a round goes, it ends with a poller. *)
LEMMA PollType ==
    ASSUME NEW p \in Poller, NEW n \in Volumes, NEW a \in Int
    PROVE  PollOutcomes(p, n, a) \subseteq Ended
  <1> DEFINE r == TakePending(p)
  <1>1. r \in Underway /\ r.poller.vol = p.vol
    BY TakePendingType DEF TakePending, Poller
  <1>2. p.vol \in Volumes \cup {NoVolume}
    BY DEF Poller
  <1>3. Fails(r) \in Ended /\ Lands(r) \in Ended
    BY <1>1, EndsType
  <1>4. Filled(r) \subseteq Ended /\ Filled(Begin(r, n)) \subseteq Ended
    BY <1>1, BeginType, FilledType
  <1>5. ASSUME p.vol # NoVolume, n > p.vol PROVE Filled(Roll(r, p.vol + 1)) \subseteq Ended
    <2>1. p.vol \in Volumes /\ p.vol + 1 \in Volumes
      BY <1>2, <1>5, VolAssumption DEF Volumes
    <2>2. QED
      BY <1>1, <2>1, RollType, FilledType
  <1> HIDE DEF r
  <1>6. CASE p.vol = NoVolume \/ (p.known /\ p.vol <= a)
    BY <1>3, <1>4, <1>6 DEF PollOutcomes, r
  <1>7. CASE p.vol # NoVolume /\ ~(p.known /\ p.vol <= a) /\ ~p.ended
    BY <1>4, <1>7 DEF PollOutcomes, r
  <1>8. CASE p.vol # NoVolume /\ ~(p.known /\ p.vol <= a) /\ p.ended
    <2>1. PollOutcomes(p, n, a) = {Fails(r)} \cup
              (IF n > p.vol THEN Filled(Roll(r, p.vol + 1)) ELSE {Lands(r)})
      BY <1>8 DEF PollOutcomes, r
    <2>2. QED
      BY <1>3, <1>5, <1>8, <2>1
  <1>9. QED
    BY <1>6, <1>7, <1>8

LEMMA FetchedIsFilled == ASSUME NEW r \in Underway PROVE Fetched(r) \subseteq Filled(r)
  <1>1. r \in Ingests(r)
    BY DEF Ingests
  <1>2. QED
    BY <1>1 DEF Fetched, Filled

LEMMA NotifiedType ==
    ASSUME NEW p \in Poller, NEW v \in Volumes
    PROVE  NotifiedOutcomes(p, v) \subseteq Ended
  <1> DEFINE r == TakePending(p)
  <1>1. r \in Underway /\ r.poller.vol = p.vol
    BY TakePendingType DEF TakePending, Poller
  <1>2. p.vol \in Volumes \cup {NoVolume}
    BY DEF Poller
  <1>3. Fails(r) \in Ended /\ Lands(r) \in Ended
    BY <1>1, EndsType
  <1>4. Fetched(r) \subseteq Ended /\ Fetched(Begin(r, v)) \subseteq Ended
    BY <1>1, BeginType, FilledType, FetchedIsFilled
  <1>5. ASSUME p.vol # NoVolume PROVE Fetched(Roll(r, v)) \subseteq Ended
    BY <1>1, <1>2, <1>5, RollType, FilledType, FetchedIsFilled
  <1> HIDE DEF r
  <1>6. QED
    BY <1>3, <1>4, <1>5 DEF NotifiedOutcomes, r

(* A retired feed has its poller; and while no feed was made over a round  *)
(* in the air, the round that is out is the one the feed waits for.        *)
RetiredAtHome == feed # None /\ feed.retired => ~feed.inFlight
OutIsAwaited == overtaken \/ (feed # None /\ Out # {} => feed.inFlight)

FeedInv == TypeOK /\ PollerComesHome /\ RetiredAtHome /\ OneRoundUnlessOvertaken /\ OutIsAwaited

(* The feed that is there after ensure. *)
LEMMA EnsureType ==
    ASSUME FeedInv
    PROVE  /\ Ensure(feed) \in Feed
           /\ Ensure(feed).poller = None => Ensure(feed).inFlight
           /\ Ensure(feed).retired => ~Ensure(feed).inFlight
           /\ Ensure(feed).inFlight => Ensure(feed) = feed /\ feed # None
  <1>0. feed \in Feed \cup {None} /\ PollerComesHome /\ RetiredAtHome
    BY DEF FeedInv, TypeOK
  <1>1. ASSUME NEW v \in Volumes \cup {NoVolume}
        PROVE  /\ NewFeed(v) \in Feed
               /\ ~NewFeed(v).inFlight /\ NewFeed(v).poller # None
    <2>1. <<>> \in Seq(Volumes) /\ {} \in SUBSET Volumes
      OBVIOUS
    <2>2. ResumeAt(v) \in Poller
      BY <2>1 DEF ResumeAt, Poller
    <2>3. 0 \in 0..MaxErrors
      BY FeedAssumption
    <2>4. QED
      BY <2>2, <2>3, FeedAssumption DEF NewFeed, Feed
  <1>2. CASE feed = None
    BY <1>1, <1>2 DEF Ensure
  <1>3. CASE feed # None /\ feed.retired /\ feed.waited
    <2>1. feed.poller \in Poller
      BY <1>0, <1>3 DEF RetiredAtHome, PollerComesHome, Feed
    <2>2. feed.poller.vol \in Volumes \cup {NoVolume}
      BY <2>1 DEF Poller
    <2>3. Ensure(feed) = NewFeed(feed.poller.vol)
      BY <1>3 DEF Ensure
    <2>4. QED
      BY <1>1, <2>2, <2>3
  <1>4. CASE feed # None /\ ~(feed.retired /\ feed.waited)
    <2>1. Ensure(feed) = feed
      BY <1>4 DEF Ensure
    <2>2. QED
      BY <1>0, <1>4, <2>1 DEF PollerComesHome, RetiredAtHome
  <1>5. QED
    BY <1>2, <1>3, <1>4

(* Any round is taken from a feed that lets go of it, and leaves the rest alone. *)
LEMMA EnsureKeeps ==
    ASSUME FeedInv, Becomes(Ensure(feed)), UNCHANGED rounds,
           UNCHANGED <<userVars, bucketVars>>, phase' \in {"idle", "drives"}
    PROVE  FeedInv'
  <1> DEFINE f == Ensure(feed)
  <1>1. /\ feed' = f /\ f \in Feed /\ f # None
        /\ f.poller = None => f.inFlight
        /\ f.retired => ~f.inFlight
        /\ f.inFlight => f = feed /\ feed # None
    <2>1. None \notin Feed
      BY FeedAssumption
    <2>2. QED
      BY <2>1, EnsureType DEF Becomes
  <1>2. Out' = Out
    BY DEF Out
  <1>3. overtaken' = (overtaken \/ (f # feed /\ Out # {})) /\ overtaken \in BOOLEAN
    BY DEF Becomes, FeedInv, TypeOK
  <1> HIDE DEF f
  <1>4. TypeOK'
    BY <1>1, <1>3 DEF FeedInv, TypeOK, userVars, bucketVars
  <1>5. PollerComesHome' /\ RetiredAtHome'
    BY <1>1, <1>2 DEF FeedInv, PollerComesHome, RetiredAtHome
  <1>6. OneRoundUnlessOvertaken' /\ OutIsAwaited'
    BY <1>1, <1>2, <1>3 DEF FeedInv, OneRoundUnlessOvertaken, OutIsAwaited
  <1>7. QED
    BY <1>4, <1>5, <1>6 DEF FeedInv

LEMMA DispatchKeeps ==
    ASSUME FeedInv, ~Ensure(feed).inFlight, ~Ensure(feed).retired,
           NEW asks \in Volumes \cup {Poll}, Dispatch(Ensure(feed), asks),
           UNCHANGED <<userVars, bucketVars>>, phase' \in {"idle", "drives"}
    PROVE  FeedInv'
  <1> DEFINE f == Ensure(feed)
             b == Borrowed(f)
             t == CHOOSE x \in Tasks : rounds[x] = None
             r == [poller |-> f.poller, asks |-> asks]
  <1>1. /\ f \in Feed /\ f.poller # None /\ ~f.inFlight /\ ~f.retired
        /\ f.poller \in Poller
    BY EnsureType DEF Feed
  <1>2. CASE Full
    BY <1>2, EnsureKeeps DEF Dispatch
  <1>3. CASE ~Full
    <2>1. /\ Becomes(b)
          /\ rounds' = [rounds EXCEPT ![t] = r]
      BY <1>1, <1>3 DEF Dispatch
    <2>2. t \in Tasks /\ rounds[t] = None
      BY <1>3 DEF Full, Out
    <2>3. b \in Feed /\ b.inFlight /\ ~b.retired
      BY <1>1 DEF Borrowed, Feed
    <2>4. r \in Round /\ r # None
      BY <1>1, FeedAssumption DEF Round
    <2>5. /\ feed' = b
          /\ overtaken' = (overtaken \/ (f # feed /\ Out # {}))
          /\ overtaken \in BOOLEAN
          /\ rounds \in [Tasks -> Round \cup {None}]
      BY <2>1 DEF Becomes, FeedInv, TypeOK
    <2>6. ~overtaken' => Out = {}
      <3>1. CASE f = feed
        <4>1. feed # None
          BY <1>1, <3>1, FeedAssumption
        <4>2. QED
          BY <1>1, <2>5, <3>1, <4>1 DEF FeedInv, OutIsAwaited
      <3>2. CASE f # feed
        BY <2>5, <3>2
      <3>3. QED
        BY <3>1, <3>2
    <2> HIDE DEF f, b, t, r
    <2>7. Out' = Out \cup {t}
      BY <2>1, <2>2, <2>4, <2>5 DEF Out
    <2>8. TypeOK'
      BY <2>1, <2>3, <2>4, <2>5 DEF FeedInv, TypeOK, userVars, bucketVars
    <2>9. PollerComesHome' /\ RetiredAtHome'
      BY <2>3, <2>5, <2>7 DEF PollerComesHome, RetiredAtHome
    <2>10. OneRoundUnlessOvertaken' /\ OutIsAwaited'
      BY <2>3, <2>5, <2>6, <2>7 DEF OneRoundUnlessOvertaken, OutIsAwaited
    <2>11. QED
      BY <2>8, <2>9, <2>10 DEF FeedInv
  <1>4. QED
    BY <1>2, <1>3

(* finish_round, for a round that came back. *)
LEMMA ArrivalKeeps ==
    ASSUME FeedInv, NEW t \in Tasks, PollChunkResults(t)
    PROVE  FeedInv'
  <1>1. /\ rounds \in [Tasks -> Round \cup {None}]
        /\ feed \in Feed \cup {None} /\ newest \in Volumes /\ aged \in Int
        /\ overtaken \in BOOLEAN
    BY DEF FeedInv, TypeOK
  <1>2. rounds[t] # None /\ rounds[t] \in Round
    BY <1>1 DEF PollChunkResults
  <1>3. Outcomes(rounds[t]) \subseteq Ended
    BY <1>1, <1>2, PollType, NotifiedType DEF Outcomes, Round, Poll
  <1>4. PICK o \in Outcomes(rounds[t]) :
          feed' = IF feed = None THEN None ELSE FinishRound(feed, o)
    BY DEF PollChunkResults
  <1>5. ASSUME feed # None
        PROVE  /\ feed' \in Feed /\ ~feed'.inFlight /\ feed'.poller # None
    <2>1. o.poller \in Poller /\ o \in Ended
      BY <1>3, <1>4 DEF Ended
    <2>2. feed \in Feed /\ feed' = FinishRound(feed, o)
      BY <1>1, <1>4, <1>5
    <2>3. ErrorsAfter(feed, o) \in 0..MaxErrors
      BY <2>2, FeedAssumption DEF ErrorsAfter, Feed
    <2>4. StalledAfter(feed, o) \in BOOLEAN
      BY DEF StalledAfter
    <2>5. (feed.retired \/ Retires(feed, o)) \in BOOLEAN
          /\ (feed.waited /\ ~Retires(feed, o)) \in BOOLEAN
      OBVIOUS
    <2>6. QED
      BY <2>1, <2>2, <2>3, <2>4, <2>5, FeedAssumption DEF FinishRound, Feed
  <1>6. feed = None => feed' = None
    BY <1>4
  <1>7. Out' = Out \ {t} /\ t \in Out
    BY <1>1, <1>2 DEF PollChunkResults, Out
  <1>8. overtaken' = (overtaken /\ Out # {t})
    BY DEF PollChunkResults
  <1>9. TypeOK'
    <2>1. feed' \in Feed \cup {None}
      BY <1>5, <1>6
    <2>2. rounds' \in [Tasks -> Round \cup {None}]
      BY <1>1 DEF PollChunkResults
    <2>3. QED
      BY <1>8, <2>1, <2>2 DEF PollChunkResults, FeedInv, TypeOK, userVars, bucketVars
  <1>10. PollerComesHome' /\ RetiredAtHome'
    BY <1>5, <1>6 DEF PollerComesHome, RetiredAtHome
  <1>11. ~overtaken' => Out' = {}
    BY <1>1, <1>7, <1>8 DEF FeedInv, OneRoundUnlessOvertaken
  <1>12. OneRoundUnlessOvertaken' /\ OutIsAwaited'
    BY <1>11 DEF OneRoundUnlessOvertaken, OutIsAwaited
  <1>13. QED
    BY <1>9, <1>10, <1>12 DEF FeedInv

(* Time and notifications only touch what no flag of the invariant reads. *)
LEMMA FlagsKeep ==
    ASSUME FeedInv, feed # None, feed' \in Feed,
           feed'.poller = feed.poller, feed'.inFlight = feed.inFlight,
           feed'.retired = feed.retired,
           UNCHANGED <<userVars, rounds, overtaken, phase, bucketVars>>
    PROVE  FeedInv'
  <1>1. Out' = Out
    BY DEF Out
  <1>2. feed' # None
    BY FeedAssumption
  <1>3. TypeOK'
    BY DEF FeedInv, TypeOK, userVars, bucketVars
  <1>4. PollerComesHome' /\ RetiredAtHome'
    BY <1>1, <1>2 DEF FeedInv, PollerComesHome, RetiredAtHome
  <1>5. OneRoundUnlessOvertaken' /\ OutIsAwaited'
    BY <1>1, <1>2 DEF FeedInv, OneRoundUnlessOvertaken, OutIsAwaited
  <1>6. QED
    BY <1>3, <1>4, <1>5 DEF FeedInv

(* What happens outside the feed does not disturb it. *)
LEMMA OutsideKeeps ==
    ASSUME FeedInv, UNCHANGED roundVars, TypeOK'
    PROVE  FeedInv'
  <1>1. Out' = Out
    BY DEF Out, roundVars
  <1>2. QED
    BY <1>1 DEF FeedInv, PollerComesHome, RetiredAtHome, OneRoundUnlessOvertaken,
                OutIsAwaited, roundVars

LEMMA FeedInit == ASSUME Init PROVE FeedInv
  <1>1. Out = {}
    BY DEF Init, Out
  <1>2. 1 \in Volumes /\ aged \in 0..newest
    BY VolAssumption DEF Init, Volumes
  <1>3. TypeOK
    BY <1>2 DEF Init, TypeOK
  <1>4. QED
    BY <1>1, <1>3 DEF Init, FeedInv, PollerComesHome, RetiredAtHome,
                      OneRoundUnlessOvertaken, OutIsAwaited

LEMMA FeedStep == ASSUME FeedInv, [Next]_vars PROVE FeedInv'
  <1> USE DEF Frame, Clock
  <1>0. TypeOK
    BY DEF FeedInv
  <1>1. ASSUME NEW t \in Tasks, PollChunkResults(t) PROVE FeedInv'
    BY <1>1, ArrivalKeeps
  <1>2. CASE DriveChunkFeeds
    <2>1. TypeOK'
      BY <1>0, <1>2 DEF DriveChunkFeeds, TypeOK, userVars, roundVars, bucketVars
    <2>2. QED
      BY <1>2, <2>1, OutsideKeeps DEF DriveChunkFeeds
  <1>3. CASE NotifiedSite \/ IntervalPasses
    <2>1. feed # None /\ feed \in Feed /\ feed' = [feed EXCEPT !.due = TRUE]
      BY <1>0, <1>3 DEF NotifiedSite, IntervalPasses, TypeOK
    <2>2. UNCHANGED <<userVars, rounds, overtaken, phase, bucketVars>>
      BY <1>3 DEF NotifiedSite, IntervalPasses
    <2>3. feed' \in Feed /\ feed'.poller = feed.poller
          /\ feed'.inFlight = feed.inFlight /\ feed'.retired = feed.retired
      BY <2>1 DEF Feed
    <2>4. QED
      BY <2>1, <2>2, <2>3, FlagsKeep
  <1>4. CASE StallPasses
    <2>1. feed # None /\ feed \in Feed /\ feed' = [feed EXCEPT !.stalled = TRUE]
      BY <1>0, <1>4 DEF StallPasses, TypeOK
    <2>2. feed' \in Feed /\ feed'.poller = feed.poller
          /\ feed'.inFlight = feed.inFlight /\ feed'.retired = feed.retired
      BY <2>1 DEF Feed
    <2>3. QED
      BY <1>4, <2>1, <2>2, FlagsKeep DEF StallPasses
  <1>5. CASE RetryPasses
    <2>1. feed # None /\ feed \in Feed /\ feed' = [feed EXCEPT !.waited = TRUE]
      BY <1>0, <1>5 DEF RetryPasses, TypeOK
    <2>2. feed' \in Feed /\ feed'.poller = feed.poller
          /\ feed'.inFlight = feed.inFlight /\ feed'.retired = feed.retired
      BY <2>1 DEF Feed
    <2>3. QED
      BY <1>5, <2>1, <2>2, FlagsKeep DEF RetryPasses
  <1>6. ASSUME NEW v \in 1..newest, FetchNotifiedChunk(v) PROVE FeedInv'
    <2>1. v \in Volumes
      BY <1>0, <1>6, VolAssumption DEF TypeOK, Volumes
    <2>2. UNCHANGED <<userVars, bucketVars>> /\ phase' \in {"idle", "drives"}
      BY <1>0, <1>6 DEF FetchNotifiedChunk, TypeOK
    <2>3. CASE TakeNow(Ensure(feed))
      BY <1>6, <2>1, <2>2, <2>3, DispatchKeeps DEF FetchNotifiedChunk, TakeNow
    <2>4. CASE ~TakeNow(Ensure(feed))
      BY <1>6, <2>2, <2>4, EnsureKeeps DEF FetchNotifiedChunk
    <2>5. QED
      BY <2>3, <2>4
  <1>7. CASE RetainLive
    <2>1. Out' = Out
      BY <1>7 DEF RetainLive, Out
    <2>2. TypeOK'
      BY <1>0, <1>7 DEF RetainLive, TypeOK, userVars, bucketVars
    <2>3. OneRoundUnlessOvertaken'
      BY <1>7, <2>1 DEF RetainLive, FeedInv, OneRoundUnlessOvertaken
    <2>4. QED
      BY <1>7, <2>2, <2>3 DEF RetainLive, FeedInv, PollerComesHome, RetiredAtHome, OutIsAwaited
  <1>8. CASE TakeForRound
    <2>1. UNCHANGED <<userVars, bucketVars>> /\ phase' \in {"idle", "drives"}
      BY <1>8 DEF TakeForRound
    <2>2. CASE ShouldPoll(Ensure(feed))
      BY <1>8, <2>1, <2>2, DispatchKeeps DEF TakeForRound, ShouldPoll
    <2>3. CASE ~ShouldPoll(Ensure(feed))
      BY <1>8, <2>1, <2>3, EnsureKeeps DEF TakeForRound
    <2>4. QED
      BY <2>2, <2>3
  <1>9. CASE HideOrShow \/ SwitchLiveChunks
    <2>1. TypeOK'
      BY <1>0, <1>9 DEF HideOrShow, SwitchLiveChunks, TypeOK, roundVars, bucketVars
    <2>2. QED
      BY <1>9, <2>1, OutsideKeeps DEF HideOrShow, SwitchLiveChunks
  <1>10. CASE VolumeStarts \/ RadarFallsSilent
    <2>1. newest' \in Volumes /\ aged' \in 0..newest'
      BY <1>0, <1>10, VolAssumption DEF VolumeStarts, RadarFallsSilent, TypeOK, Volumes
    <2>2. TypeOK'
      BY <1>0, <1>10, <2>1 DEF VolumeStarts, RadarFallsSilent, TypeOK, userVars, roundVars
    <2>3. QED
      BY <1>10, <2>2, OutsideKeeps DEF VolumeStarts, RadarFallsSilent
  <1>11. CASE UNCHANGED vars
    <2>1. TypeOK'
      BY <1>0, <1>11 DEF vars, TypeOK, userVars, roundVars, bucketVars
    <2>2. QED
      BY <1>11, <2>1, OutsideKeeps DEF vars
  <1>12. QED
    BY <1>1, <1>2, <1>3, <1>4, <1>5, <1>6, <1>7, <1>8, <1>9, <1>10, <1>11 DEF Next

(* However the site is hidden, shown, switched and notified about, a feed   *)
(* without its poller has a round out that brings one back.                 *)
THEOREM PollersComeHome == FeedSpec => []PollerComesHome
  <1>1. Init => FeedInv
    BY FeedInit
  <1>2. FeedInv /\ [Next]_vars => FeedInv'
    BY FeedStep
  <1>3. FeedInv => PollerComesHome
    BY DEF FeedInv
  <1>4. QED
    BY <1>1, <1>2, <1>3, PTL DEF FeedSpec

(* Two rounds are out together only after a feed was made over one.         *)
THEOREM RoundsAreSerial == FeedSpec => []OneRoundUnlessOvertaken
  <1>1. Init => FeedInv
    BY FeedInit
  <1>2. FeedInv /\ [Next]_vars => FeedInv'
    BY FeedStep
  <1>3. FeedInv => OneRoundUnlessOvertaken
    BY DEF FeedInv
  <1>4. QED
    BY <1>1, <1>2, <1>3, PTL DEF FeedSpec

(* The types of a feed, its poller and the rounds in the air.               *)
THEOREM FeedTyping == FeedSpec => []TypeOK
  <1>1. Init => FeedInv
    BY FeedInit
  <1>2. FeedInv /\ [Next]_vars => FeedInv'
    BY FeedStep
  <1>3. FeedInv => TypeOK
    BY DEF FeedInv
  <1>4. QED
    BY <1>1, <1>2, <1>3, PTL DEF FeedSpec

-----------------------------------------------------------------------------
(* The queue: no closed volume is lost, repeated or overtaken in it.        *)

Elements(s) == {s[i] : i \in DOMAIN s}

(* The three ways a queue changes: at its front, at its back, at its front again. *)
LEMMA AscendingTail ==
    ASSUME NEW s \in Seq(Volumes), s # <<>>, Ascending(s)
    PROVE  /\ Ascending(Tail(s))
           /\ \A i \in DOMAIN Tail(s) : Head(s) < Tail(s)[i]
           /\ Elements(s) = Elements(Tail(s)) \cup {Head(s)}
  <1>1. /\ Len(s) \in Nat \ {0} /\ DOMAIN s = 1..Len(s) /\ Head(s) = s[1]
        /\ DOMAIN Tail(s) = 1..(Len(s) - 1)
        /\ \A i \in 1..(Len(s) - 1) : Tail(s)[i] = s[i + 1]
    OBVIOUS
  <1>2. Ascending(Tail(s))
    BY <1>1 DEF Ascending
  <1>3. \A i \in DOMAIN Tail(s) : Head(s) < Tail(s)[i]
    BY <1>1 DEF Ascending
  <1>4. Elements(s) \subseteq Elements(Tail(s)) \cup {Head(s)}
    <2>1. ASSUME NEW i \in 1..Len(s), i # 1 PROVE s[i] \in Elements(Tail(s))
      <3>1. i - 1 \in 1..(Len(s) - 1) /\ s[i] = Tail(s)[i - 1]
        BY <1>1, <2>1
      <3>2. QED
        BY <1>1, <3>1 DEF Elements
    <2>2. QED
      BY <1>1, <2>1 DEF Elements
  <1>5. Elements(Tail(s)) \cup {Head(s)} \subseteq Elements(s)
    <2>1. \A i \in 1..(Len(s) - 1) : i + 1 \in 1..Len(s)
      BY <1>1
    <2>2. 1 \in 1..Len(s)
      BY <1>1
    <2>3. QED
      BY <1>1, <2>1, <2>2 DEF Elements
  <1>6. QED
    BY <1>2, <1>3, <1>4, <1>5

LEMMA AscendingAppend ==
    ASSUME NEW s \in Seq(Volumes), NEW v \in Volumes, Ascending(s),
           \A x \in Elements(s) : x < v
    PROVE  Ascending(Append(s, v)) /\ Elements(Append(s, v)) = Elements(s) \cup {v}
  <1>1. /\ Len(s) \in Nat /\ DOMAIN s = 1..Len(s)
        /\ DOMAIN Append(s, v) = 1..(Len(s) + 1)
        /\ \A i \in 1..Len(s) : Append(s, v)[i] = s[i]
        /\ Append(s, v)[Len(s) + 1] = v
    OBVIOUS
  <1>2. \A i \in 1..Len(s) : s[i] < v
    BY <1>1 DEF Elements
  <1>3. Ascending(Append(s, v))
    BY <1>1, <1>2 DEF Ascending
  <1>4. 1..(Len(s) + 1) = 1..Len(s) \cup {Len(s) + 1}
    BY <1>1
  <1>5. QED
    BY <1>1, <1>3, <1>4 DEF Elements

LEMMA AscendingFront ==
    ASSUME NEW s \in Seq(Volumes), NEW v \in Volumes, Ascending(s),
           \A i \in DOMAIN s : v < s[i]
    PROVE  Ascending(<<v>> \o s) /\ Elements(<<v>> \o s) = Elements(s) \cup {v}
  <1> DEFINE q == <<v>> \o s
  <1>1. /\ Len(s) \in Nat /\ DOMAIN s = 1..Len(s)
        /\ DOMAIN q = 1..(Len(s) + 1)
        /\ q[1] = v
        /\ \A i \in 2..(Len(s) + 1) : q[i] = s[i - 1]
    OBVIOUS
  <1> HIDE DEF q
  <1>2. Ascending(q)
    BY <1>1 DEF Ascending
  <1>3. Elements(q) \subseteq Elements(s) \cup {v}
    <2>1. ASSUME NEW i \in 1..(Len(s) + 1), i # 1 PROVE q[i] \in Elements(s)
      <3>1. i - 1 \in 1..Len(s) /\ q[i] = s[i - 1]
        BY <1>1, <2>1
      <3>2. QED
        BY <1>1, <3>1 DEF Elements
    <2>2. QED
      BY <1>1, <2>1 DEF Elements
  <1>4. Elements(s) \cup {v} \subseteq Elements(q)
    <2>1. ASSUME NEW i \in 1..Len(s) PROVE s[i] \in Elements(q)
      <3>1. i + 1 \in 1..(Len(s) + 1) /\ q[i + 1] = s[i]
        BY <1>1, <2>1
      <3>2. QED
        BY <1>1, <3>1 DEF Elements
    <2>2. 1 \in 1..(Len(s) + 1)
      BY <1>1
    <2>3. QED
      BY <1>1, <2>1, <2>2 DEF Elements
  <1>5. QED
    BY <1>2, <1>3, <1>4 DEF q

(* A poller at rest, and one in a round: what the round carries is the oldest. *)
QueueOK(p, n) ==
    /\ Ascending(p.pending)
    /\ Elements(p.pending) = p.owed
    /\ \A x \in p.owed : x < p.vol
    /\ p.vol <= n

CarriedOK(r, n) ==
    /\ Ascending(r.poller.pending)
    /\ \A i \in DOMAIN r.poller.pending : r.closed < r.poller.pending[i]
    /\ r.poller.owed = Elements(r.poller.pending) \cup ({r.closed} \ {NoVolume})
    /\ r.closed = NoVolume => r.poller.pending = <<>>
    /\ \A x \in r.poller.owed : x < r.poller.vol
    /\ r.poller.vol <= n

LEMMA TakeQueue ==
    ASSUME NEW p \in Poller, NEW n \in Int, QueueOK(p, n)
    PROVE  CarriedOK(TakePending(p), n)
  <1>1. CASE p.pending = <<>>
    <2>1. TakePending(p).poller = p /\ TakePending(p).closed = NoVolume
      BY <1>1 DEF TakePending
    <2>2. DOMAIN p.pending = {}
      BY <1>1
    <2>3. QED
      BY <1>1, <2>1, <2>2 DEF QueueOK, CarriedOK
  <1>2. CASE p.pending # <<>>
    <2>1. p.pending \in Seq(Volumes)
      BY DEF Poller
    <2>2. Head(p.pending) \in Volumes
      BY <1>2, <2>1
    <2>3. /\ TakePending(p).poller.pending = Tail(p.pending)
          /\ TakePending(p).poller.owed = p.owed
          /\ TakePending(p).poller.vol = p.vol
          /\ TakePending(p).closed = Head(p.pending)
      BY <1>2 DEF TakePending, Poller
    <2>4. Head(p.pending) # NoVolume
      BY <2>2 DEF Volumes, NoVolume
    <2>5. Ascending(p.pending) /\ Elements(p.pending) = p.owed
      BY DEF QueueOK
    <2>6. /\ Ascending(Tail(p.pending))
          /\ \A i \in DOMAIN Tail(p.pending) : Head(p.pending) < Tail(p.pending)[i]
          /\ p.owed = Elements(Tail(p.pending)) \cup {Head(p.pending)}
      BY <1>2, <2>1, <2>5, AscendingTail
    <2>7. QED
      BY <2>3, <2>4, <2>6 DEF QueueOK, CarriedOK
  <1>3. QED
    BY <1>1, <1>2

LEMMA BeginQueue ==
    ASSUME NEW r \in Underway, NEW n \in Int, CarriedOK(r, n),
           NEW v \in Volumes, r.poller.vol <= v, v <= n
    PROVE  CarriedOK(Begin(r, v), n)
  <1>1. r.poller \in Poller /\ r.poller.vol \in Int /\ r.poller.owed \subseteq Volumes
    BY VolAssumption DEF Underway, Poller, Volumes, NoVolume
  <1>2. /\ Begin(r, v).poller.pending = r.poller.pending
        /\ Begin(r, v).poller.owed = r.poller.owed
        /\ Begin(r, v).poller.vol = v
        /\ Begin(r, v).closed = r.closed
    BY <1>1 DEF Begin, Underway, Poller
  <1>3. \A x \in r.poller.owed : x < v
    BY <1>1, VolAssumption DEF CarriedOK, Volumes
  <1>4. QED
    BY <1>2, <1>3 DEF CarriedOK

LEMMA RollQueue ==
    ASSUME NEW r \in Underway, NEW n \in Int, CarriedOK(r, n), r.poller.vol \in Volumes,
           NEW v \in Volumes, r.poller.vol < v, v <= n
    PROVE  CarriedOK(Roll(r, v), n)
  <1> DEFINE old == r.poller.vol
             d == DeliverOrQueue(r, old)
  <1>1. /\ r.poller \in Poller /\ r.closed \in Volumes \cup {NoVolume}
        /\ r.poller.pending \in Seq(Volumes) /\ r.poller.owed \subseteq Volumes
        /\ old \in Volumes
    BY DEF Underway, Poller
  <1>2. \A x \in Volumes : x \in Int /\ x # NoVolume
    BY VolAssumption DEF Volumes, NoVolume
  <1>3. /\ Ascending(d.poller.pending)
        /\ \A i \in DOMAIN d.poller.pending : d.closed < d.poller.pending[i]
        /\ d.poller.owed = Elements(d.poller.pending) \cup ({d.closed} \ {NoVolume})
        /\ d.closed # NoVolume
        /\ d.poller.owed = r.poller.owed \cup {old}
    <2>1. CASE r.closed = NoVolume
      <3>1. /\ d.closed = old /\ d.poller.pending = r.poller.pending
            /\ d.poller.owed = r.poller.owed \cup {old}
        BY <1>1, <2>1 DEF DeliverOrQueue, Underway, Poller
      <3>2. r.poller.pending = <<>> /\ r.poller.owed = Elements(r.poller.pending)
        BY <2>1 DEF CarriedOK
      <3>3. DOMAIN r.poller.pending = {}
        BY <3>2
      <3>4. QED
        BY <1>1, <1>2, <3>1, <3>2, <3>3 DEF Ascending
    <2>2. CASE r.closed # NoVolume
      <3>1. /\ d.closed = r.closed /\ d.poller.pending = Append(r.poller.pending, old)
            /\ d.poller.owed = r.poller.owed \cup {old}
        BY <1>1, <2>2 DEF DeliverOrQueue, Underway, Poller
      <3>2. /\ Ascending(r.poller.pending)
            /\ r.poller.owed = Elements(r.poller.pending) \cup {r.closed}
            /\ \A x \in r.poller.owed : x < old
        BY <2>2 DEF CarriedOK
      <3>3. /\ Ascending(d.poller.pending)
            /\ Elements(d.poller.pending) = Elements(r.poller.pending) \cup {old}
        BY <1>1, <3>1, <3>2, AscendingAppend
      <3>4. \A x \in Elements(d.poller.pending) : r.closed < x
        <4>1. \A x \in Elements(r.poller.pending) : r.closed < x
          BY DEF CarriedOK, Elements
        <4>2. r.closed < old
          BY <3>2
        <4>3. QED
          BY <3>3, <4>1, <4>2
      <3>5. QED
        BY <2>2, <3>1, <3>2, <3>3, <3>4 DEF Elements
    <2>3. QED
      BY <2>1, <2>2
  <1>4. /\ Roll(r, v).poller.pending = d.poller.pending
        /\ Roll(r, v).poller.owed = d.poller.owed
        /\ Roll(r, v).poller.vol = v
        /\ Roll(r, v).closed = d.closed
    BY <1>1 DEF Roll, Begin, DeliverOrQueue, Underway, Poller
  <1>5. \A x \in d.poller.owed : x < v
    <2>1. \A x \in r.poller.owed : x \in Int /\ x < old
      BY <1>1, <1>2 DEF CarriedOK
    <2>2. old \in Int /\ v \in Int
      BY <1>1, <1>2
    <2>3. \A x \in r.poller.owed : x < v
      BY <2>1, <2>2
    <2>4. QED
      BY <1>3, <2>3
  <1> HIDE DEF d
  <1>6. QED
    BY <1>3, <1>4, <1>5 DEF CarriedOK

LEMMA EndsQueue ==
    ASSUME NEW r \in Underway, NEW n \in Int, CarriedOK(r, n)
    PROVE  QueueOK(Lands(r).poller, n) /\ QueueOK(Fails(r).poller, n)
  <1> DEFINE p == r.poller
             c == r.closed
  <1>1. /\ p \in Poller /\ c \in Volumes \cup {NoVolume} /\ p.pending \in Seq(Volumes)
    BY DEF Underway, Poller
  <1>2. /\ Ascending(p.pending)
        /\ \A i \in DOMAIN p.pending : c < p.pending[i]
        /\ p.owed = Elements(p.pending) \cup ({c} \ {NoVolume})
        /\ \A x \in p.owed : x < p.vol
        /\ p.vol <= n
    BY DEF CarriedOK
  <1>3. c \notin Elements(p.pending) /\ NoVolume \notin Elements(p.pending)
    <2>1. \A i \in DOMAIN p.pending : p.pending[i] \in Volumes
      BY <1>1
    <2>2. c \in Int /\ \A x \in Volumes : x \in Int /\ x # NoVolume
      BY <1>1, VolAssumption DEF Volumes, NoVolume
    <2>3. QED
      BY <1>2, <2>1, <2>2 DEF Elements
  <1>4. QueueOK(Lands(r).poller, n)
    <2>1. /\ Lands(r).poller.pending = p.pending
          /\ Lands(r).poller.owed = p.owed \ {c}
          /\ Lands(r).poller.vol = p.vol
      BY <1>1 DEF Lands, Poller
    <2>2. p.owed \ {c} = Elements(p.pending)
      BY <1>2, <1>3
    <2>3. QED
      BY <1>2, <2>1, <2>2 DEF QueueOK
  <1>5. CASE c = NoVolume
    <2>1. Fails(r).poller = p /\ p.owed = Elements(p.pending)
      BY <1>2, <1>5 DEF Fails
    <2>2. QED
      BY <1>2, <1>4, <2>1 DEF QueueOK
  <1>6. CASE c # NoVolume
    <2>1. /\ Fails(r).poller.pending = <<c>> \o p.pending
          /\ Fails(r).poller.owed = p.owed
          /\ Fails(r).poller.vol = p.vol
      BY <1>1, <1>6 DEF Fails, Poller
    <2>2. c \in Volumes
      BY <1>1, <1>6
    <2>3. /\ Ascending(<<c>> \o p.pending)
          /\ Elements(<<c>> \o p.pending) = Elements(p.pending) \cup {c}
      BY <1>1, <1>2, <2>2, AscendingFront
    <2>4. p.owed = Elements(p.pending) \cup {c}
      BY <1>2, <1>6
    <2>5. QED
      BY <1>2, <1>4, <2>1, <2>3, <2>4 DEF QueueOK
  <1>7. QED
    BY <1>5, <1>6

LEMMA FilledQueue ==
    ASSUME NEW r \in Underway, NEW n \in Int, CarriedOK(r, n)
    PROVE  \A o \in Filled(r) : QueueOK(o.poller, n)
  <1>1. ASSUME NEW s \in Ingests(r) PROVE s \in Underway /\ CarriedOK(s, n)
    <2>1. CASE s = r
      BY <2>1
    <2>2. CASE s # r
      <3>1. PICK e \in BOOLEAN :
               s = [r EXCEPT !.poller.known = TRUE, !.poller.ended = e, !.moved = TRUE]
        BY <2>2 DEF Ingests
      <3>2. r.poller \in Poller
        BY DEF Underway
      <3>3. /\ s.poller = [r.poller EXCEPT !.known = TRUE, !.ended = e]
            /\ s.closed = r.closed /\ s \in Underway
        BY <3>1, <3>2 DEF Underway, Poller
      <3>4. /\ s.poller.pending = r.poller.pending
            /\ s.poller.owed = r.poller.owed /\ s.poller.vol = r.poller.vol
        BY <3>2, <3>3 DEF Poller
      <3>5. QED
        BY <3>3, <3>4 DEF CarriedOK
    <2>3. QED
      BY <2>1, <2>2
  <1>2. \A s \in Ingests(r) : QueueOK(Lands(s).poller, n) /\ QueueOK(Fails(s).poller, n)
    BY <1>1, EndsQueue
  <1>3. QED
    BY <1>2 DEF Filled

LEMMA PollQueue ==
    ASSUME NEW p \in Poller, NEW n \in Volumes, NEW a \in Int, QueueOK(p, n)
    PROVE  \A o \in PollOutcomes(p, n, a) : QueueOK(o.poller, n)
  <1> DEFINE r == TakePending(p)
             discovers == p.vol = NoVolume \/ (p.known /\ p.vol <= a)
  <1>0. n \in Int /\ n <= n /\ p.vol <= n /\ p.vol \in Volumes \cup {NoVolume}
    BY VolAssumption DEF Volumes, QueueOK, Poller
  <1>1. r \in Underway /\ r.poller.vol = p.vol /\ CarriedOK(r, n)
    BY <1>0, TakePendingType, TakeQueue DEF TakePending, Poller
  <1> HIDE DEF r
  <1>2. QueueOK(Fails(r).poller, n) /\ QueueOK(Lands(r).poller, n)
    BY <1>0, <1>1, EndsQueue
  <1>3. \A o \in Filled(r) : QueueOK(o.poller, n)
    BY <1>0, <1>1, FilledQueue
  <1>4. \A o \in Filled(Begin(r, n)) : QueueOK(o.poller, n)
    <2>1. Begin(r, n) \in Underway
      BY <1>1, BeginType
    <2>2. CarriedOK(Begin(r, n), n)
      BY <1>0, <1>1, BeginQueue
    <2>3. QED
      BY <1>0, <2>1, <2>2, FilledQueue
  <1>5. ASSUME ~discovers, n > p.vol
        PROVE  \A o \in Filled(Roll(r, p.vol + 1)) : QueueOK(o.poller, n)
    <2>1. p.vol \in Volumes /\ p.vol + 1 \in Volumes /\ p.vol < p.vol + 1 /\ p.vol + 1 <= n
      BY <1>0, <1>5, VolAssumption DEF Volumes
    <2>2. Roll(r, p.vol + 1) \in Underway
      BY <1>1, <2>1, RollType
    <2>3. CarriedOK(Roll(r, p.vol + 1), n)
      BY <1>0, <1>1, <2>1, RollQueue
    <2>4. QED
      BY <1>0, <2>2, <2>3, FilledQueue
  <1>6. CASE discovers
    <2>1. PollOutcomes(p, n, a) = {Fails(r)} \cup Filled(Begin(r, n))
      BY <1>6 DEF PollOutcomes, r
    <2>2. QED
      BY <1>2, <1>4, <2>1
  <1>7. CASE ~discovers /\ ~p.ended
    BY <1>3, <1>7 DEF PollOutcomes, r
  <1>8. CASE ~discovers /\ p.ended
    <2>1. PollOutcomes(p, n, a) = {Fails(r)} \cup
              (IF n > p.vol THEN Filled(Roll(r, p.vol + 1)) ELSE {Lands(r)})
      BY <1>8 DEF PollOutcomes, r
    <2>2. QED
      BY <1>2, <1>5, <1>8, <2>1
  <1>9. QED
    BY <1>6, <1>7, <1>8

LEMMA NotifiedQueue ==
    ASSUME NEW p \in Poller, NEW n \in Int, NEW v \in Volumes, v <= n, QueueOK(p, n)
    PROVE  \A o \in NotifiedOutcomes(p, v) : QueueOK(o.poller, n)
  <1> DEFINE r == TakePending(p)
             held == p.vol # NoVolume /\ p.known
  <1>0. p.vol <= n /\ p.vol \in Volumes \cup {NoVolume}
    BY DEF QueueOK, Poller
  <1>1. r \in Underway /\ r.poller.vol = p.vol /\ CarriedOK(r, n)
    BY <1>0, TakePendingType, TakeQueue DEF TakePending, Poller
  <1> HIDE DEF r
  <1>2. QueueOK(Fails(r).poller, n) /\ QueueOK(Lands(r).poller, n)
    BY <1>1, EndsQueue
  <1>3. \A o \in Fetched(r) : QueueOK(o.poller, n)
    BY <1>1, FilledQueue, FetchedIsFilled
  <1>4. ASSUME p.vol = NoVolume PROVE \A o \in Fetched(Begin(r, v)) : QueueOK(o.poller, n)
    <2>1. p.vol <= v
      BY <1>4, VolAssumption DEF Volumes, NoVolume
    <2>2. Begin(r, v) \in Underway /\ CarriedOK(Begin(r, v), n)
      BY <1>1, <2>1, BeginType, BeginQueue
    <2>3. QED
      BY <2>2, FilledQueue, FetchedIsFilled
  <1>5. ASSUME held, v > p.vol PROVE \A o \in Fetched(Roll(r, v)) : QueueOK(o.poller, n)
    <2>1. p.vol \in Volumes /\ p.vol < v
      BY <1>0, <1>5, VolAssumption DEF Volumes
    <2>2. Roll(r, v) \in Underway
      BY <1>1, <2>1, RollType
    <2>3. CarriedOK(Roll(r, v), n)
      BY <1>1, <2>1, RollQueue
    <2>4. QED
      BY <2>2, <2>3, FilledQueue, FetchedIsFilled
  <1>6. CASE held /\ v < p.vol
    <2>1. ~(v > p.vol) /\ p.vol # v
      BY <1>0, <1>6, VolAssumption DEF Volumes
    <2>2. NotifiedOutcomes(p, v) = {Lands(r)}
      BY <1>6, <2>1 DEF NotifiedOutcomes, r
    <2>3. QED
      BY <1>2, <2>2
  <1>7. CASE held /\ v > p.vol
    <2>1. ~(v < p.vol)
      BY <1>0, <1>7, VolAssumption DEF Volumes
    <2>2. NotifiedOutcomes(p, v) = Fetched(Roll(r, v))
      BY <1>7, <2>1 DEF NotifiedOutcomes, r
    <2>3. QED
      BY <1>5, <1>7, <2>2
  <1>8. CASE p.vol = NoVolume
    <2>1. p.vol # v
      BY <1>8, VolAssumption DEF Volumes, NoVolume
    <2>2. NotifiedOutcomes(p, v) = Fetched(Begin(r, v))
      BY <1>8, <2>1 DEF NotifiedOutcomes, r
    <2>3. QED
      BY <1>4, <1>8, <2>2
  <1>9. CASE p.vol # NoVolume /\ p.vol = v
    <2>1. ~(v < p.vol) /\ ~(v > p.vol)
      BY <1>9, VolAssumption DEF Volumes
    <2>2. NotifiedOutcomes(p, v) = Fetched(r)
      BY <1>9, <2>1 DEF NotifiedOutcomes, r
    <2>3. QED
      BY <1>3, <2>2
  <1>10. CASE p.vol # NoVolume /\ p.vol # v /\ ~held
    <2>1. NotifiedOutcomes(p, v) = {Lands(r), Fails(r)}
      BY <1>10 DEF NotifiedOutcomes, r
    <2>2. QED
      BY <1>2, <2>1
  <1>11. QED
    <2>1. held => p.vol = v \/ v < p.vol \/ v > p.vol
      BY <1>0, VolAssumption DEF Volumes
    <2>2. QED
      BY <1>6, <1>7, <1>8, <1>9, <1>10, <2>1

(* Every poller keeps its queue, and works on and is asked for volumes that exist. *)
QueueInv ==
    /\ FeedInv
    /\ feed # None /\ feed.poller # None => QueueOK(feed.poller, newest)
    /\ \A t \in Out : QueueOK(rounds[t].poller, newest) /\ rounds[t].asks <= newest

LEMMA LaterQueue ==
    ASSUME NEW p \in Poller, NEW n \in Int, NEW m \in Int, n <= m, QueueOK(p, n)
    PROVE  QueueOK(p, m)
  <1>1. p.vol \in Int
    BY VolAssumption DEF Poller, Volumes, NoVolume
  <1>2. QED
    BY <1>1 DEF QueueOK

LEMMA FreshQueue ==
    ASSUME NEW v \in Int, NEW n \in Int, v <= n PROVE QueueOK(ResumeAt(v), n)
  <1>1. DOMAIN <<>> = {}
    OBVIOUS
  <1>2. QED
    BY <1>1 DEF ResumeAt, QueueOK, Ascending, Elements

(* The poller of the feed that is there after ensure. *)
LEMMA EnsureQueue ==
    ASSUME QueueInv, Ensure(feed).poller # None
    PROVE  QueueOK(Ensure(feed).poller, newest)
  <1>1. feed \in Feed \cup {None} /\ newest \in Volumes /\ PollerComesHome /\ RetiredAtHome
    BY DEF QueueInv, FeedInv, TypeOK
  <1>2. newest \in Int /\ NoVolume \in Int /\ NoVolume <= newest
    BY <1>1, VolAssumption DEF Volumes, NoVolume
  <1>3. ASSUME NEW v \in Int, v <= newest PROVE QueueOK(NewFeed(v).poller, newest)
    BY <1>2, <1>3, FreshQueue DEF NewFeed
  <1>4. CASE feed = None
    BY <1>2, <1>3, <1>4 DEF Ensure
  <1>5. CASE feed # None /\ feed.retired /\ feed.waited
    <2>1. feed.poller \in Poller /\ feed.poller # None
      BY <1>1, <1>5 DEF RetiredAtHome, PollerComesHome, Feed
    <2>2. feed.poller.vol \in Int /\ feed.poller.vol <= newest
      BY <1>5, <2>1, VolAssumption DEF QueueInv, QueueOK, Poller, Volumes, NoVolume
    <2>3. Ensure(feed) = NewFeed(feed.poller.vol)
      BY <1>5 DEF Ensure
    <2>4. QED
      BY <1>3, <2>2, <2>3
  <1>6. CASE feed # None /\ ~(feed.retired /\ feed.waited)
    <2>1. Ensure(feed) = feed
      BY <1>6 DEF Ensure
    <2>2. QED
      BY <1>6, <2>1 DEF QueueInv
  <1>7. QED
    BY <1>4, <1>5, <1>6

LEMMA EnsureKeepsQueue ==
    ASSUME QueueInv, FeedInv', Becomes(Ensure(feed)), UNCHANGED <<rounds, bucketVars>>
    PROVE  QueueInv'
  <1>1. Out' = Out /\ newest' = newest /\ feed' = Ensure(feed)
    BY DEF Out, Becomes, bucketVars
  <1>2. feed'.poller # None => QueueOK(feed'.poller, newest')
    BY <1>1, EnsureQueue
  <1>3. QED
    BY <1>1, <1>2 DEF QueueInv

LEMMA DispatchKeepsQueue ==
    ASSUME QueueInv, FeedInv', ~Ensure(feed).inFlight,
           NEW asks \in Volumes \cup {Poll}, asks <= newest, Dispatch(Ensure(feed), asks),
           UNCHANGED bucketVars
    PROVE  QueueInv'
  <1> DEFINE f == Ensure(feed)
             t == CHOOSE x \in Tasks : rounds[x] = None
             r == [poller |-> f.poller, asks |-> asks]
  <1>1. f \in Feed /\ f.poller # None /\ rounds \in [Tasks -> Round \cup {None}]
    BY EnsureType DEF QueueInv, FeedInv, TypeOK
  <1>2. CASE Full
    BY <1>2, EnsureKeepsQueue DEF Dispatch
  <1>3. CASE ~Full
    <2>1. /\ feed' = Borrowed(f)
          /\ rounds' = [rounds EXCEPT ![t] = r]
      BY <1>1, <1>3 DEF Dispatch, Becomes
    <2>2. t \in Tasks
      BY <1>3 DEF Full, Out
    <2>3. feed'.poller = None
      BY <1>1, <2>1 DEF Borrowed, Feed
    <2>4. QueueOK(r.poller, newest) /\ r.asks <= newest
      BY <1>1, EnsureQueue
    <2>5. newest' = newest
      BY DEF bucketVars
    <2> HIDE DEF f, t, r
    <2>6. \A x \in Out' : rounds'[x] = r \/ (x \in Out /\ rounds'[x] = rounds[x])
      BY <1>1, <2>1, <2>2 DEF Out
    <2>7. QED
      BY <2>3, <2>4, <2>5, <2>6 DEF QueueInv
  <1>4. QED
    BY <1>2, <1>3

LEMMA ArrivalKeepsQueue ==
    ASSUME QueueInv, FeedInv', NEW t \in Tasks, PollChunkResults(t)
    PROVE  QueueInv'
  <1>1. /\ rounds \in [Tasks -> Round \cup {None}]
        /\ newest \in Volumes /\ aged \in Int /\ feed \in Feed \cup {None}
    BY DEF QueueInv, FeedInv, TypeOK
  <1>2. /\ t \in Out /\ rounds[t] \in Round
        /\ rounds[t].poller \in Poller /\ rounds[t].asks \in Volumes \cup {Poll}
    BY <1>1 DEF PollChunkResults, Out, Round
  <1>3. QueueOK(rounds[t].poller, newest) /\ rounds[t].asks <= newest /\ newest \in Int
    BY <1>1, <1>2, VolAssumption DEF QueueInv, Volumes
  <1>4. \A o \in Outcomes(rounds[t]) : QueueOK(o.poller, newest)
    <2>1. CASE rounds[t].asks = Poll
      BY <1>1, <1>2, <1>3, <2>1, PollQueue DEF Outcomes
    <2>2. CASE rounds[t].asks # Poll
      BY <1>1, <1>2, <1>3, <2>2, NotifiedQueue DEF Outcomes
    <2>3. QED
      BY <2>1, <2>2
  <1>5. PICK o \in Outcomes(rounds[t]) :
          feed' = IF feed = None THEN None ELSE FinishRound(feed, o)
    BY DEF PollChunkResults
  <1>6. feed' # None => feed'.poller = o.poller
    BY <1>1, <1>5 DEF FinishRound, Feed
  <1>7. newest' = newest
    BY DEF PollChunkResults, bucketVars
  <1>8. \A x \in Out' : x \in Out /\ rounds'[x] = rounds[x]
    BY <1>1 DEF PollChunkResults, Out
  <1>9. QED
    BY <1>4, <1>6, <1>7, <1>8 DEF QueueInv

(* The pollers stay as they are while the bucket may gain a volume. *)
LEMMA OthersKeepQueue ==
    ASSUME QueueInv, FeedInv', UNCHANGED rounds,
           newest' \in Int, newest <= newest',
           feed' = None \/ (feed # None /\ feed'.poller = feed.poller)
    PROVE  QueueInv'
  <1>1. /\ rounds \in [Tasks -> Round \cup {None}] /\ feed \in Feed \cup {None}
        /\ newest \in Int
    BY VolAssumption DEF QueueInv, FeedInv, TypeOK, Volumes
  <1>2. Out' = Out
    BY DEF Out
  <1>3. \A t \in Out : /\ rounds[t].poller \in Poller
                       /\ rounds[t].asks \in Int
    BY <1>1, VolAssumption DEF Out, Round, Volumes, Poll, NoVolume
  <1>4. \A t \in Out : QueueOK(rounds[t].poller, newest') /\ rounds[t].asks <= newest'
    <2>1. ASSUME NEW t \in Out
          PROVE  QueueOK(rounds[t].poller, newest') /\ rounds[t].asks <= newest'
      <3>1. QueueOK(rounds[t].poller, newest) /\ rounds[t].asks <= newest
        BY DEF QueueInv
      <3>2. QED
        BY <1>1, <1>3, <3>1, LaterQueue
    <2>2. QED
      BY <2>1
  <1>5. ASSUME feed' # None, feed'.poller # None PROVE QueueOK(feed'.poller, newest')
    <2>1. feed # None /\ feed.poller # None /\ feed'.poller = feed.poller
      BY <1>5
    <2>2. feed.poller \in Poller /\ QueueOK(feed.poller, newest)
      BY <1>1, <2>1 DEF Feed, QueueInv
    <2>3. QED
      BY <1>1, <2>1, <2>2, LaterQueue
  <1>6. QED
    BY <1>2, <1>4, <1>5 DEF QueueInv

LEMMA QueueStep == ASSUME QueueInv, [Next]_vars PROVE QueueInv'
  <1>0. FeedInv /\ FeedInv' /\ TypeOK /\ newest \in Int /\ newest <= newest
    BY FeedStep, VolAssumption DEF QueueInv, FeedInv, TypeOK, Volumes
  <1>1. ASSUME NEW t \in Tasks, PollChunkResults(t) PROVE QueueInv'
    BY <1>0, <1>1, ArrivalKeepsQueue
  <1>2. ASSUME NEW v \in 1..newest, FetchNotifiedChunk(v) PROVE QueueInv'
    <2>1. v \in Volumes /\ v <= newest
      BY <1>0, VolAssumption DEF TypeOK, Volumes
    <2>2. CASE TakeNow(Ensure(feed))
      BY <1>0, <1>2, <2>1, <2>2, DispatchKeepsQueue DEF FetchNotifiedChunk, TakeNow
    <2>3. CASE ~TakeNow(Ensure(feed))
      BY <1>0, <1>2, <2>3, EnsureKeepsQueue DEF FetchNotifiedChunk
    <2>4. QED
      BY <2>2, <2>3
  <1>3. CASE TakeForRound
    <2>1. Poll \in Volumes \cup {Poll} /\ Poll <= newest
      BY <1>0, VolAssumption DEF TypeOK, Volumes, Poll, NoVolume
    <2>2. CASE ShouldPoll(Ensure(feed))
      BY <1>0, <1>3, <2>1, <2>2, DispatchKeepsQueue DEF TakeForRound, ShouldPoll
    <2>3. CASE ~ShouldPoll(Ensure(feed))
      BY <1>0, <1>3, <2>3, EnsureKeepsQueue DEF TakeForRound
    <2>4. QED
      BY <2>2, <2>3
  <1>4. CASE NotifiedSite \/ IntervalPasses \/ StallPasses \/ RetryPasses
    <2>1. feed # None /\ feed \in Feed
      BY <1>0, <1>4 DEF NotifiedSite, IntervalPasses, StallPasses, RetryPasses, TypeOK
    <2>2. feed'.poller = feed.poller
      BY <1>4, <2>1 DEF NotifiedSite, IntervalPasses, StallPasses, RetryPasses, Feed
    <2>3. UNCHANGED rounds /\ newest' = newest
      BY <1>4 DEF NotifiedSite, IntervalPasses, StallPasses, RetryPasses, bucketVars
    <2>4. QED
      BY <1>0, <2>1, <2>2, <2>3, OthersKeepQueue
  <1>5. CASE RetainLive
    <2>1. UNCHANGED rounds /\ newest' = newest /\ feed' = None
      BY <1>5 DEF RetainLive, bucketVars
    <2>2. QED
      BY <1>0, <2>1, OthersKeepQueue
  <1>6. CASE DriveChunkFeeds \/ HideOrShow \/ SwitchLiveChunks \/ UNCHANGED vars
    <2>1. UNCHANGED <<rounds, feed>> /\ newest' = newest
      BY <1>6 DEF DriveChunkFeeds, HideOrShow, SwitchLiveChunks, vars, roundVars, bucketVars
    <2>2. QED
      BY <1>0, <2>1, OthersKeepQueue
  <1>7. CASE VolumeStarts \/ RadarFallsSilent
    <2>1. UNCHANGED <<rounds, feed>> /\ newest' \in Int /\ newest <= newest'
      BY <1>0, <1>7 DEF VolumeStarts, RadarFallsSilent, roundVars
    <2>2. QED
      BY <1>0, <2>1, OthersKeepQueue
  <1>8. QED
    BY <1>1, <1>2, <1>3, <1>4, <1>5, <1>6, <1>7 DEF Next, Frame, Clock

(* What a round closed waits, once and in the order it was closed, until an *)
(* outcome that leaves as Ok carries it.                                    *)
THEOREM ClosedVolumesWait == FeedSpec => []ClosedVolumesQueue
  <1>1. Init => QueueInv
    BY FeedInit DEF Init, QueueInv, Out
  <1>2. QueueInv /\ [Next]_vars => QueueInv'
    BY QueueStep
  <1>3. QueueInv => ClosedVolumesQueue
    BY DEF QueueInv, ClosedVolumesQueue, Pollers, QueueOK, Elements
  <1>4. QED
    BY <1>1, <1>2, <1>3, PTL DEF FeedSpec

=============================================================================
