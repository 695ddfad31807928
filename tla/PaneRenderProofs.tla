-------------------------- MODULE PaneRenderProofs ---------------------------
(***************************************************************************)
(* Theorems about the marks, the answers and the glass, for any number of   *)
(* radars, tilts, panes, slots and pictures, and whatever the user, the     *)
(* platform and the network do.                                            *)
(***************************************************************************)
EXTENDS PaneRender, FiniteSetTheorems, WellFoundedInduction, TLAPS

(* The value that stands for no render is not a render. *)
NoneIsNoJob == None \notin Jobs

Marks == [flight : Keys \cup {None}, last : 0..MaxCut]
Replies == [pane : 0..MaxPanes, at : Sites, pic : Pictures \cup {None}]
PanesWith(G) == [site : Sites, cut : Cuts, radar : BOOLEAN, linked : BOOLEAN,
                 vol : Nat, glass : G]

(* Whatever the glass shows, which needs what the cache holds. *)
PanesOK == \E G : panes \in Seq(PanesWith(G))

Recorded ==
    /\ prs \in Seq(Marks)
    /\ count \in Nat \ {0} /\ Len(panes) \in Nat /\ count <= Len(panes)
    /\ Len(panes) <= MaxPanes /\ Len(prs) <= Len(panes)

(* The walk goes over panes that are recorded. *)
WalkOK ==
    /\ phase # "ingest" => count <= Len(prs)
    /\ phase = "dispatch" => walk \in 1..count

WorkOK == jobs \in [1..Slots -> Jobs \cup {None}] /\ replies \in Seq(Replies)
FetchOK == latest \in [Sites -> Nat] /\ air \subseteq Requests

Wanting(s) == jobs[s] # None /\ jobs[s].stage = "run" /\ jobs[s].wanted
(* Who is wanted answers a pane that is recorded. *)
WantedIsRecorded ==
    \A s \in 1..Slots : Wanting(s) /\ jobs[s].pane # 0 => jobs[s].pane \in 1..Len(prs)

Shape == PanesOK /\ Recorded /\ WalkOK /\ WorkOK /\ FetchOK
RenderInv == Shape /\ MarksAreAnswered /\ WantedIsRecorded /\ WantedIsCurrent

-----------------------------------------------------------------------------
(* Sequences. *)

LEMMA FunIsSeq ==
    ASSUME NEW S, NEW n \in Nat, NEW f \in [1..n -> S]
    PROVE  f \in Seq(S) /\ Len(f) = n /\ DOMAIN f = 1..n
  OBVIOUS

LEMMA Prefix ==
    ASSUME NEW S, NEW s \in Seq(S), NEW k \in 0..Len(s)
    PROVE  /\ SubSeq(s, 1, k) \in Seq(S) /\ Len(SubSeq(s, 1, k)) = k
           /\ \A i \in 1..k : SubSeq(s, 1, k)[i] = s[i]
  OBVIOUS

LEMMA Removed ==
    ASSUME NEW S, NEW s \in Seq(S), NEW k \in 1..Len(s)
    PROVE  /\ RemoveAt(s, k) \in Seq(S) /\ Len(RemoveAt(s, k)) = Len(s) - 1
           /\ \A i \in 1..(k - 1) : RemoveAt(s, k)[i] = s[i]
  <1> DEFINE a == SubSeq(s, 1, k - 1)
             b == SubSeq(s, k + 1, Len(s))
  <1>1. a \in Seq(S) /\ Len(a) = k - 1 /\ \A i \in 1..(k - 1) : a[i] = s[i]
    BY Prefix
  <1>2. b \in Seq(S) /\ Len(b) = Len(s) - k
    OBVIOUS
  <1>3. RemoveAt(s, k) = a \o b
    BY DEF RemoveAt
  <1> HIDE DEF a, b
  <1>4. /\ a \o b \in Seq(S) /\ Len(a \o b) = Len(a) + Len(b)
        /\ \A i \in 1..Len(a) : (a \o b)[i] = a[i]
    BY <1>1, <1>2
  <1>5. QED
    BY <1>1, <1>2, <1>3, <1>4

LEMMA RangeOfAppend ==
    ASSUME NEW S, NEW s \in Seq(S), NEW e \in S
    PROVE  Append(s, e) \in Seq(S) /\ Range(Append(s, e)) = Range(s) \cup {e}
  <1> DEFINE t == Append(s, e)
  <1>1. /\ t \in Seq(S) /\ Len(t) = Len(s) + 1 /\ Len(s) \in Nat
        /\ t[Len(s) + 1] = e /\ \A i \in 1..Len(s) : t[i] = s[i]
    OBVIOUS
  <1>2. DOMAIN s = 1..Len(s) /\ DOMAIN t = 1..(Len(s) + 1)
    BY <1>1
  <1> HIDE DEF t
  <1>3. Range(t) \subseteq Range(s) \cup {e}
    BY <1>1, <1>2 DEF Range
  <1>4. Range(s) \cup {e} \subseteq Range(t)
    BY <1>1, <1>2 DEF Range
  <1>5. QED
    BY <1>1, <1>3, <1>4 DEF t

LEMMA RangeOfTail ==
    ASSUME NEW S, NEW s \in Seq(S), s # <<>>
    PROVE  /\ Tail(s) \in Seq(S) /\ Head(s) \in S
           /\ Range(s) = Range(Tail(s)) \cup {Head(s)}
  <1> DEFINE t == Tail(s)
  <1>1. /\ t \in Seq(S) /\ Len(s) \in Nat \ {0} /\ Len(t) = Len(s) - 1
        /\ Head(s) = s[1] /\ s[1] \in S /\ \A i \in 1..(Len(s) - 1) : t[i] = s[i + 1]
    OBVIOUS
  <1>2. DOMAIN s = 1..Len(s) /\ DOMAIN t = 1..(Len(s) - 1)
    BY <1>1
  <1> HIDE DEF t
  <1>3. Range(t) \cup {Head(s)} \subseteq Range(s)
    BY <1>1, <1>2 DEF Range
  <1>4. ASSUME NEW i \in 1..Len(s) PROVE s[i] \in Range(t) \cup {Head(s)}
    <2>1. CASE i = 1
      BY <1>1, <2>1
    <2>2. CASE i # 1
      <3>1. i - 1 \in 1..(Len(s) - 1) /\ t[i - 1] = s[i]
        BY <1>1, <2>2
      <3>2. QED
        BY <1>2, <3>1 DEF Range
    <2>3. QED
      BY <2>1, <2>2
  <1>5. Range(s) \subseteq Range(t) \cup {Head(s)}
    BY <1>2, <1>4 DEF Range
  <1>6. QED
    BY <1>1, <1>3, <1>5 DEF t

LEMMA GrownType ==
    ASSUME NEW S, NEW s \in Seq(S), NEW n \in Nat, NEW e \in S
    PROVE  /\ Grown(s, n, e) \in Seq(S)
           /\ Len(Grown(s, n, e)) \in {n, Len(s)}
           /\ n <= Len(Grown(s, n, e)) /\ Len(s) <= Len(Grown(s, n, e))
  <1>1. /\ Grown(s, n, e) \in Seq(S)
        /\ Len(s) < n => Len(Grown(s, n, e)) = n
        /\ n <= Len(s) => Len(Grown(s, n, e)) = Len(s)
    BY DEF Grown
  <1>2. Len(s) \in Nat
    OBVIOUS
  <1>3. QED
    BY <1>1, <1>2

LEMMA GrownAt ==
    ASSUME NEW S, NEW s \in Seq(S), NEW n \in Nat, NEW e, NEW i \in DOMAIN Grown(s, n, e)
    PROVE  (i \in 1..Len(s) /\ Grown(s, n, e)[i] = s[i]) \/ Grown(s, n, e)[i] = e
  BY DEF Grown

-----------------------------------------------------------------------------
(* The slots. *)

LEMMA JobAt ==
    ASSUME NEW s \in 1..Slots, WorkOK, jobs[s] # None
    PROVE  jobs[s] \in Jobs
  BY DEF WorkOK

LEMMA AbandonedJobs ==
    ASSUME WorkOK, NEW gone, jobs' = Abandoned(gone), NoneIsNoJob
    PROVE  /\ jobs' \in [1..Slots -> Jobs \cup {None}]
           /\ \A s \in 1..Slots :
                /\ Wanting(s)' => Wanting(s) /\ jobs'[s] = jobs[s] /\ jobs[s].pane \notin gone
                /\ jobs[s] # None /\ (jobs[s].pane \notin gone \/ jobs[s].stage = "send")
                       => jobs'[s] = jobs[s]
  <1>1. ASSUME NEW s \in 1..Slots, jobs[s] # None, jobs[s].stage = "run", jobs[s].pane \in gone
        PROVE  /\ jobs'[s] \in Jobs /\ jobs'[s] # None
               /\ ~jobs'[s].wanted
    <2> DEFINE j == [jobs[s] EXCEPT !.wanted = FALSE]
    <2>1. jobs[s] \in Jobs
      BY <1>1, JobAt
    <2>2. j \in Jobs /\ j.wanted = FALSE
      BY <2>1 DEF Jobs
    <2>3. jobs'[s] = j
      BY <1>1 DEF Abandoned
    <2> HIDE DEF j
    <2>4. QED
      BY <2>2, <2>3 DEF NoneIsNoJob
  <1>2. ASSUME NEW s \in 1..Slots, ~(jobs[s] # None /\ jobs[s].stage = "run" /\ jobs[s].pane \in gone)
        PROVE  jobs'[s] = jobs[s]
    BY <1>2 DEF Abandoned
  <1>3. DOMAIN jobs' = 1..Slots /\ jobs' = [s \in 1..Slots |-> jobs'[s]]
    BY DEF Abandoned
  <1>4. ASSUME NEW s \in 1..Slots PROVE jobs'[s] \in Jobs \cup {None}
    BY <1>1, <1>2 DEF WorkOK
  <1>5. jobs' \in [1..Slots -> Jobs \cup {None}]
    BY <1>3, <1>4
  <1>6. ASSUME NEW s \in 1..Slots, Wanting(s)'
        PROVE  Wanting(s) /\ jobs'[s] = jobs[s] /\ jobs[s].pane \notin gone
    <2>1. ~(jobs[s] # None /\ jobs[s].stage = "run" /\ jobs[s].pane \in gone)
      BY <1>1, <1>6 DEF Wanting
    <2>2. jobs'[s] = jobs[s]
      BY <1>2, <2>1
    <2>3. QED
      BY <1>6, <2>1, <2>2 DEF Wanting
  <1>7. ASSUME NEW s \in 1..Slots, jobs[s] # None,
               jobs[s].pane \notin gone \/ jobs[s].stage = "send"
        PROVE  jobs'[s] = jobs[s]
    BY <1>2, <1>7
  <1>8. QED
    BY <1>5, <1>6, <1>7

LEMMA RunningJobs ==
    ASSUME WorkOK, NoneIsNoJob, FreeSlots # {}, NEW pane \in 0..MaxPanes, NEW at \in Sites,
           NEW pic \in Pictures, jobs' = Running(pane, at, pic)
    PROVE  /\ jobs' \in [1..Slots -> Jobs \cup {None}]
           /\ \E f \in 1..Slots :
                /\ jobs[f] = None /\ jobs'[f] # None
                /\ jobs'[f] = [stage |-> "run", pane |-> pane, at |-> at, pic |-> pic,
                               wanted |-> TRUE]
                /\ \A s \in 1..Slots : s # f => jobs'[s] = jobs[s]
  <1> DEFINE new == [stage |-> "run", pane |-> pane, at |-> at, pic |-> pic, wanted |-> TRUE]
             f == FreeSlot
  <1>1. f \in 1..Slots /\ jobs[f] = None
    BY DEF FreeSlot, FreeSlots
  <1>2. new \in Jobs
    BY DEF Jobs
  <1>3. jobs' = [jobs EXCEPT ![f] = new]
    BY DEF Running
  <1> HIDE DEF new, f
  <1>4. jobs' \in [1..Slots -> Jobs \cup {None}] /\ jobs'[f] = new
        /\ \A s \in 1..Slots : s # f => jobs'[s] = jobs[s]
    BY <1>1, <1>2, <1>3 DEF WorkOK
  <1>5. new # None
    BY <1>2 DEF NoneIsNoJob
  <1>6. QED
    BY <1>1, <1>4, <1>5 DEF new

-----------------------------------------------------------------------------
(* What leaves marks and answers alone. *)

LEMMA MarksKeep ==
    ASSUME MarksAreAnswered, jobs' = jobs, replies' = replies,
           \A i \in DOMAIN prs' : prs'[i].flight # None =>
               i \in DOMAIN prs /\ prs[i].flight # None
    PROVE  MarksAreAnswered'
  BY DEF MarksAreAnswered

(* Panes may be added, lose their volume, and be painted. *)
SameView == \A i \in DOMAIN panes :
                /\ i \in DOMAIN panes'
                /\ panes'[i].vol # 0 => /\ panes'[i].site = panes[i].site
                                        /\ panes'[i].vol = panes[i].vol

LEMMA WantedKeeps ==
    ASSUME WantedIsRecorded, WantedIsCurrent, SameView,
           Len(prs) \in Nat, Len(prs') \in Nat, Len(prs) <= Len(prs'),
           \A s \in 1..Slots : Wanting(s)' /\ jobs'[s].pane # 0 =>
               Wanting(s) /\ jobs'[s] = jobs[s]
    PROVE  WantedIsRecorded' /\ WantedIsCurrent'
  <1>1. ASSUME NEW s \in 1..Slots, Wanting(s)', jobs'[s].pane # 0
        PROVE  /\ jobs'[s].pane \in 1..Len(prs')
               /\ jobs'[s].pane \in DOMAIN panes'
               /\ jobs'[s].pic # None /\ panes'[jobs'[s].pane].vol # 0 =>
                    /\ jobs'[s].pic.site = panes'[jobs'[s].pane].site
                    /\ jobs'[s].pic.vol = panes'[jobs'[s].pane].vol
    <2>1. Wanting(s) /\ jobs'[s] = jobs[s]
      BY <1>1
    <2>2. jobs[s].pane \in 1..Len(prs)
      BY <1>1, <2>1 DEF WantedIsRecorded
    <2>3. /\ jobs[s].pane \in DOMAIN panes
          /\ jobs[s].pic # None /\ panes[jobs[s].pane].vol # 0 =>
               /\ jobs[s].pic.site = panes[jobs[s].pane].site
               /\ jobs[s].pic.vol = panes[jobs[s].pane].vol
      BY <1>1, <2>1 DEF WantedIsCurrent, Wanting
    <2>4. QED
      BY <2>1, <2>2, <2>3 DEF SameView
  <1>2. WantedIsRecorded'
    BY <1>1 DEF WantedIsRecorded
  <1>3. WantedIsCurrent'
    BY <1>1 DEF WantedIsCurrent, Wanting
  <1>4. QED
    BY <1>2, <1>3

-----------------------------------------------------------------------------
(* Volumes. *)

LEMMA Domains ==
    ASSUME PanesOK, Recorded
    PROVE  /\ DOMAIN panes = 1..Len(panes) /\ DOMAIN prs = 1..Len(prs)
           /\ Len(panes) \in Nat /\ Len(prs) \in Nat /\ DOMAIN prs \subseteq DOMAIN panes
           /\ \A i \in DOMAIN prs : prs[i] \in Marks
  BY DEF PanesOK, Recorded

(* A reset takes the marks at a site and the answers to them; a volume delivered there
   cannot make an answer late that is still wanted. *)
LEMMA ResetKeeps ==
    ASSUME RenderInv, NoneIsNoJob, NEW site \in Sites, ResetForSite(site), replies' = replies,
           DOMAIN panes' = DOMAIN panes,
           \A i \in DOMAIN panes : /\ panes'[i].site = panes[i].site
                                   /\ panes[i].site # site => panes'[i].vol = panes[i].vol
    PROVE  /\ prs' \in Seq(Marks) /\ Len(prs') = Len(prs)
           /\ jobs' \in [1..Slots -> Jobs \cup {None}]
           /\ MarksAreAnswered' /\ WantedIsRecorded' /\ WantedIsCurrent'
  <1>1. /\ DOMAIN panes = 1..Len(panes) /\ DOMAIN prs = 1..Len(prs)
        /\ Len(panes) \in Nat /\ Len(prs) \in Nat /\ DOMAIN prs \subseteq DOMAIN panes
        /\ \A i \in DOMAIN prs : prs[i] \in Marks
    BY Domains DEF RenderInv, Shape
  <1>2. Fresh \in Marks /\ Fresh.flight = None
    BY RenderAssumption DEF Fresh, Marks
  <1>3. prs' \in [1..Len(prs) -> Marks]
    BY <1>1, <1>2 DEF ResetForSite
  <1>4. prs' \in Seq(Marks) /\ Len(prs') = Len(prs) /\ DOMAIN prs' = DOMAIN prs
    BY <1>1, <1>3, FunIsSeq
  <1>5. /\ jobs' \in [1..Slots -> Jobs \cup {None}]
        /\ \A s \in 1..Slots :
             /\ Wanting(s)' => Wanting(s) /\ jobs'[s] = jobs[s] /\ jobs[s].pane \notin AtSite(site)
             /\ jobs[s] # None /\ (jobs[s].pane \notin AtSite(site) \/ jobs[s].stage = "send")
                    => jobs'[s] = jobs[s]
    BY AbandonedJobs DEF ResetForSite, RenderInv, Shape
  <1>6. MarksAreAnswered'
    <2> SUFFICES ASSUME NEW i \in DOMAIN prs, prs'[i].flight # None
                 PROVE  \/ \E r \in Range(replies) : r.pane = i
                        \/ \E s \in 1..Slots :
                             /\ jobs'[s] # None /\ jobs'[s].pane = i
                             /\ jobs'[s].stage = "send" \/ (jobs'[s].stage = "run" /\ jobs'[s].wanted)
      BY <1>4 DEF MarksAreAnswered
    <2>1. i \notin AtSite(site) /\ prs[i].flight # None
      BY <1>2 DEF ResetForSite
    <2>2. CASE \E r \in Range(replies) : r.pane = i
      BY <2>2
    <2>3. CASE \E s \in 1..Slots :
                 /\ jobs[s] # None /\ jobs[s].pane = i
                 /\ jobs[s].stage = "send" \/ (jobs[s].stage = "run" /\ jobs[s].wanted)
      BY <1>5, <2>1, <2>3
    <2>4. QED
      BY <2>1, <2>2, <2>3 DEF RenderInv, MarksAreAnswered
  <1>7. ASSUME NEW s \in 1..Slots, Wanting(s)', jobs'[s].pane # 0
        PROVE  /\ jobs'[s].pane \in 1..Len(prs)
               /\ jobs'[s].pane \in DOMAIN panes'
               /\ jobs'[s].pic # None /\ panes'[jobs'[s].pane].vol # 0 =>
                    /\ jobs'[s].pic.site = panes'[jobs'[s].pane].site
                    /\ jobs'[s].pic.vol = panes'[jobs'[s].pane].vol
    <2>1. Wanting(s) /\ jobs'[s] = jobs[s] /\ jobs[s].pane \notin AtSite(site)
      BY <1>5, <1>7
    <2>2. jobs[s].pane \in 1..Len(prs)
      BY <1>7, <2>1 DEF RenderInv, WantedIsRecorded
    <2>3. jobs[s].pic # None /\ panes[jobs[s].pane].vol # 0 =>
               /\ jobs[s].pic.site = panes[jobs[s].pane].site
               /\ jobs[s].pic.vol = panes[jobs[s].pane].vol
      BY <1>7, <2>1 DEF RenderInv, WantedIsCurrent, Wanting
    <2>4. jobs[s].pane \in DOMAIN panes /\ panes[jobs[s].pane].site # site
      BY <1>1, <2>1, <2>2 DEF AtSite
    <2>5. QED
      BY <2>1, <2>2, <2>3, <2>4
  <1>8. WantedIsRecorded' /\ WantedIsCurrent'
    BY <1>4, <1>7 DEF WantedIsRecorded, WantedIsCurrent, Wanting
  <1>9. QED
    BY <1>4, <1>5, <1>6, <1>8

LEMMA IngestStep == ASSUME RenderInv, NoneIsNoJob, NEW r \in air, Ingest(r) PROVE RenderInv'
  <1>1. r \in Requests /\ r.site \in Sites /\ r.vol \in Nat
    BY DEF RenderInv, Shape, FetchOK, Requests
  <1>2. PICK G : panes \in Seq(PanesWith(G))
    BY DEF RenderInv, Shape, PanesOK
  <1>3. /\ DOMAIN panes = 1..Len(panes) /\ Len(panes) \in Nat
        /\ \A i \in DOMAIN panes : panes[i] \in PanesWith(G)
    BY <1>2
  <1>4. CASE UNCHANGED <<panes, prs, jobs, cache>>
    <2>1. SameView
      BY <1>4 DEF SameView
    <2>2. Len(prs) \in Nat
      BY Domains DEF RenderInv, Shape
    <2>3. WantedIsRecorded' /\ WantedIsCurrent'
      BY <1>4, <2>1, <2>2, WantedKeeps DEF RenderInv, Wanting
    <2>4. MarksAreAnswered'
      BY <1>4, MarksKeep DEF Ingest, RenderInv
    <2>5. Shape'
      BY <1>4 DEF Ingest, RenderInv, Shape, PanesOK, Recorded, WalkOK, WorkOK, FetchOK, frameVars
    <2>6. QED
      BY <2>3, <2>4, <2>5 DEF RenderInv
  <1>5. CASE /\ panes' = [i \in DOMAIN panes |->
                            IF i \in Audience(r) THEN [panes[i] EXCEPT !.vol = r.vol] ELSE panes[i]]
             /\ ResetForSite(r.site)
    <2>1. ASSUME NEW i \in DOMAIN panes
          PROVE  /\ panes'[i] \in PanesWith(G) /\ panes'[i].site = panes[i].site
                 /\ panes[i].site # r.site => panes'[i].vol = panes[i].vol
      <3>1. CASE i \in Audience(r)
        <4>1. panes'[i] = [panes[i] EXCEPT !.vol = r.vol] /\ panes[i].site = r.site
          BY <1>5, <3>1 DEF Audience
        <4>2. QED
          BY <1>1, <1>3, <4>1 DEF PanesWith
      <3>2. CASE i \notin Audience(r)
        BY <1>3, <1>5, <3>2
      <3>3. QED
        BY <3>1, <3>2
    <2>2. panes' \in [1..Len(panes) -> PanesWith(G)]
      BY <1>3, <1>5, <2>1
    <2>3. panes' \in Seq(PanesWith(G)) /\ Len(panes') = Len(panes) /\ DOMAIN panes' = DOMAIN panes
      BY <1>3, <2>2, FunIsSeq
    <2>4. replies' = replies
      BY DEF Ingest
    <2>5. /\ prs' \in Seq(Marks) /\ Len(prs') = Len(prs)
          /\ jobs' \in [1..Slots -> Jobs \cup {None}]
          /\ MarksAreAnswered' /\ WantedIsRecorded' /\ WantedIsCurrent'
      BY <1>1, <1>5, <2>1, <2>3, <2>4, ResetKeeps
    <2>6. PanesOK'
      BY <2>3 DEF PanesOK
    <2>7. Recorded' /\ WalkOK' /\ WorkOK' /\ FetchOK'
      BY <2>3, <2>5 DEF Ingest, RenderInv, Shape, Recorded, WalkOK, WorkOK, FetchOK, frameVars
    <2>8. QED
      BY <2>5, <2>6, <2>7 DEF RenderInv, Shape
  <1>6. QED
    BY <1>4, <1>5 DEF Ingest

LEMMA EndIngestStep == ASSUME RenderInv, EndIngest PROVE RenderInv'
  <1>1. /\ prs \in Seq(Marks) /\ count \in Nat /\ Len(prs) \in Nat /\ DOMAIN prs = 1..Len(prs)
    BY Domains DEF RenderInv, Shape, Recorded
  <1>2. Fresh \in Marks /\ Fresh.flight = None
    BY RenderAssumption DEF Fresh, Marks
  <1>3. /\ prs' \in Seq(Marks) /\ Len(prs') \in {count, Len(prs)}
        /\ count <= Len(prs') /\ Len(prs) <= Len(prs')
        /\ \A i \in DOMAIN prs' : (i \in 1..Len(prs) /\ prs'[i] = prs[i]) \/ prs'[i] = Fresh
    <2>1. prs' = Grown(prs, count, Fresh)
      BY DEF EndIngest, Ensured
    <2>2. /\ prs' \in Seq(Marks) /\ Len(prs') \in {count, Len(prs)}
          /\ count <= Len(prs') /\ Len(prs) <= Len(prs')
      BY <1>1, <1>2, <2>1, GrownType
    <2>3. \A i \in DOMAIN prs' : (i \in 1..Len(prs) /\ prs'[i] = prs[i]) \/ prs'[i] = Fresh
      BY <1>1, <2>1, GrownAt
    <2>4. QED
      BY <2>2, <2>3
  <1>4. SameView
    BY DEF SameView, EndIngest, uiVars
  <1>5. WantedIsRecorded' /\ WantedIsCurrent'
    BY <1>1, <1>3, <1>4, WantedKeeps DEF RenderInv, EndIngest, poolVars, Wanting
  <1>6. MarksAreAnswered'
    BY <1>1, <1>2, <1>3, MarksKeep DEF RenderInv, EndIngest, poolVars
  <1>7. PanesOK' /\ WorkOK' /\ FetchOK'
    BY DEF RenderInv, Shape, EndIngest, PanesOK, WorkOK, FetchOK, uiVars, poolVars, fetchVars
  <1>8. Recorded' /\ WalkOK'
    BY <1>1, <1>3 DEF RenderInv, Shape, EndIngest, Recorded, WalkOK, uiVars
  <1>9. QED
    BY <1>5, <1>6, <1>7, <1>8 DEF RenderInv, Shape

-----------------------------------------------------------------------------
(* Answers. *)

(* A reply leaves the channel with the mark of its pane; whatever else is painted,
   recorded as rendered or rendered ahead. *)
LEMMA ReceiveKeeps ==
    ASSUME RenderInv, NoneIsNoJob, replies # <<>>, replies' = Tail(replies),
           prs' \in Seq(Marks), DOMAIN prs' = DOMAIN prs,
           \A i \in DOMAIN prs : prs'[i].flight # None =>
               prs[i].flight # None /\ i # Head(replies).pane,
           SameView,
           \/ jobs' = jobs
           \/ \E pic \in Pictures, at \in Sites : FreeSlots # {} /\ jobs' = Running(0, at, pic)
    PROVE  /\ jobs' \in [1..Slots -> Jobs \cup {None}] /\ replies' \in Seq(Replies)
           /\ Len(prs') = Len(prs)
           /\ MarksAreAnswered' /\ WantedIsRecorded' /\ WantedIsCurrent'
  <1>1. /\ replies' \in Seq(Replies) /\ Head(replies) \in Replies
        /\ Range(replies) = Range(replies') \cup {Head(replies)}
    BY RangeOfTail DEF RenderInv, Shape, WorkOK
  <1>2. Len(prs) \in Nat /\ DOMAIN prs = 1..Len(prs) /\ Len(prs') = Len(prs)
    BY Domains DEF RenderInv, Shape
  <1>3. /\ jobs' \in [1..Slots -> Jobs \cup {None}]
        /\ \A s \in 1..Slots : \/ jobs'[s] = jobs[s]
                               \/ jobs[s] = None /\ jobs'[s].pane = 0
    <2>1. CASE jobs' = jobs
      BY <2>1 DEF RenderInv, Shape, WorkOK
    <2>2. ASSUME NEW pic \in Pictures, NEW at \in Sites, FreeSlots # {},
                 jobs' = Running(0, at, pic)
          PROVE  /\ jobs' \in [1..Slots -> Jobs \cup {None}]
                 /\ \A s \in 1..Slots : \/ jobs'[s] = jobs[s]
                                        \/ jobs[s] = None /\ jobs'[s].pane = 0
      <3>1. 0 \in 0..MaxPanes
        BY RenderAssumption
      <3>2. /\ jobs' \in [1..Slots -> Jobs \cup {None}]
            /\ \E f \in 1..Slots :
                 /\ jobs[f] = None /\ jobs'[f] # None
                 /\ jobs'[f] = [stage |-> "run", pane |-> 0, at |-> at, pic |-> pic,
                                wanted |-> TRUE]
                 /\ \A s \in 1..Slots : s # f => jobs'[s] = jobs[s]
        BY <2>2, <3>1, RunningJobs DEF RenderInv, Shape
      <3>3. QED
        BY <3>2
    <2>3. QED
      BY <2>1, <2>2
  <1>4. MarksAreAnswered'
    <2> SUFFICES ASSUME NEW i \in DOMAIN prs, prs'[i].flight # None
                 PROVE  \/ \E r \in Range(replies') : r.pane = i
                        \/ \E s \in 1..Slots :
                             /\ jobs'[s] # None /\ jobs'[s].pane = i
                             /\ jobs'[s].stage = "send" \/ (jobs'[s].stage = "run" /\ jobs'[s].wanted)
      BY DEF MarksAreAnswered
    <2>1. prs[i].flight # None /\ i # Head(replies).pane
      OBVIOUS
    <2>2. CASE \E r \in Range(replies) : r.pane = i
      BY <1>1, <2>1, <2>2
    <2>3. CASE \E s \in 1..Slots :
                 /\ jobs[s] # None /\ jobs[s].pane = i
                 /\ jobs[s].stage = "send" \/ (jobs[s].stage = "run" /\ jobs[s].wanted)
      BY <1>3, <2>3
    <2>4. QED
      BY <2>1, <2>2, <2>3 DEF RenderInv, MarksAreAnswered
  <1>5. \A s \in 1..Slots : Wanting(s)' /\ jobs'[s].pane # 0 => Wanting(s) /\ jobs'[s] = jobs[s]
    BY <1>3 DEF Wanting
  <1>6. WantedIsRecorded' /\ WantedIsCurrent'
    BY <1>2, <1>5, WantedKeeps DEF RenderInv
  <1>7. QED
    BY <1>1, <1>2, <1>3, <1>4, <1>6

(* Painting shows in the glass alone. *)
LEMMA PaintKeeps ==
    ASSUME PanesOK, NEW takers, NEW pic, Paint(takers, pic)
    PROVE  PanesOK' /\ SameView /\ Len(panes') = Len(panes)
  <1>1. PICK G : panes \in Seq(PanesWith(G))
    BY DEF PanesOK
  <1> DEFINE H == G \cup {pic}
  <1>2. ASSUME NEW i \in DOMAIN panes
        PROVE  /\ panes'[i] \in PanesWith(H)
               /\ panes'[i].site = panes[i].site /\ panes'[i].vol = panes[i].vol
    <2>1. panes[i] \in PanesWith(G)
      BY <1>1
    <2>2. CASE i \in takers
      <3>1. panes'[i] = [panes[i] EXCEPT !.glass = pic]
        BY <2>2 DEF Paint
      <3>2. QED
        BY <2>1, <3>1 DEF PanesWith
    <2>3. CASE i \notin takers
      <3>1. panes'[i] = panes[i]
        BY <2>3 DEF Paint
      <3>2. QED
        BY <2>1, <3>1 DEF PanesWith
    <2>4. QED
      BY <2>2, <2>3
  <1>3. DOMAIN panes = 1..Len(panes) /\ Len(panes) \in Nat
    BY <1>1
  <1> HIDE DEF H
  <1>4. panes' \in [1..Len(panes) -> PanesWith(H)]
    BY <1>2, <1>3 DEF Paint
  <1>5. panes' \in Seq(PanesWith(H)) /\ Len(panes') = Len(panes) /\ DOMAIN panes' = DOMAIN panes
    BY <1>3, <1>4, FunIsSeq
  <1>6. QED
    BY <1>2, <1>5 DEF PanesOK, SameView

LEMMA SpeculateJob ==
    ASSUME PanesOK, NEW i \in DOMAIN panes, Demand(i) = "Wanted", NEW cut, Speculate(i, cut)
    PROVE  \/ jobs' = jobs
           \/ \E pic \in Pictures, at \in Sites : FreeSlots # {} /\ jobs' = Running(0, at, pic)
  <1> DEFINE key == Key(panes[i].site, NextTilt(cut))
  <1>1. CASE MaySpeculate(cut) /\ \A e \in Range(cache') : e.key # key
    <2>1. jobs' = Running(0, key.site, Picture(i, key.cut))
      BY <1>1 DEF Speculate
    <2>2. NextTilt(cut) \in Cuts /\ FreeSlots = 1..Slots
      BY <1>1 DEF MaySpeculate
    <2>3. panes[i].site \in Sites /\ panes[i].vol \in Nat
      <3>1. PICK G : panes \in Seq(PanesWith(G))
        BY DEF PanesOK
      <3>2. panes[i] \in PanesWith(G)
        BY <3>1
      <3>3. QED
        BY <3>2 DEF PanesWith
    <2>4. panes[i].vol # 0
      BY DEF Demand
    <2>5. key.site \in Sites /\ key.cut \in Cuts
      BY <2>2, <2>3 DEF Key
    <2> HIDE DEF key
    <2>6. Picture(i, key.cut) \in Pictures
      BY <2>3, <2>4, <2>5 DEF Picture, Pictures
    <2>7. 1 \in FreeSlots
      BY <2>2, RenderAssumption
    <2>8. QED
      BY <2>1, <2>5, <2>6, <2>7
  <1>2. CASE ~(MaySpeculate(cut) /\ \A e \in Range(cache') : e.key # key)
    BY <1>2 DEF Speculate
  <1>3. QED
    BY <1>1, <1>2

LEMMA PrerenderedStep ==
    ASSUME RenderInv, NoneIsNoJob, Receive, Head(replies).pane = 0
    PROVE  RenderInv'
  <1>1. /\ replies # <<>> /\ replies' = Tail(replies) /\ panes' = panes /\ prs' = prs /\ jobs' = jobs
        /\ UNCHANGED <<count, fetchVars, frameVars>>
    BY DEF Receive, Prerendered
  <1>2. /\ prs \in Seq(Marks) /\ DOMAIN prs = 1..Len(prs)
    BY Domains DEF RenderInv, Shape, Recorded
  <1>3. SameView
    BY <1>1 DEF SameView
  <1>4. \A i \in DOMAIN prs : i # Head(replies).pane
    BY <1>2
  <1>5. /\ jobs' \in [1..Slots -> Jobs \cup {None}] /\ replies' \in Seq(Replies)
        /\ MarksAreAnswered' /\ WantedIsRecorded' /\ WantedIsCurrent'
    BY <1>1, <1>2, <1>3, <1>4, ReceiveKeeps
  <1>6. Shape'
    BY <1>1, <1>5
    DEF RenderInv, Shape, PanesOK, Recorded, WalkOK, WorkOK, FetchOK, fetchVars, frameVars
  <1>7. QED
    BY <1>5, <1>6 DEF RenderInv

LEMMA AnsweredStep ==
    ASSUME RenderInv, NoneIsNoJob, Receive, Head(replies).pane # 0
    PROVE  RenderInv'
  <1> DEFINE r == Head(replies)
             i == r.pane
             finished == IF i \in DOMAIN prs THEN [prs EXCEPT ![i].flight = None] ELSE prs
             serves == r.pic # None /\ i <= count /\ Demand(i) = "Wanted"
             takers == {i} \cup Siblings(Key(panes[i].site, r.pic.cut))
  <1>1. /\ phase = "apply" /\ replies # <<>> /\ replies' = Tail(replies) /\ Answered(r)
        /\ UNCHANGED <<count, fetchVars, frameVars>>
    BY DEF Receive
  <1>2. /\ DOMAIN panes = 1..Len(panes) /\ DOMAIN prs = 1..Len(prs)
        /\ Len(panes) \in Nat /\ Len(prs) \in Nat /\ DOMAIN prs \subseteq DOMAIN panes
        /\ \A n \in DOMAIN prs : prs[n] \in Marks
    BY Domains DEF RenderInv, Shape
  <1>3. r \in Replies
    BY <1>1, RangeOfTail DEF RenderInv, Shape, WorkOK
  <1>4. /\ DOMAIN finished = 1..Len(prs)
        /\ \A n \in 1..Len(prs) : /\ finished[n] \in Marks
                                  /\ n = i => finished[n].flight = None
                                  /\ n # i => finished[n].flight = prs[n].flight
    BY <1>2 DEF Marks
  <1>5. CASE ~serves
    <2>1. prs' = finished /\ panes' = panes /\ jobs' = jobs
      BY <1>1, <1>5 DEF Answered
    <2> HIDE DEF finished, i, serves
    <2>2. prs' \in [1..Len(prs) -> Marks]
      <3>1. prs \in [1..Len(prs) -> Marks]
        BY DEF RenderInv, Shape, Recorded
      <3>2. CASE i \in DOMAIN prs
        <4>1. finished = [prs EXCEPT ![i].flight = None] /\ [prs[i] EXCEPT !.flight = None] \in Marks
          BY <1>2, <3>2 DEF finished, Marks
        <4>2. QED
          BY <2>1, <3>1, <3>2, <4>1
      <3>3. CASE i \notin DOMAIN prs
        BY <2>1, <3>1, <3>3 DEF finished
      <3>4. QED
        BY <3>2, <3>3
    <2>3. prs' \in Seq(Marks) /\ DOMAIN prs' = DOMAIN prs
      BY <1>2, <2>2, FunIsSeq
    <2>4. SameView
      BY <2>1 DEF SameView
    <2>5. \A n \in DOMAIN prs : prs'[n].flight # None => prs[n].flight # None /\ n # i
      BY <1>2, <1>4, <2>1
    <2>6. /\ jobs' \in [1..Slots -> Jobs \cup {None}] /\ replies' \in Seq(Replies)
          /\ Len(prs') = Len(prs)
          /\ MarksAreAnswered' /\ WantedIsRecorded' /\ WantedIsCurrent'
      BY <1>1, <2>1, <2>3, <2>4, <2>5, ReceiveKeeps DEF i
    <2>7. Shape'
      BY <1>1, <2>1, <2>3, <2>6
      DEF RenderInv, Shape, PanesOK, Recorded, WalkOK, WorkOK, FetchOK, fetchVars, frameVars
    <2>8. QED
      BY <2>6, <2>7 DEF RenderInv
  <1>6. CASE serves
    <2>1. /\ Paint(takers, r.pic)
          /\ prs' = [n \in DOMAIN prs |-> IF n \in takers
                                          THEN [finished[n] EXCEPT !.last = r.pic.cut]
                                          ELSE finished[n]]
          /\ Speculate(i, r.pic.cut)
      BY <1>1, <1>6 DEF Answered
    <2>2. r.pic.cut \in 0..MaxCut /\ i \in DOMAIN panes /\ Demand(i) = "Wanted"
      BY <1>3, <1>6, RenderAssumption DEF Replies, Pictures, Cuts, Demand
    <2> HIDE DEF finished, i, serves, takers
    <2>3. ASSUME NEW n \in 1..Len(prs)
          PROVE  /\ prs'[n] \in Marks
                 /\ prs'[n].flight = finished[n].flight
      <3>1. CASE n \in takers
        <4>1. prs'[n] = [finished[n] EXCEPT !.last = r.pic.cut]
          BY <1>2, <2>1, <3>1
        <4>2. QED
          BY <1>4, <2>2, <4>1 DEF Marks
      <3>2. CASE n \notin takers
        BY <1>2, <1>4, <2>1, <3>2
      <3>3. QED
        BY <3>1, <3>2
    <2>4. prs' \in [1..Len(prs) -> Marks]
      BY <1>2, <2>1, <2>3
    <2>5. prs' \in Seq(Marks) /\ DOMAIN prs' = DOMAIN prs
      BY <1>2, <2>4, FunIsSeq
    <2>6. PanesOK' /\ SameView /\ Len(panes') = Len(panes)
      BY <2>1, PaintKeeps DEF RenderInv, Shape
    <2>7. \A n \in DOMAIN prs : prs'[n].flight # None => prs[n].flight # None /\ n # i
      BY <1>2, <1>4, <2>3
    <2>8. \/ jobs' = jobs
          \/ \E pic \in Pictures, at \in Sites : FreeSlots # {} /\ jobs' = Running(0, at, pic)
      BY <2>1, <2>2, SpeculateJob DEF RenderInv, Shape
    <2>9. /\ jobs' \in [1..Slots -> Jobs \cup {None}] /\ replies' \in Seq(Replies)
          /\ Len(prs') = Len(prs)
          /\ MarksAreAnswered' /\ WantedIsRecorded' /\ WantedIsCurrent'
      BY <1>1, <2>5, <2>6, <2>7, <2>8, ReceiveKeeps DEF i
    <2>10. Shape'
      BY <1>1, <2>5, <2>6, <2>9
      DEF RenderInv, Shape, Recorded, WalkOK, WorkOK, FetchOK, fetchVars, frameVars
    <2>11. QED
      BY <2>9, <2>10 DEF RenderInv
  <1>7. QED
    BY <1>5, <1>6

LEMMA EndApplyStep == ASSUME RenderInv, EndApply PROVE RenderInv'
  <1>1. /\ phase = "apply" /\ phase' = "dispatch" /\ walk' = 1
        /\ UNCHANGED <<uiVars, prs, poolVars, ahead, cache, fetchVars, acts>>
    BY DEF EndApply
  <1>2. Len(prs) \in Nat /\ SameView
    BY <1>1, Domains DEF RenderInv, Shape, SameView, uiVars
  <1>3. WantedIsRecorded' /\ WantedIsCurrent'
    BY <1>1, <1>2, WantedKeeps DEF RenderInv, Wanting, poolVars
  <1>4. MarksAreAnswered'
    BY <1>1, MarksKeep DEF RenderInv, poolVars
  <1>5. WalkOK'
    BY <1>1 DEF RenderInv, Shape, Recorded, WalkOK, uiVars
  <1>6. PanesOK' /\ Recorded' /\ WorkOK' /\ FetchOK'
    BY <1>1 DEF RenderInv, Shape, PanesOK, Recorded, WorkOK, FetchOK, uiVars, poolVars, fetchVars
  <1>7. QED
    BY <1>3, <1>4, <1>5, <1>6 DEF RenderInv, Shape

(* A step that asks for no render and takes no answer. *)
LEMMA ViewStep ==
    ASSUME RenderInv, jobs' = jobs, replies' = replies, SameView,
           \A i \in DOMAIN prs : prs'[i].flight = prs[i].flight, Len(prs') = Len(prs),
           PanesOK', Recorded', WalkOK', FetchOK'
    PROVE  RenderInv'
  <1>1. /\ DOMAIN prs = 1..Len(prs) /\ Len(prs) \in Nat
    BY Domains DEF RenderInv, Shape
  <1>2. DOMAIN prs' = 1..Len(prs)
    BY DEF Recorded
  <1>3. MarksAreAnswered'
    BY <1>1, <1>2, MarksKeep DEF RenderInv
  <1>4. WantedIsRecorded' /\ WantedIsCurrent'
    BY <1>1, WantedKeeps DEF RenderInv, Wanting
  <1>5. WorkOK'
    BY DEF RenderInv, Shape, WorkOK
  <1>6. QED
    BY <1>3, <1>4, <1>5 DEF RenderInv, Shape

-----------------------------------------------------------------------------
(* The walk over the panes. *)

LEMMA WalkKeeps ==
    ASSUME RenderInv, Walk, Len(prs') = Len(prs)
    PROVE  /\ WalkOK' /\ FetchOK' /\ walk \in 1..Len(prs) /\ walk \in 1..count
           /\ count' = count /\ replies' = replies
  <1>1. /\ phase = "dispatch" /\ walk \in 1..count /\ count <= Len(prs) /\ count \in Nat
        /\ Len(prs) \in Nat
    BY Domains DEF RenderInv, Shape, Recorded, WalkOK, Walk
  <1>2. WalkOK'
    BY <1>1 DEF Walk, WalkOK
  <1>3. FetchOK'
    BY DEF RenderInv, Shape, FetchOK, Walk, fetchVars
  <1>4. QED
    BY <1>1, <1>2, <1>3 DEF Walk

LEMMA PaneAt ==
    ASSUME PanesOK, NEW i \in DOMAIN panes
    PROVE  panes[i].site \in Sites /\ panes[i].cut \in Cuts /\ panes[i].vol \in Nat
  <1>1. PICK G : panes \in Seq(PanesWith(G))
    BY DEF PanesOK
  <1>2. panes[i] \in PanesWith(G)
    BY <1>1
  <1>3. QED
    BY <1>2 DEF PanesWith

(* A pane that is handed a picture, or gives its own back. *)
LEMMA PaintStep ==
    ASSUME RenderInv, Walk, NEW last \in 0..MaxCut, NEW pic, Paint({walk}, pic), jobs' = jobs,
           prs' = [prs EXCEPT ![walk].last = last]
    PROVE  RenderInv'
  <1>1. /\ prs \in Seq(Marks) /\ DOMAIN prs = 1..Len(prs) /\ Len(prs) \in Nat
        /\ \A i \in DOMAIN prs : prs[i] \in Marks
    BY Domains DEF RenderInv, Shape, Recorded
  <1>2. walk \in 1..Len(prs)
    BY <1>1, WalkKeeps DEF Walk, RenderInv, Shape, WalkOK, Recorded
  <1>3. [prs[walk] EXCEPT !.last = last] \in Marks
        /\ [prs[walk] EXCEPT !.last = last].flight = prs[walk].flight
    BY <1>1, <1>2 DEF Marks
  <1>4. /\ prs' \in Seq(Marks) /\ Len(prs') = Len(prs)
        /\ \A i \in DOMAIN prs : prs'[i].flight = prs[i].flight
    BY <1>1, <1>2, <1>3
  <1>5. WalkOK' /\ FetchOK' /\ count' = count /\ replies' = replies
    BY <1>4, WalkKeeps
  <1>6. PanesOK' /\ SameView /\ Len(panes') = Len(panes)
    BY PaintKeeps DEF RenderInv, Shape
  <1>7. Recorded'
    BY <1>4, <1>5, <1>6 DEF RenderInv, Shape, Recorded
  <1>8. QED
    BY <1>4, <1>5, <1>6, <1>7, ViewStep

LEMMA PassStep == ASSUME RenderInv, Pass PROVE RenderInv'
  <1>1. Walk /\ UNCHANGED <<panes, prs, jobs, ahead, cache>>
    BY DEF Pass
  <1>2. WalkOK' /\ FetchOK' /\ count' = count /\ replies' = replies
    BY <1>1, WalkKeeps
  <1>3. PanesOK' /\ Recorded' /\ SameView
    BY <1>1, <1>2 DEF RenderInv, Shape, PanesOK, Recorded, SameView
  <1>4. QED
    BY <1>1, <1>2, <1>3, ViewStep

LEMMA FromCacheStep == ASSUME RenderInv, FromCache PROVE RenderInv'
  <1>1. PICK e \in Cached(WantedKey(walk)) :
            /\ Paint({walk}, e.pic)
            /\ prs' = [prs EXCEPT ![walk].last = panes[walk].cut]
    BY DEF FromCache
  <1>2. Walk /\ jobs' = jobs /\ walk \in DOMAIN panes
    BY DEF FromCache, Asks, Demand
  <1>3. panes[walk].cut \in 0..MaxCut
    BY <1>2, PaneAt, RenderAssumption DEF RenderInv, Shape, Cuts
  <1>4. QED
    BY <1>1, <1>2, <1>3, PaintStep

LEMMA GiveBackStep == ASSUME RenderInv, GiveBack PROVE RenderInv'
  <1>1. Walk /\ Paint({walk}, None) /\ jobs' = jobs /\ prs' = [prs EXCEPT ![walk].last = 0]
    BY DEF GiveBack
  <1>2. 0 \in 0..MaxCut
    BY RenderAssumption
  <1>3. QED
    BY <1>1, <1>2, PaintStep

LEMMA SpawnStep == ASSUME RenderInv, NoneIsNoJob, Spawn PROVE RenderInv'
  <1> DEFINE site == panes[walk].site
             pic == Picture(walk, panes[walk].cut)
  <1>1. /\ Walk /\ FreeSlots # {} /\ UNCHANGED <<panes, ahead, cache>>
        /\ jobs' = Running(walk, site, pic)
        /\ prs' = [prs EXCEPT ![walk].flight = WantedKey(walk)]
        /\ walk \in DOMAIN panes /\ panes[walk].vol # 0
    BY DEF Spawn, Asks, Demand
  <1>2. /\ prs \in Seq(Marks) /\ DOMAIN prs = 1..Len(prs) /\ Len(prs) \in Nat
        /\ \A i \in DOMAIN prs : prs[i] \in Marks
        /\ DOMAIN prs \subseteq DOMAIN panes
    BY Domains DEF RenderInv, Shape, Recorded
  <1>3. walk \in 1..Len(prs) /\ walk \in 1..count
    BY <1>1, <1>2 DEF Walk, RenderInv, Shape, WalkOK, Recorded
  <1>4. site \in Sites /\ panes[walk].cut \in Cuts /\ panes[walk].vol \in Nat
    BY <1>1, PaneAt DEF RenderInv, Shape
  <1>5. WantedKey(walk) \in Keys /\ pic \in Pictures
        /\ pic.site = panes[walk].site /\ pic.vol = panes[walk].vol
    BY <1>1, <1>4 DEF WantedKey, Key, Keys, Picture, Pictures
  <1>6. walk \in 0..MaxPanes
    BY <1>3, RenderAssumption DEF RenderInv, Shape, Recorded
  <1> HIDE DEF site, pic
  <1>7. /\ jobs' \in [1..Slots -> Jobs \cup {None}]
        /\ \E f \in 1..Slots :
             /\ jobs[f] = None /\ jobs'[f] # None
             /\ jobs'[f] = [stage |-> "run", pane |-> walk, at |-> site, pic |-> pic,
                            wanted |-> TRUE]
             /\ \A s \in 1..Slots : s # f => jobs'[s] = jobs[s]
    BY <1>1, <1>4, <1>5, <1>6, RunningJobs DEF RenderInv, Shape, site
  <1>8. PICK f \in 1..Slots :
             /\ jobs[f] = None /\ jobs'[f] # None
             /\ jobs'[f].stage = "run" /\ jobs'[f].pane = walk /\ jobs'[f].pic = pic
             /\ jobs'[f].wanted
             /\ \A s \in 1..Slots : s # f => jobs'[s] = jobs[s]
    BY <1>7
  <1>9. [prs[walk] EXCEPT !.flight = WantedKey(walk)] \in Marks
    BY <1>2, <1>3, <1>5 DEF Marks
  <1>10. /\ prs' \in Seq(Marks) /\ Len(prs') = Len(prs) /\ DOMAIN prs' = DOMAIN prs
         /\ \A i \in DOMAIN prs : i # walk => prs'[i] = prs[i]
    BY <1>1, <1>2, <1>3, <1>9
  <1>11. WalkOK' /\ FetchOK' /\ count' = count /\ replies' = replies
    BY <1>1, <1>10, WalkKeeps
  <1>12. Shape'
    BY <1>1, <1>7, <1>10, <1>11 DEF RenderInv, Shape, PanesOK, Recorded, WorkOK
  <1>13. MarksAreAnswered'
    <2> SUFFICES ASSUME NEW i \in DOMAIN prs, prs'[i].flight # None
                 PROVE  \/ \E r \in Range(replies) : r.pane = i
                        \/ \E s \in 1..Slots :
                             /\ jobs'[s] # None /\ jobs'[s].pane = i
                             /\ jobs'[s].stage = "send" \/ (jobs'[s].stage = "run" /\ jobs'[s].wanted)
      BY <1>10, <1>11 DEF MarksAreAnswered
    <2>1. CASE i = walk
      BY <1>8, <2>1
    <2>2. CASE i # walk
      <3>1. prs[i].flight # None
        BY <1>10, <2>2
      <3>2. CASE \E r \in Range(replies) : r.pane = i
        BY <3>2
      <3>3. CASE \E s \in 1..Slots :
                   /\ jobs[s] # None /\ jobs[s].pane = i
                   /\ jobs[s].stage = "send" \/ (jobs[s].stage = "run" /\ jobs[s].wanted)
        BY <1>8, <3>3
      <3>4. QED
        BY <3>1, <3>2, <3>3 DEF RenderInv, MarksAreAnswered
    <2>3. QED
      BY <2>1, <2>2
  <1>14. WantedIsRecorded'
    BY <1>3, <1>8, <1>10 DEF RenderInv, WantedIsRecorded, Wanting
  <1>15. WantedIsCurrent'
    BY <1>1, <1>5, <1>8 DEF RenderInv, WantedIsCurrent
  <1>16. QED
    BY <1>12, <1>13, <1>14, <1>15 DEF RenderInv

-----------------------------------------------------------------------------
(* The pool. *)

(* A render gets on: what it owed its pane it still owes, or has sent. *)
LEMMA JobMoves ==
    ASSUME RenderInv, NEW s \in 1..Slots, jobs[s] # None,
           NEW j \in Jobs \cup {None}, jobs' = [jobs EXCEPT ![s] = j],
           j # None => j.stage # "run",
           replies' \in Seq(Replies), Range(replies) \subseteq Range(replies'),
           jobs[s].stage = "send" \/ (jobs[s].stage = "run" /\ jobs[s].wanted) =>
               \/ j # None /\ j.pane = jobs[s].pane /\ j.stage = "send"
               \/ \E r \in Range(replies') : r.pane = jobs[s].pane,
           UNCHANGED <<panes, count, prs, phase, walk, latest, air>>
    PROVE  RenderInv'
  <1>1. /\ jobs' \in [1..Slots -> Jobs \cup {None}] /\ jobs'[s] = j
        /\ \A t \in 1..Slots : t # s => jobs'[t] = jobs[t]
    BY DEF RenderInv, Shape, WorkOK
  <1>2. Shape'
    BY <1>1 DEF RenderInv, Shape, PanesOK, Recorded, WalkOK, WorkOK, FetchOK
  <1>3. MarksAreAnswered'
    <2> SUFFICES ASSUME NEW i \in DOMAIN prs, prs[i].flight # None
                 PROVE  \/ \E r \in Range(replies') : r.pane = i
                        \/ \E t \in 1..Slots :
                             /\ jobs'[t] # None /\ jobs'[t].pane = i
                             /\ jobs'[t].stage = "send" \/ (jobs'[t].stage = "run" /\ jobs'[t].wanted)
      BY DEF MarksAreAnswered
    <2>1. CASE \E r \in Range(replies) : r.pane = i
      BY <2>1
    <2>2. ASSUME NEW t \in 1..Slots, jobs[t] # None, jobs[t].pane = i,
                 jobs[t].stage = "send" \/ (jobs[t].stage = "run" /\ jobs[t].wanted)
          PROVE  \/ \E r \in Range(replies') : r.pane = i
                 \/ \E u \in 1..Slots :
                      /\ jobs'[u] # None /\ jobs'[u].pane = i
                      /\ jobs'[u].stage = "send" \/ (jobs'[u].stage = "run" /\ jobs'[u].wanted)
      <3>1. CASE t # s
        BY <1>1, <2>2, <3>1
      <3>2. CASE t = s
        BY <1>1, <2>2, <3>2
      <3>3. QED
        BY <3>1, <3>2
    <2>3. QED
      BY <2>1, <2>2 DEF RenderInv, MarksAreAnswered
  <1>4. Len(prs) \in Nat /\ SameView
    BY Domains DEF RenderInv, Shape, SameView
  <1>5. \A t \in 1..Slots : Wanting(t)' => Wanting(t) /\ jobs'[t] = jobs[t]
    BY <1>1 DEF Wanting
  <1>6. WantedIsRecorded' /\ WantedIsCurrent'
    BY <1>4, <1>5, WantedKeeps DEF RenderInv
  <1>7. QED
    BY <1>2, <1>3, <1>6 DEF RenderInv

LEMMA DecideStep ==
    ASSUME RenderInv, NoneIsNoJob, NEW s \in 1..Slots, Decide(s) PROVE RenderInv'
  <1> DEFINE j == [jobs[s] EXCEPT !.stage = IF jobs[s].wanted THEN "send" ELSE "leave"]
  <1>1. /\ jobs[s] # None /\ jobs[s].stage = "run" /\ jobs[s] \in Jobs
        /\ UNCHANGED <<panes, count, prs, replies, phase, walk, latest, air>>
    BY JobAt DEF Decide, uiVars, fetchVars, frameVars, RenderInv, Shape
  <1>2. jobs' = [jobs EXCEPT ![s] = j]
    BY DEF Decide
  <1>3. /\ j \in Jobs /\ j.pane = jobs[s].pane /\ j.stage # "run"
        /\ jobs[s].wanted => j.stage = "send"
    BY <1>1 DEF Jobs
  <1>4. j # None
    BY <1>3 DEF NoneIsNoJob
  <1> HIDE DEF j
  <1>5. replies' \in Seq(Replies) /\ Range(replies) \subseteq Range(replies')
    BY <1>1 DEF RenderInv, Shape, WorkOK
  <1>6. QED
    BY <1>1, <1>2, <1>3, <1>4, <1>5, JobMoves

LEMMA ComeBackEmptyStep ==
    ASSUME RenderInv, NoneIsNoJob, NEW s \in 1..Slots, ComeBackEmpty(s) PROVE RenderInv'
  <1> DEFINE j == [jobs[s] EXCEPT !.stage = IF jobs[s].wanted THEN "send" ELSE "leave",
                                  !.pic = None]
  <1>1. /\ jobs[s] # None /\ jobs[s].stage = "run" /\ jobs[s] \in Jobs
        /\ UNCHANGED <<panes, count, prs, replies, phase, walk, latest, air>>
    BY JobAt DEF ComeBackEmpty, uiVars, fetchVars, RenderInv, Shape
  <1>2. jobs' = [jobs EXCEPT ![s] = j]
    BY <1>1 DEF ComeBackEmpty, RenderInv, Shape, WorkOK
  <1>3. /\ j \in Jobs /\ j.pane = jobs[s].pane /\ j.stage # "run"
        /\ jobs[s].wanted => j.stage = "send"
    BY <1>1 DEF Jobs
  <1>4. j # None
    BY <1>3 DEF NoneIsNoJob
  <1> HIDE DEF j
  <1>5. replies' \in Seq(Replies) /\ Range(replies) \subseteq Range(replies')
    BY <1>1 DEF RenderInv, Shape, WorkOK
  <1>6. QED
    BY <1>1, <1>2, <1>3, <1>4, <1>5, JobMoves

LEMMA SendStep ==
    ASSUME RenderInv, NoneIsNoJob, NEW s \in 1..Slots, Send(s) PROVE RenderInv'
  <1> DEFINE j == [jobs[s] EXCEPT !.stage = "leave"]
             r == [pane |-> jobs[s].pane, at |-> jobs[s].at, pic |-> jobs[s].pic]
  <1>1. /\ jobs[s] # None /\ jobs[s].stage = "send" /\ jobs[s] \in Jobs
        /\ UNCHANGED <<panes, count, prs, phase, walk, latest, air>>
    BY JobAt DEF Send, uiVars, fetchVars, frameVars, RenderInv, Shape
  <1>2. jobs' = [jobs EXCEPT ![s] = j] /\ replies' = Append(replies, r)
    BY DEF Send
  <1>3. j \in Jobs /\ j.stage # "run" /\ r \in Replies /\ r.pane = jobs[s].pane
    BY <1>1 DEF Jobs, Replies
  <1> HIDE DEF j, r
  <1>4. replies' \in Seq(Replies) /\ Range(replies') = Range(replies) \cup {r}
    BY <1>2, <1>3, RangeOfAppend DEF RenderInv, Shape, WorkOK
  <1>5. QED
    BY <1>1, <1>2, <1>3, <1>4, JobMoves

LEMMA LeaveStep == ASSUME RenderInv, NEW s \in 1..Slots, Leave(s) PROVE RenderInv'
  <1>1. /\ jobs[s] # None /\ jobs[s].stage = "leave" /\ jobs' = [jobs EXCEPT ![s] = None]
        /\ UNCHANGED <<panes, count, prs, replies, phase, walk, latest, air>>
    BY DEF Leave, uiVars, fetchVars, frameVars
  <1>2. replies' \in Seq(Replies) /\ Range(replies) \subseteq Range(replies')
    BY <1>1 DEF RenderInv, Shape, WorkOK
  <1>3. QED
    BY <1>1, <1>2, JobMoves

-----------------------------------------------------------------------------
(* The user and the platform. *)

LEMMA PanesGrow ==
    ASSUME NEW G, NEW H PROVE PanesWith(G) \subseteq PanesWith(G \cup H)
  BY DEF PanesWith

(* One pane is given something else to show. *)
LEMMA PaneChanges ==
    ASSUME PanesOK, NEW i \in DOMAIN panes, NEW p, panes' = [panes EXCEPT ![i] = p],
           NEW g, p \in PanesWith({panes[i].glass, g}),
           p.vol # 0 => p.site = panes[i].site /\ p.vol = panes[i].vol
    PROVE  PanesOK' /\ SameView /\ Len(panes') = Len(panes)
  <1>1. PICK G : panes \in Seq(PanesWith(G))
    BY DEF PanesOK
  <1> DEFINE H == G \cup {panes[i].glass, g}
  <1>2. /\ DOMAIN panes = 1..Len(panes) /\ Len(panes) \in Nat
        /\ \A n \in DOMAIN panes : panes[n] \in PanesWith(G)
    BY <1>1
  <1>3. p \in PanesWith(H) /\ \A n \in DOMAIN panes : panes[n] \in PanesWith(H)
    BY <1>2 DEF PanesWith
  <1> HIDE DEF H
  <1>4. panes' \in [1..Len(panes) -> PanesWith(H)]
    BY <1>2, <1>3
  <1>5. panes' \in Seq(PanesWith(H)) /\ Len(panes') = Len(panes)
    BY <1>2, <1>4, FunIsSeq
  <1>6. SameView
    BY <1>2, <1>4 DEF SameView
  <1>7. QED
    BY <1>5, <1>6 DEF PanesOK

(* What ends a frame without touching a render. *)
LEMMA DrawStep ==
    ASSUME RenderInv, EndDraw, UNCHANGED <<count, prs, poolVars>>,
           PanesOK', SameView, Len(panes') = Len(panes), FetchOK'
    PROVE  RenderInv'
  <1>1. Recorded' /\ WalkOK' /\ jobs' = jobs /\ replies' = replies
    BY DEF RenderInv, Shape, Recorded, WalkOK, EndDraw, poolVars
  <1>2. QED
    BY <1>1, ViewStep

LEMMA SamePanes ==
    ASSUME RenderInv, panes' = panes PROVE PanesOK' /\ SameView /\ Len(panes') = Len(panes)
  BY DEF RenderInv, Shape, PanesOK, SameView

LEMMA SameFetch == ASSUME RenderInv, UNCHANGED fetchVars PROVE FetchOK'
  BY DEF RenderInv, Shape, FetchOK, fetchVars

LEMMA FetchSpawned ==
    ASSUME RenderInv, NEW site \in Sites, NEW i \in 0..MaxPanes, SpawnFetch(site, i)
    PROVE  FetchOK'
  <1>1. /\ latest[site] + 1 \in Nat \ {0}
        /\ latest' = [latest EXCEPT ![site] = latest[site] + 1]
        /\ air' = air \cup {[site |-> site, vol |-> latest[site] + 1, requester |-> i]}
    BY DEF SpawnFetch, RenderInv, Shape, FetchOK
  <1>2. QED
    BY <1>1 DEF RenderInv, Shape, FetchOK, Requests

LEMMA VisiblePanes ==
    ASSUME RenderInv, NEW i \in Visible
    PROVE  /\ i \in DOMAIN panes /\ i \in 0..MaxPanes /\ i \in Nat \ {0}
           /\ count \in Nat \ {0} /\ count <= Len(panes) /\ Len(panes) \in Nat
           /\ panes[i].site \in Sites
  <1>1. DOMAIN panes = 1..Len(panes) /\ Len(panes) \in Nat
    BY Domains DEF RenderInv, Shape
  <1>2. i \in DOMAIN panes /\ i \in 0..MaxPanes
    BY <1>1, RenderAssumption DEF RenderInv, Shape, Recorded, Visible
  <1>3. QED
    BY <1>1, <1>2, PaneAt DEF RenderInv, Shape, Recorded, Visible

LEMMA FetchSteps ==
    ASSUME RenderInv, NEW i \in Visible, FetchRadarScan(i) \/ Navigate(i) PROVE RenderInv'
  <1>1. /\ EndDraw /\ UNCHANGED <<uiVars, prs, poolVars>>
        /\ SpawnFetch(panes[i].site, 0) \/ SpawnFetch(panes[i].site, i)
    BY DEF FetchRadarScan, Navigate
  <1>2. panes[i].site \in Sites /\ i \in 0..MaxPanes /\ 0 \in 0..MaxPanes
    BY VisiblePanes, RenderAssumption
  <1>3. FetchOK'
    BY <1>1, <1>2, FetchSpawned
  <1>4. PanesOK' /\ SameView /\ Len(panes') = Len(panes)
    BY <1>1, SamePanes DEF uiVars
  <1>5. QED
    BY <1>1, <1>3, <1>4, DrawStep DEF uiVars

LEMMA PaneIn ==
    ASSUME PanesOK, NEW i \in DOMAIN panes
    PROVE  panes[i] \in PanesWith({panes[i].glass, None})
  <1>1. PICK G : panes \in Seq(PanesWith(G))
    BY DEF PanesOK
  <1>2. panes[i] \in PanesWith(G)
    BY <1>1
  <1>3. QED
    BY <1>2 DEF PanesWith

LEMMA SwitchRadarSiteStep ==
    ASSUME RenderInv, NEW i \in Visible, NEW site \in Sites, SwitchRadarSite(i, site)
    PROVE  RenderInv'
  <1> DEFINE p == [panes[i] EXCEPT !.site = site, !.vol = 0]
  <1>1. /\ EndDraw /\ UNCHANGED <<count, prs, poolVars>>
        /\ SpawnFetch(site, 0)
    BY DEF SwitchRadarSite
  <1>2. i \in DOMAIN panes /\ 0 \in 0..MaxPanes
    BY VisiblePanes, RenderAssumption
  <1>3. panes[i] \in PanesWith({panes[i].glass, None})
    BY <1>2, PaneIn DEF RenderInv, Shape
  <1>4. panes' = [panes EXCEPT ![i] = p]
    BY <1>2 DEF SwitchRadarSite
  <1>5. p \in PanesWith({panes[i].glass, None}) /\ p.vol = 0
    BY <1>3 DEF PanesWith
  <1> HIDE DEF p
  <1>6. PanesOK' /\ SameView /\ Len(panes') = Len(panes)
    BY <1>2, <1>4, <1>5, PaneChanges DEF RenderInv, Shape
  <1>7. QED
    BY <1>1, <1>2, <1>6, FetchSpawned, DrawStep

LEMMA SelectCutStep ==
    ASSUME RenderInv, NEW i \in Visible, NEW cut \in Cuts, SelectCut(i, cut) PROVE RenderInv'
  <1> DEFINE p == [panes[i] EXCEPT !.cut = cut]
  <1>1. EndDraw /\ UNCHANGED <<count, prs, poolVars, fetchVars>>
    BY DEF SelectCut
  <1>2. i \in DOMAIN panes
    BY VisiblePanes
  <1>3. panes[i] \in PanesWith({panes[i].glass, None})
    BY <1>2, PaneIn DEF RenderInv, Shape
  <1>4. panes' = [panes EXCEPT ![i] = p]
    BY DEF SelectCut
  <1>5. /\ p \in PanesWith({panes[i].glass, None})
        /\ p.site = panes[i].site /\ p.vol = panes[i].vol
    BY <1>3 DEF PanesWith
  <1> HIDE DEF p
  <1>6. PanesOK' /\ SameView /\ Len(panes') = Len(panes)
    BY <1>2, <1>4, <1>5, PaneChanges DEF RenderInv, Shape
  <1>7. QED
    BY <1>1, <1>6, SameFetch, DrawStep

LEMMA ToggleRadarStep ==
    ASSUME RenderInv, NEW i \in Visible, ToggleRadar(i) PROVE RenderInv'
  <1> DEFINE p == [panes[i] EXCEPT !.radar = ~panes[i].radar,
                                   !.glass = IF panes[i].radar THEN None ELSE panes[i].glass]
  <1>1. EndDraw /\ UNCHANGED <<count, prs, poolVars, fetchVars>>
    BY DEF ToggleRadar
  <1>2. i \in DOMAIN panes
    BY VisiblePanes
  <1>3. panes[i] \in PanesWith({panes[i].glass, None})
    BY <1>2, PaneIn DEF RenderInv, Shape
  <1>4. panes' = [panes EXCEPT ![i] = p]
    BY <1>2, <1>3 DEF ToggleRadar, PanesWith
  <1>5. /\ p \in PanesWith({panes[i].glass, None})
        /\ p.site = panes[i].site /\ p.vol = panes[i].vol
    BY <1>3 DEF PanesWith
  <1> HIDE DEF p
  <1>6. PanesOK' /\ SameView /\ Len(panes') = Len(panes)
    BY <1>2, <1>4, <1>5, PaneChanges DEF RenderInv, Shape
  <1>7. QED
    BY <1>1, <1>6, SameFetch, DrawStep

LEMMA ClearRenderCacheStep == ASSUME RenderInv, ClearRenderCache PROVE RenderInv'
  <1>1. EndDraw /\ UNCHANGED <<panes, count, prs, poolVars, fetchVars>>
    BY DEF ClearRenderCache, uiVars
  <1>2. QED
    BY <1>1, SamePanes, SameFetch, DrawStep

LEMMA IdleStep == ASSUME RenderInv, Idle PROVE RenderInv'
  <1>1. EndDraw /\ UNCHANGED <<panes, count, prs, poolVars, fetchVars>>
    BY DEF Idle, uiVars
  <1>2. QED
    BY <1>1, SamePanes, SameFetch, DrawStep

LEMMA LoseGraphicsStep == ASSUME RenderInv, LoseGraphics PROVE RenderInv'
  <1>1. /\ EndDraw /\ UNCHANGED <<panes, count, poolVars, fetchVars>>
        /\ prs' = [i \in DOMAIN prs |-> [prs[i] EXCEPT !.last = 0]]
    BY DEF LoseGraphics, uiVars
  <1>2. /\ DOMAIN prs = 1..Len(prs) /\ Len(prs) \in Nat
        /\ \A i \in DOMAIN prs : prs[i] \in Marks
    BY Domains DEF RenderInv, Shape
  <1>3. 0 \in 0..MaxCut
    BY RenderAssumption
  <1>4. \A i \in DOMAIN prs : /\ [prs[i] EXCEPT !.last = 0] \in Marks
                              /\ [prs[i] EXCEPT !.last = 0].flight = prs[i].flight
    BY <1>2, <1>3 DEF Marks
  <1>5. /\ prs' \in [1..Len(prs) -> Marks]
        /\ \A i \in DOMAIN prs : prs'[i].flight = prs[i].flight
    BY <1>1, <1>2, <1>4
  <1>6. prs' \in Seq(Marks) /\ Len(prs') = Len(prs)
    BY <1>2, <1>5, FunIsSeq
  <1>7. PanesOK' /\ SameView /\ Recorded'
    BY <1>1, <1>6, SamePanes DEF RenderInv, Shape, Recorded
  <1>8. WalkOK' /\ jobs' = jobs /\ replies' = replies /\ FetchOK'
    BY <1>1, SameFetch DEF WalkOK, EndDraw, poolVars
  <1>9. QED
    BY <1>5, <1>6, <1>7, <1>8, ViewStep

LEMMA SetPaneCountStep ==
    ASSUME RenderInv, NEW n \in Indices, SetPaneCount(n) PROVE RenderInv'
  <1>1. /\ EndDraw /\ UNCHANGED <<prs, poolVars, fetchVars>>
        /\ count' = n /\ n \in Nat \ {0} /\ n <= MaxPanes
    BY RenderAssumption DEF SetPaneCount, Indices
  <1>2. PICK active \in Visible :
            panes' = [i \in DOMAIN Grown(panes, n, [panes[active] EXCEPT !.cut = 1, !.radar = TRUE, !.glass = None])
                        |-> IF i > n
                            THEN PutAway(Grown(panes, n, [panes[active] EXCEPT !.cut = 1, !.radar = TRUE, !.glass = None])[i])
                            ELSE Grown(panes, n, [panes[active] EXCEPT !.cut = 1, !.radar = TRUE, !.glass = None])[i]]
    BY DEF SetPaneCount
  <1> DEFINE opened == [panes[active] EXCEPT !.cut = 1, !.radar = TRUE, !.glass = None]
             all == Grown(panes, n, opened)
  <1>3. PICK G : panes \in Seq(PanesWith(G))
    BY DEF RenderInv, Shape, PanesOK
  <1> DEFINE H == G \cup {None, Hidden}
  <1>4. active \in DOMAIN panes /\ DOMAIN panes = 1..Len(panes) /\ Len(panes) \in Nat
    BY <1>3, VisiblePanes
  <1>5. 1 \in Cuts
    BY RenderAssumption DEF Cuts
  <1>6. panes[active] \in PanesWith(G)
    BY <1>3, <1>4
  <1>7. opened \in PanesWith(H)
    BY <1>5, <1>6 DEF PanesWith
  <1>8. panes \in Seq(PanesWith(H))
    <2>1. \A i \in DOMAIN panes : panes[i] \in PanesWith(G)
      BY <1>3
    <2>2. \A i \in DOMAIN panes : panes[i] \in PanesWith(H)
      BY <2>1, PanesGrow
    <2> HIDE DEF H
    <2>3. panes \in [1..Len(panes) -> PanesWith(H)]
      BY <1>3, <1>4, <2>2
    <2>4. QED
      BY <1>4, <2>3, FunIsSeq
  <1>9. \A p \in PanesWith(H) :
            PutAway(p) \in PanesWith(H) /\ PutAway(p).site = p.site /\ PutAway(p).vol = p.vol
    BY DEF PutAway, PanesWith
  <1>10. panes' = [i \in DOMAIN all |-> IF i > n THEN PutAway(all[i]) ELSE all[i]]
    BY <1>2
  <1>11. \A i \in 1..Len(panes) : i \in DOMAIN all /\ all[i] = panes[i]
    BY <1>3, <1>4 DEF Grown
  <1> HIDE DEF opened, H
  <1>12. /\ all \in Seq(PanesWith(H)) /\ Len(all) \in {n, Len(panes)}
         /\ n <= Len(all) /\ Len(panes) <= Len(all)
    BY <1>1, <1>7, <1>8, GrownType
  <1> HIDE DEF all
  <1>13. DOMAIN all = 1..Len(all) /\ Len(all) \in Nat /\ \A i \in DOMAIN all : all[i] \in PanesWith(H)
    BY <1>12
  <1>14. /\ panes' \in [1..Len(all) -> PanesWith(H)]
         /\ \A i \in DOMAIN all : panes'[i].site = all[i].site /\ panes'[i].vol = all[i].vol
    BY <1>9, <1>10, <1>13
  <1>15. panes' \in Seq(PanesWith(H)) /\ Len(panes') = Len(all) /\ DOMAIN panes' = 1..Len(all)
    BY <1>13, <1>14, FunIsSeq
  <1>16. PanesOK' /\ SameView
    BY <1>4, <1>11, <1>13, <1>14, <1>15 DEF PanesOK, SameView
  <1>17. Recorded'
    <2>1. /\ prs' \in Seq(Marks) /\ Len(prs') \in Nat /\ Len(prs') <= Len(panes)
          /\ Len(panes) <= MaxPanes /\ MaxPanes \in Nat
      BY <1>1, Domains, RenderAssumption DEF RenderInv, Shape, Recorded
    <2>2. Len(panes') \in Nat /\ n <= Len(panes') /\ Len(panes) <= Len(panes') /\ Len(panes') <= MaxPanes
      BY <1>1, <1>4, <1>12, <1>13, <1>15, <2>1
    <2>3. QED
      BY <1>1, <1>4, <2>1, <2>2 DEF Recorded
  <1>18. WalkOK' /\ jobs' = jobs /\ replies' = replies /\ FetchOK' /\ Len(prs') = Len(prs)
    BY <1>1, SameFetch DEF WalkOK, EndDraw, poolVars
  <1>19. QED
    BY <1>1, <1>16, <1>17, <1>18, ViewStep

(* The panes below the one that is closed keep their places, their marks and their
   answers; the marks and the answers of the others go. *)
LEMMA ClosePaneStep ==
    ASSUME RenderInv, NoneIsNoJob, NEW i \in Visible, ClosePane(i) PROVE RenderInv'
  <1>1. /\ EndDraw /\ count > 1 /\ count' = count - 1
        /\ panes' = RemoveAt(panes, i) /\ prs' = SubSeq(prs, 1, i - 1)
        /\ jobs' = Abandoned(i..MaxPanes) /\ UNCHANGED <<replies, latest, air>>
    BY DEF ClosePane, ForgetFrom
  <1>2. /\ i \in 1..count /\ count \in Nat /\ count <= Len(prs) /\ count <= Len(panes)
        /\ Len(panes) \in Nat /\ Len(prs) \in Nat /\ MaxPanes \in Nat
        /\ Len(panes) <= MaxPanes /\ Len(prs) <= Len(panes)
        /\ DOMAIN panes = 1..Len(panes) /\ DOMAIN prs = 1..Len(prs) /\ prs \in Seq(Marks)
    BY <1>1, Domains, RenderAssumption DEF RenderInv, Shape, Recorded, WalkOK, EndDraw, Visible
  <1>3. PICK G : panes \in Seq(PanesWith(G))
    BY DEF RenderInv, Shape, PanesOK
  <1>4. /\ panes' \in Seq(PanesWith(G)) /\ Len(panes') = Len(panes) - 1
        /\ \A n \in 1..(i - 1) : panes'[n] = panes[n]
    <2>1. i \in 1..Len(panes)
      BY <1>2
    <2>2. QED
      BY <1>1, <1>3, <2>1, Removed
  <1>5. i - 1 \in 0..Len(prs) /\ i - 1 \in 0..Len(panes')
    BY <1>2, <1>4
  <1>6. /\ prs' \in Seq(Marks) /\ Len(prs') = i - 1
        /\ \A n \in 1..(i - 1) : prs'[n] = prs[n]
    BY <1>1, <1>2, <1>5, Prefix
  <1>7. DOMAIN prs' = 1..(i - 1) /\ DOMAIN panes' = 1..(Len(panes) - 1)
    BY <1>2, <1>4, <1>6
  <1>8. /\ jobs' \in [1..Slots -> Jobs \cup {None}]
        /\ \A s \in 1..Slots :
             /\ Wanting(s)' => Wanting(s) /\ jobs'[s] = jobs[s] /\ jobs[s].pane \notin i..MaxPanes
             /\ jobs[s] # None /\ (jobs[s].pane \notin i..MaxPanes \/ jobs[s].stage = "send")
                    => jobs'[s] = jobs[s]
    BY <1>1, AbandonedJobs DEF RenderInv, Shape
  <1>9. Shape'
    <2>1. PanesOK'
      BY <1>4 DEF PanesOK
    <2>2. Recorded'
      BY <1>1, <1>2, <1>4, <1>6 DEF Recorded
    <2>3. WalkOK'
      BY <1>1 DEF WalkOK, EndDraw
    <2>4. WorkOK' /\ FetchOK'
      BY <1>1, <1>8 DEF RenderInv, Shape, WorkOK, FetchOK
    <2>5. QED
      BY <2>1, <2>2, <2>3, <2>4 DEF Shape
  <1>10. MarksAreAnswered'
    <2> SUFFICES ASSUME NEW n \in 1..(i - 1), prs[n].flight # None
                 PROVE  \/ \E r \in Range(replies) : r.pane = n
                        \/ \E s \in 1..Slots :
                             /\ jobs'[s] # None /\ jobs'[s].pane = n
                             /\ jobs'[s].stage = "send" \/ (jobs'[s].stage = "run" /\ jobs'[s].wanted)
      <3>1. replies' = replies /\ DOMAIN prs' = 1..(i - 1) /\ \A n \in 1..(i - 1) : prs'[n] = prs[n]
        BY <1>1, <1>6, <1>7
      <3>2. QED
        BY <3>1 DEF MarksAreAnswered
    <2>1. n \in DOMAIN prs /\ n \notin i..MaxPanes
      BY <1>2
    <2>2. CASE \E r \in Range(replies) : r.pane = n
      BY <2>2
    <2>3. CASE \E s \in 1..Slots :
                 /\ jobs[s] # None /\ jobs[s].pane = n
                 /\ jobs[s].stage = "send" \/ (jobs[s].stage = "run" /\ jobs[s].wanted)
      BY <1>8, <2>1, <2>3
    <2>4. QED
      BY <2>1, <2>2, <2>3 DEF RenderInv, MarksAreAnswered
  <1>11. ASSUME NEW s \in 1..Slots, Wanting(s)', jobs'[s].pane # 0
         PROVE  /\ jobs'[s].pane \in 1..Len(prs')
                /\ jobs'[s].pane \in DOMAIN panes'
                /\ jobs'[s].pic # None /\ panes'[jobs'[s].pane].vol # 0 =>
                     /\ jobs'[s].pic.site = panes'[jobs'[s].pane].site
                     /\ jobs'[s].pic.vol = panes'[jobs'[s].pane].vol
    <2>1. Wanting(s) /\ jobs'[s] = jobs[s] /\ jobs[s].pane \notin i..MaxPanes
      BY <1>8, <1>11
    <2>2. jobs[s].pane \in 1..Len(prs)
      BY <1>11, <2>1 DEF RenderInv, WantedIsRecorded
    <2>3. jobs[s].pane \in 1..(i - 1)
      BY <1>2, <2>1, <2>2
    <2>4. jobs[s].pic # None /\ panes[jobs[s].pane].vol # 0 =>
               /\ jobs[s].pic.site = panes[jobs[s].pane].site
               /\ jobs[s].pic.vol = panes[jobs[s].pane].vol
      BY <1>11, <2>1 DEF RenderInv, WantedIsCurrent, Wanting
    <2>5. jobs[s].pane \in DOMAIN panes'
      BY <1>2, <1>7, <2>3
    <2>6. QED
      BY <1>4, <1>6, <2>1, <2>3, <2>4, <2>5
  <1>12. WantedIsRecorded' /\ WantedIsCurrent'
    BY <1>11 DEF WantedIsRecorded, WantedIsCurrent, Wanting
  <1>13. QED
    BY <1>9, <1>10, <1>12 DEF RenderInv

-----------------------------------------------------------------------------
(* The invariant, from the first frame on. *)

LEMMA RenderInit == ASSUME Init PROVE RenderInv
  <1> DEFINE first == [site |-> Home, cut |-> 1, radar |-> TRUE, linked |-> Linked,
                       vol |-> 1, glass |-> None]
  <1>1. PanesOK /\ Len(panes) = 2
    <2>1. first \in PanesWith({None})
      BY RenderAssumption, FrameAssumption DEF PanesWith, Cuts
    <2>2. panes = [i \in 1..2 |-> first]
      BY DEF Init
    <2> HIDE DEF first
    <2>3. panes \in [1..2 -> PanesWith({None})]
      BY <2>1, <2>2
    <2>4. QED
      BY <2>3, FunIsSeq DEF PanesOK
  <1>2. Recorded
    BY <1>1, RenderAssumption DEF Init, Recorded, Marks
  <1>3. WalkOK /\ WorkOK /\ FetchOK
    BY DEF Init, WalkOK, WorkOK, FetchOK
  <1>4. MarksAreAnswered /\ WantedIsRecorded /\ WantedIsCurrent
    BY DEF Init, MarksAreAnswered, WantedIsRecorded, WantedIsCurrent, Wanting
  <1>5. QED
    BY <1>1, <1>2, <1>3, <1>4 DEF RenderInv, Shape

LEMMA StutterStep == ASSUME RenderInv, UNCHANGED vars PROVE RenderInv'
  BY DEF vars, RenderInv, Shape, PanesOK, Recorded, WalkOK, WorkOK, FetchOK,
         MarksAreAnswered, WantedIsRecorded, WantedIsCurrent, Wanting

LEMMA UserStep == ASSUME RenderInv, NoneIsNoJob, User PROVE RenderInv'
  <1>1. ASSUME NEW i \in Visible, FetchRadarScan(i) \/ Navigate(i) PROVE RenderInv'
    BY <1>1, FetchSteps
  <1>2. ASSUME NEW i \in Visible, ToggleRadar(i) PROVE RenderInv'
    BY <1>2, ToggleRadarStep
  <1>3. ASSUME NEW i \in Visible, ClosePane(i) PROVE RenderInv'
    BY <1>3, ClosePaneStep
  <1>4. ASSUME NEW i \in Visible, NEW site \in Sites, SwitchRadarSite(i, site) PROVE RenderInv'
    BY <1>4, SwitchRadarSiteStep
  <1>5. ASSUME NEW i \in Visible, NEW cut \in Cuts, SelectCut(i, cut) PROVE RenderInv'
    BY <1>5, SelectCutStep
  <1>6. ASSUME NEW n \in Indices, SetPaneCount(n) PROVE RenderInv'
    BY <1>6, SetPaneCountStep
  <1>7. QED
    BY <1>1, <1>2, <1>3, <1>4, <1>5, <1>6, LoseGraphicsStep, ClearRenderCacheStep DEF User

(* Every step keeps the invariant. *)
LEMMA RenderStep == ASSUME RenderInv, NoneIsNoJob, [Next]_vars PROVE RenderInv'
  <1>1. ASSUME NEW r \in air, Ingest(r) PROVE RenderInv'
    BY <1>1, IngestStep
  <1>2. CASE Frame
    <2>1. CASE EndIngest
      BY <2>1, EndIngestStep
    <2>2. CASE Receive
      <3>1. CASE Head(replies).pane = 0
        BY <2>2, <3>1, PrerenderedStep
      <3>2. CASE Head(replies).pane # 0
        BY <2>2, <3>2, AnsweredStep
      <3>3. QED
        BY <3>1, <3>2
    <2>3. CASE EndApply
      BY <2>3, EndApplyStep
    <2>4. CASE Dispatch
      BY <2>4, PassStep, FromCacheStep, SpawnStep, GiveBackStep DEF Dispatch
    <2>5. CASE Idle
      BY <2>5, IdleStep
    <2>6. QED
      BY <1>2, <2>1, <2>2, <2>3, <2>4, <2>5 DEF Frame
  <1>3. CASE Pool
    <2>1. PICK s \in 1..Slots : Render(s) \/ ComeBackEmpty(s)
      BY <1>3 DEF Pool
    <2>2. QED
      BY <2>1, DecideStep, SendStep, LeaveStep, ComeBackEmptyStep DEF Render
  <1>4. CASE User
    BY <1>4, UserStep
  <1>5. CASE UNCHANGED vars
    BY <1>5, StutterStep
  <1>6. QED
    BY <1>1, <1>2, <1>3, <1>4, <1>5 DEF Next

(* The invariant holds of every behaviour. *)
LEMMA RenderAlways == NoneIsNoJob => (Spec => []RenderInv)
  <1>1. ASSUME NoneIsNoJob
        PROVE  Spec => []RenderInv
    <2>1. Init => RenderInv
      BY RenderInit
    <2>2. RenderInv /\ [Next]_vars => RenderInv'
      BY <1>1, RenderStep
    <2>3. QED
      BY <2>1, <2>2, PTL DEF Spec
  <1>2. QED
    BY <1>1

(* No pane waits for a render that will never answer, for any number of radars, tilts,   *)
(* panes and slots: behind every mark of spawn_render (render_dispatch.rs) there is a     *)
(* reply in the channel or a job that will send one, whatever is reset, closed, hidden    *)
(* or lost meanwhile.                                                                   *)
THEOREM MarksAnswered == NoneIsNoJob => (Spec => []MarksAreAnswered)
  <1>1. RenderInv => MarksAreAnswered
    BY DEF RenderInv
  <1>2. ASSUME NoneIsNoJob
        PROVE  Spec => []MarksAreAnswered
    <2>1. Spec => []RenderInv
      BY <1>2, RenderAlways
    <2>2. QED
      BY <1>1, <2>1, PTL
  <1>3. QED
    BY <1>2

(* A render that may still answer is of the volume its pane has now: every path on which  *)
(* a volume is delivered or a pane changes its index clears the flag of the renders under *)
(* way there (reset_panes_for_site, forget_panes_from), or takes the pane's volume.      *)
THEOREM WantedCurrent == NoneIsNoJob => (Spec => []WantedIsCurrent)
  <1>1. RenderInv => WantedIsCurrent
    BY DEF RenderInv
  <1>2. ASSUME NoneIsNoJob
        PROVE  Spec => []WantedIsCurrent
    <2>1. Spec => []RenderInv
      BY <1>2, RenderAlways
    <2>2. QED
      BY <1>1, <2>1, PTL
  <1>3. QED
    BY <1>2

-----------------------------------------------------------------------------
(* What the operators on the cache give. *)

LEMMA LeastOf ==
    ASSUME NEW T \in SUBSET Nat, T # {}
    PROVE  \E n \in T : \A m \in T : n <= m
  <1> DEFINE R == OpToRel(<, Nat)
  <1>1. IsWellFoundedOn(R, Nat)
    BY NatLessThanWellFounded
  <1>2. \A x, y \in Nat : <<x, y>> \in R <=> x < y
    BY DEF OpToRel
  <1> HIDE DEF R
  <1>3. PICK n \in T : \A y \in T : ~ (<<y, n>> \in R)
    BY <1>1, WFMin
  <1>4. ASSUME NEW m \in T PROVE n <= m
    <2>1. n \in Nat /\ m \in Nat /\ ~ (m < n)
      BY <1>2, <1>3
    <2>2. QED
      BY <2>1
  <1>5. QED
    BY <1>4

LEMMA CountTo == ASSUME NEW n \in Nat PROVE IsFiniteSet(1..n) /\ Cardinality(1..n) = n
  BY FS_Interval

(* The places of a part of a sequence are counted off one by one. *)
LEMMA RankHits ==
    ASSUME NEW k \in Nat, NEW D \in SUBSET (1..k)
    PROVE  /\ IsFiniteSet(D) /\ Cardinality(D) \in Nat /\ Cardinality(D) <= k
           /\ \A n \in 1..Cardinality(D) : \E i \in D : Rank(D, i) = n
  <1>1. IsFiniteSet(1..k) /\ Cardinality(1..k) = k
    BY CountTo
  <1>2. IsFiniteSet(D) /\ Cardinality(D) \in Nat /\ Cardinality(D) <= k
    BY <1>1, FS_Subset, FS_CardinalityType
  <1> DEFINE c == Cardinality(D)
             f == [i \in D |-> Rank(D, i)]
             U(i) == {j \in D : j <= i}
  <1>3. ASSUME NEW i \in D
        PROVE  IsFiniteSet(U(i)) /\ Rank(D, i) = Cardinality(U(i)) /\ Rank(D, i) \in 1..c
    <2>1. U(i) \in SUBSET D /\ i \in U(i)
      OBVIOUS
    <2>2. IsFiniteSet(U(i)) /\ Cardinality(U(i)) <= c /\ Cardinality(U(i)) \in Nat
      BY <1>2, <2>1, FS_Subset, FS_CardinalityType
    <2>3. Cardinality(U(i)) # 0
      BY <2>1, <2>2, FS_EmptySet
    <2>4. Rank(D, i) = Cardinality(U(i))
      BY DEF Rank
    <2>5. QED
      BY <1>2, <2>2, <2>3, <2>4
  <1>4. ASSUME NEW i \in D, NEW j \in D, i < j PROVE Rank(D, i) # Rank(D, j)
    <2>1. U(i) \in SUBSET U(j) /\ j \in U(j) /\ j \notin U(i)
      <3>1. i \in Int /\ j \in Int /\ \A x \in D : x \in Int
        OBVIOUS
      <3>2. j \in U(j) /\ j \notin U(i)
        BY <1>4, <3>1
      <3>3. ASSUME NEW x \in D, x <= i PROVE x <= j
        BY <1>4, <3>1, <3>3
      <3>4. QED
        BY <3>2, <3>3
    <2>2. U(i) # U(j)
      BY <2>1
    <2>3. Cardinality(U(i)) # Cardinality(U(j))
      <3>1. IsFiniteSet(U(j)) /\ IsFiniteSet(U(i))
        BY <1>3
      <3> HIDE DEF U
      <3>2. QED
        BY <2>1, <2>2, <3>1, FS_Subset
    <2>4. QED
      BY <1>3, <2>3
  <1>5. f \in Injection(D, 1..c)
    <2>1. f \in [D -> 1..c]
      BY <1>3
    <2>2. ASSUME NEW i \in D, NEW j \in D, f[i] = f[j] PROVE i = j
      <3>1. Rank(D, i) = Rank(D, j) /\ i \in Int /\ j \in Int
        BY <2>2
      <3>2. QED
        BY <1>4, <3>1
    <2> HIDE DEF f
    <2>3. QED
      BY <2>1, <2>2 DEF Injection, IsInjective
  <1>6. IsFiniteSet(1..c) /\ Cardinality(1..c) = c
    BY <1>2, FS_Interval
  <1> HIDE DEF f, c
  <1>7. f \in Surjection(D, 1..c)
    BY <1>5, <1>6, FS_Injection DEF c
  <1>8. \A n \in 1..c : \E i \in D : f[i] = n
    BY <1>7 DEF Surjection
  <1>9. QED
    BY <1>2, <1>8 DEF c, f

LEMMA KeptAt ==
    ASSUME NEW S, NEW s \in Seq(S), NEW D \in SUBSET (DOMAIN s)
    PROVE  /\ Kept(s, D) \in Seq(S) /\ Len(Kept(s, D)) = Cardinality(D)
           /\ IsFiniteSet(D) /\ Cardinality(D) \in Nat /\ Cardinality(D) <= Len(s)
           /\ \A n \in 1..Cardinality(D) :
                \E i \in D : Rank(D, i) = n /\ Kept(s, D)[n] = s[i]
  <1>1. DOMAIN s = 1..Len(s) /\ Len(s) \in Nat
    OBVIOUS
  <1>2. /\ IsFiniteSet(D) /\ Cardinality(D) \in Nat /\ Cardinality(D) <= Len(s)
        /\ \A n \in 1..Cardinality(D) : \E i \in D : Rank(D, i) = n
    BY <1>1, RankHits
  <1>3. \A n \in 1..Cardinality(D) :
            \E i \in D : Rank(D, i) = n /\ Kept(s, D)[n] = s[i]
    BY <1>2 DEF Kept
  <1>4. \A i \in D : s[i] \in S
    BY <1>1
  <1>5. Kept(s, D) \in [1..Cardinality(D) -> S]
    BY <1>3, <1>4 DEF Kept
  <1>6. QED
    BY <1>2, <1>3, <1>5, FunIsSeq

LEMMA Joined ==
    ASSUME NEW S, NEW a \in Seq(S), NEW b \in Seq(S)
    PROVE  /\ a \o b \in Seq(S) /\ Len(a \o b) = Len(a) + Len(b)
           /\ \A i \in 1..Len(a) : (a \o b)[i] = a[i]
           /\ \A i \in (Len(a) + 1)..(Len(a) + Len(b)) : (a \o b)[i] = b[i - Len(a)]
  OBVIOUS

(* A removal keeps the entries on both sides. *)
LEMMA RemovedAt ==
    ASSUME NEW S, NEW s \in Seq(S), NEW k \in 1..Len(s)
    PROVE  /\ RemoveAt(s, k) \in Seq(S) /\ Len(RemoveAt(s, k)) = Len(s) - 1
           /\ \A i \in 1..(Len(s) - 1) : RemoveAt(s, k)[i] = s[IF i < k THEN i ELSE i + 1]
  <1> DEFINE a == SubSeq(s, 1, k - 1)
             b == SubSeq(s, k + 1, Len(s))
  <1>1. a \in Seq(S) /\ Len(a) = k - 1 /\ \A i \in 1..(k - 1) : a[i] = s[i]
    BY Prefix
  <1>2. b \in Seq(S) /\ Len(b) = Len(s) - k /\ \A i \in 1..(Len(s) - k) : b[i] = s[i + k]
    OBVIOUS
  <1>3. RemoveAt(s, k) = a \o b
    BY DEF RemoveAt
  <1> HIDE DEF a, b
  <1>4. /\ a \o b \in Seq(S) /\ Len(a \o b) = Len(a) + Len(b)
        /\ \A i \in 1..Len(a) : (a \o b)[i] = a[i]
        /\ \A i \in (Len(a) + 1)..(Len(a) + Len(b)) : (a \o b)[i] = b[i - Len(a)]
    BY <1>1, <1>2, Joined
  <1>5. Len(s) \in Nat
    OBVIOUS
  <1>6. ASSUME NEW i \in 1..(Len(s) - 1) PROVE (a \o b)[i] = s[IF i < k THEN i ELSE i + 1]
    <2>1. CASE i < k
      BY <1>1, <1>4, <2>1
    <2>2. CASE ~(i < k)
      <3>1. /\ i \in (Len(a) + 1)..(Len(a) + Len(b)) /\ i - Len(a) \in 1..(Len(s) - k)
            /\ i - Len(a) + k = i + 1
        BY <1>1, <1>2, <1>5, <2>2
      <3>2. QED
        BY <1>2, <1>4, <2>2, <3>1
    <2>3. QED
      BY <2>1, <2>2
  <1>7. QED
    BY <1>1, <1>2, <1>3, <1>4, <1>6

Entries == [key : Keys, pic : Pictures]
(* A key is held once, and a picture is of the tilt its key names. *)
Fine(c) == /\ c \in Seq(Entries)
           /\ \A i \in DOMAIN c : c[i].pic.cut = c[i].key.cut
           /\ \A i, j \in DOMAIN c : c[i].key = c[j].key => i = j

LEMMA KeptFine ==
    ASSUME NEW c, Fine(c), NEW D \in SUBSET (DOMAIN c)
    PROVE  /\ Fine(Kept(c, D)) /\ Len(Kept(c, D)) = Cardinality(D) /\ Cardinality(D) <= Len(c)
           /\ IsFiniteSet(D) /\ Cardinality(D) \in Nat
           /\ \A n \in 1..Cardinality(D) : \E i \in D : Kept(c, D)[n] = c[i]
  <1> DEFINE k == Kept(c, D)
             m == Cardinality(D)
  <1>1. /\ k \in Seq(Entries) /\ Len(k) = m
        /\ IsFiniteSet(D) /\ m \in Nat /\ m <= Len(c)
        /\ \A n \in 1..m : \E i \in D : Rank(D, i) = n /\ k[n] = c[i]
    BY KeptAt DEF Fine
  <1> HIDE DEF k, m
  <1>2. DOMAIN k = 1..m
    BY <1>1
  <1>3. \A n \in DOMAIN k : k[n].pic.cut = k[n].key.cut
    BY <1>1, <1>2 DEF Fine
  <1>4. ASSUME NEW n \in DOMAIN k, NEW o \in DOMAIN k, k[n].key = k[o].key PROVE n = o
    <2>1. PICK i \in D : Rank(D, i) = n /\ k[n] = c[i]
      BY <1>1, <1>2
    <2>2. PICK j \in D : Rank(D, j) = o /\ k[o] = c[j]
      BY <1>1, <1>2
    <2>3. i = j
      BY <1>4, <2>1, <2>2 DEF Fine
    <2>4. QED
      BY <2>1, <2>2, <2>3
  <1>5. Fine(k)
    BY <1>1, <1>3, <1>4 DEF Fine
  <1>6. QED
    BY <1>1, <1>5 DEF k, m

LEMMA RemovedFine ==
    ASSUME NEW c, Fine(c), NEW k \in 1..Len(c)
    PROVE  Fine(RemoveAt(c, k)) /\ Len(RemoveAt(c, k)) = Len(c) - 1
  <1> DEFINE t == RemoveAt(c, k)
             from(i) == IF i < k THEN i ELSE i + 1
  <1>1. c \in Seq(Entries) /\ Len(c) \in Nat /\ DOMAIN c = 1..Len(c)
    BY DEF Fine
  <1>2. /\ t \in Seq(Entries) /\ Len(t) = Len(c) - 1
        /\ \A i \in 1..(Len(c) - 1) : t[i] = c[from(i)]
    BY <1>1, RemovedAt
  <1> HIDE DEF t
  <1>3. DOMAIN t = 1..(Len(c) - 1)
    BY <1>1, <1>2
  <1>4. \A i \in DOMAIN t : from(i) \in DOMAIN c
    BY <1>1, <1>3
  <1>5. \A i, j \in DOMAIN t : from(i) = from(j) => i = j
    BY <1>3
  <1> HIDE DEF from
  <1>6. \A i \in DOMAIN t : t[i].pic.cut = t[i].key.cut
    BY <1>2, <1>3, <1>4 DEF Fine
  <1>7. ASSUME NEW i \in DOMAIN t, NEW j \in DOMAIN t, t[i].key = t[j].key PROVE i = j
    <2>1. t[i] = c[from(i)] /\ t[j] = c[from(j)]
      BY <1>2, <1>3
    <2>2. from(i) = from(j)
      BY <1>4, <1>7, <2>1 DEF Fine
    <2>3. QED
      BY <1>5, <2>2
  <1>8. QED
    BY <1>2, <1>6, <1>7 DEF Fine, t

(* What is filed is found under its key, and the cache keeps to its room. *)
LEMMA FiledFine ==
    ASSUME Fine(cache), Len(cache) <= CacheSize, NEW key \in Keys, NEW pic \in Pictures,
           pic.cut = key.cut, NEW pinned
    PROVE  Fine(Filed(key, pic, pinned)) /\ Len(Filed(key, pic, pinned)) <= CacheSize
  <1> DEFINE D == {i \in DOMAIN cache : cache[i].key # key}
             w == Kept(cache, D)
             new == [key |-> key, pic |-> pic]
             full == Append(w, new)
             unpinned == {n \in DOMAIN full : full[n].key \notin pinned}
             victim == IF unpinned = {} THEN 1
                       ELSE CHOOSE n \in unpinned : \A m \in unpinned : n <= m
  <1>1. Filed(key, pic, pinned) = IF Len(full) <= CacheSize THEN full ELSE RemoveAt(full, victim)
    BY DEF Filed, Without
  <1>2. /\ Fine(w) /\ Len(w) = Cardinality(D) /\ Cardinality(D) <= Len(cache)
        /\ \A n \in 1..Cardinality(D) : \E i \in D : w[n] = cache[i]
    <2>1. D \in SUBSET (DOMAIN cache)
      OBVIOUS
    <2> HIDE DEF D
    <2>2. QED
      BY <2>1, KeptFine
  <1>3. \A n \in 1..Len(w) : w[n].key # key
    BY <1>2
  <1>4. new \in Entries /\ new.key = key /\ new.pic = pic
    BY DEF Entries
  <1> HIDE DEF D, w, new
  <1>5. /\ full \in Seq(Entries) /\ Len(full) = Len(w) + 1 /\ DOMAIN full = 1..(Len(w) + 1)
        /\ full[Len(w) + 1] = new /\ \A n \in 1..Len(w) : full[n] = w[n]
        /\ DOMAIN w = 1..Len(w) /\ Len(w) \in Nat
    BY <1>2, <1>4 DEF Fine
  <1> HIDE DEF full
  <1>6. Fine(full)
    <2>1. \A n \in DOMAIN full : n \in 1..Len(w) \/ n = Len(w) + 1
      BY <1>5
    <2>2. \A n \in DOMAIN full : full[n].pic.cut = full[n].key.cut
      BY <1>2, <1>4, <1>5, <2>1 DEF Fine
    <2>3. \A n, m \in DOMAIN full : full[n].key = full[m].key => n = m
      BY <1>2, <1>3, <1>4, <1>5, <2>1 DEF Fine
    <2>4. QED
      BY <1>5, <2>2, <2>3 DEF Fine
  <1>7. victim \in 1..Len(full)
    <2>1. CASE unpinned = {}
      BY <1>5, <2>1
    <2>2. CASE unpinned # {}
      <3>1. unpinned \in SUBSET Nat
        BY <1>5
      <3>2. unpinned \subseteq 1..Len(full)
        BY <1>5
      <3> HIDE DEF unpinned
      <3>3. \E n \in unpinned : \A m \in unpinned : n <= m
        BY <2>2, <3>1, LeastOf
      <3>4. QED
        BY <2>2, <3>2, <3>3
    <2>3. QED
      BY <2>1, <2>2
  <1> HIDE DEF victim
  <1>8. Fine(RemoveAt(full, victim)) /\ Len(RemoveAt(full, victim)) = Len(w)
    BY <1>5, <1>6, <1>7, RemovedFine
  <1>9. Len(cache) \in Nat /\ CacheSize \in Nat
    BY RenderAssumption DEF Fine
  <1>10. Len(w) <= CacheSize
    BY <1>2, <1>5, <1>9
  <1>11. QED
    BY <1>1, <1>6, <1>8, <1>10

(* What is used again is as fine as before. *)
LEMMA TouchedFine ==
    ASSUME Fine(cache), NEW key
    PROVE  Fine(Touched(key)) /\ Len(Touched(key)) = Len(cache)
  <1> DEFINE D == {i \in DOMAIN cache : cache[i].key # key}
             E == {i \in DOMAIN cache : cache[i].key = key}
             a == Kept(cache, D)
             b == Kept(cache, E)
             t == a \o b
  <1>1. Touched(key) = t
    BY DEF Touched, Without
  <1>2. /\ Fine(a) /\ Len(a) = Cardinality(D) /\ IsFiniteSet(D) /\ Cardinality(D) \in Nat
        /\ \A n \in 1..Cardinality(D) : \E i \in D : a[n] = cache[i]
    <2>1. D \in SUBSET (DOMAIN cache)
      OBVIOUS
    <2> HIDE DEF D
    <2>2. QED
      BY <2>1, KeptFine
  <1>3. /\ Fine(b) /\ Len(b) = Cardinality(E) /\ IsFiniteSet(E) /\ Cardinality(E) \in Nat
        /\ \A n \in 1..Cardinality(E) : \E i \in E : b[n] = cache[i]
    <2>1. E \in SUBSET (DOMAIN cache)
      OBVIOUS
    <2> HIDE DEF E
    <2>2. QED
      BY <2>1, KeptFine
  <1>4. DOMAIN cache = 1..Len(cache) /\ Len(cache) \in Nat
    BY DEF Fine
  <1>5. Cardinality(D) + Cardinality(E) = Len(cache)
    <2>1. D \cup E = 1..Len(cache) /\ D \cap E = {}
      BY <1>4
    <2> HIDE DEF D, E
    <2>2. Cardinality(D \cup E) = Cardinality(D) + Cardinality(E) - Cardinality(D \cap E)
      BY <1>2, <1>3, FS_Union
    <2>3. Cardinality(1..Len(cache)) = Len(cache)
      BY <1>4, CountTo
    <2>4. Cardinality(D \cap E) = 0
      BY <2>1, FS_EmptySet
    <2>5. Cardinality(D \cup E) = Len(cache)
      BY <2>1, <2>3
    <2>6. QED
      BY <1>2, <1>3, <2>2, <2>4, <2>5
  <1>6. /\ \A n \in 1..Len(a) : a[n].key # key
        /\ \A n \in 1..Len(b) : b[n].key = key
    BY <1>2, <1>3
  <1> HIDE DEF D, E, a, b
  <1>7. /\ a \in Seq(Entries) /\ b \in Seq(Entries) /\ Len(a) \in Nat /\ Len(b) \in Nat
        /\ DOMAIN a = 1..Len(a) /\ DOMAIN b = 1..Len(b)
    BY <1>2, <1>3 DEF Fine
  <1>8. /\ t \in Seq(Entries) /\ Len(t) = Len(a) + Len(b)
        /\ \A n \in 1..Len(a) : t[n] = a[n]
        /\ \A n \in (Len(a) + 1)..(Len(a) + Len(b)) : t[n] = b[n - Len(a)]
    BY <1>7, Joined
  <1> HIDE DEF t
  <1>9. \A n \in DOMAIN t : \/ n \in 1..Len(a) /\ t[n] = a[n]
                            \/ n - Len(a) \in 1..Len(b) /\ n \in Nat /\ t[n] = b[n - Len(a)]
    BY <1>7, <1>8
  <1>10. \A n \in DOMAIN t : t[n].pic.cut = t[n].key.cut
    BY <1>2, <1>3, <1>7, <1>9 DEF Fine
  <1>11. ASSUME NEW n \in DOMAIN t, NEW m \in DOMAIN t, t[n].key = t[m].key PROVE n = m
    <2>1. CASE n \in 1..Len(a) /\ m \in 1..Len(a)
      BY <1>2, <1>7, <1>8, <1>11, <2>1 DEF Fine
    <2>2. CASE /\ n - Len(a) \in 1..Len(b) /\ n \in Nat /\ t[n] = b[n - Len(a)]
               /\ m - Len(a) \in 1..Len(b) /\ m \in Nat /\ t[m] = b[m - Len(a)]
      <3>1. n - Len(a) = m - Len(a)
        BY <1>3, <1>7, <1>11, <2>2 DEF Fine
      <3>2. QED
        BY <1>7, <2>2, <3>1
    <2>3. QED
      BY <1>6, <1>9, <1>11, <2>1, <2>2
  <1>12. QED
    BY <1>1, <1>2, <1>3, <1>5, <1>8, <1>10, <1>11 DEF Fine

-----------------------------------------------------------------------------
(* What the glass shows, and the bounds. *)

GlassOK == \A i \in DOMAIN panes : panes[i].glass \in Pictures \cup {None, Hidden}
CacheOK == Fine(cache) /\ Len(cache) <= CacheSize

(* The tilt the dispatcher holds for rendered is the one on the glass, or was when the
   pane went out of sight. *)
IsPainted(i) ==
    panes[i].radar /\ panes[i].vol # 0 /\ prs[i].last # 0 =>
        \/ panes[i].glass \in Pictures /\ panes[i].glass.cut = prs[i].last
        \/ panes[i].glass = Hidden
MarksArePainted == \A i \in DOMAIN prs : IsPainted(i)

(* A pane the walk has passed and that shows no radar has given back what it held. *)
Passed == IF phase = "draw" THEN 1..count ELSE IF phase = "dispatch" THEN 1..(walk - 1) ELSE {}
PassedGaveBack == \A i \in Passed : ~panes[i].radar => prs[i].last = 0

CountsOK ==
    /\ latest \in [Sites -> 0..acts + 1]
    /\ asked \in [Sites -> [Indices -> 0..acts + 1]]
    /\ acts \in 0..MaxActs
    /\ phase \in {"ingest", "apply", "dispatch", "draw"} /\ walk \in 0..MaxPanes
    /\ ahead \in BOOLEAN

PaintInv == GlassOK /\ CacheOK /\ MarksArePainted /\ PassedGaveBack /\ CountsOK

LEMMA PaneFields ==
    ASSUME PanesOK, NEW i \in DOMAIN panes
    PROVE  /\ panes[i] = [site |-> panes[i].site, cut |-> panes[i].cut, radar |-> panes[i].radar,
                          linked |-> panes[i].linked, vol |-> panes[i].vol, glass |-> panes[i].glass]
           /\ panes[i].site \in Sites /\ panes[i].cut \in Cuts /\ panes[i].radar \in BOOLEAN
           /\ panes[i].linked \in BOOLEAN /\ panes[i].vol \in Nat
  <1>1. PICK G : panes \in Seq(PanesWith(G))
    BY DEF PanesOK
  <1>2. panes[i] \in PanesWith(G)
    BY <1>1
  <1>3. QED
    BY <1>2 DEF PanesWith

LEMMA PanesTyped ==
    ASSUME PanesOK, GlassOK PROVE panes \in Seq(PaneStates)
  <1>1. PICK G : panes \in Seq(PanesWith(G))
    BY DEF PanesOK
  <1>2. /\ DOMAIN panes = 1..Len(panes) /\ Len(panes) \in Nat
        /\ \A i \in DOMAIN panes : panes[i] \in PanesWith(G)
    BY <1>1
  <1>3. \A i \in DOMAIN panes : panes[i] \in PaneStates
    BY <1>2 DEF GlassOK, PanesWith, PaneStates
  <1>4. panes \in [1..Len(panes) -> PaneStates]
    BY <1>1, <1>2, <1>3
  <1>5. QED
    BY <1>2, <1>4, FunIsSeq

(* Types of the runs' TypeOK. *)
LEMMA DistinctKeys ==
    ASSUME Fine(cache)
    PROVE  cache \in Seq([key : Keys, pic : Pictures])
           /\ Cardinality({e.key : e \in Range(cache)}) = Len(cache)
  <1> DEFINE n == Len(cache)
             K == {e.key : e \in Range(cache)}
             f == [i \in 1..n |-> cache[i].key]
  <1>1. cache \in Seq(Entries) /\ n \in Nat /\ DOMAIN cache = 1..n
    BY DEF Fine
  <1>2. \A i \in 1..n : cache[i] \in Range(cache)
    BY <1>1 DEF Range
  <1>3. f \in [1..n -> K]
    BY <1>2
  <1>4. \A i, j \in 1..n : f[i] = f[j] => i = j
    BY <1>1 DEF Fine
  <1>5. \A k \in K : \E i \in 1..n : f[i] = k
    BY <1>1 DEF Range
  <1> HIDE DEF f, K
  <1>6. f \in Injection(1..n, K)
    BY <1>3, <1>4 DEF Injection, IsInjective
  <1>7. f \in Surjection(1..n, K)
    BY <1>3, <1>5 DEF Surjection
  <1>8. IsFiniteSet(1..n) /\ Cardinality(1..n) = n
    BY <1>1, CountTo
  <1>9. Cardinality(K) = Cardinality(1..n)
    BY <1>6, <1>7, <1>8, FS_Surjection
  <1>10. QED
    BY <1>1, <1>8, <1>9 DEF K, Entries

LEMMA PaintInvTypes == ASSUME RenderInv, PaintInv PROVE TypeOK
  <1>1. /\ DOMAIN panes = 1..Len(panes) /\ Len(panes) \in Nat /\ Len(prs) \in Nat
    BY Domains DEF RenderInv, Shape
  <1>2. panes \in Seq(PaneStates) /\ Len(panes) \in 1..MaxPanes /\ count \in 1..Len(panes)
    BY <1>1, PanesTyped, RenderAssumption DEF RenderInv, Shape, Recorded, PaintInv
  <1>3. prs \in Seq([flight : Keys \cup {None}, last : 0..MaxCut]) /\ Len(prs) <= MaxPanes
    BY <1>1, RenderAssumption DEF RenderInv, Shape, Recorded, Marks
  <1>4. /\ jobs \in [1..Slots -> Jobs \cup {None}] /\ air \subseteq Requests
        /\ replies \in Seq([pane : 0..MaxPanes, at : Sites, pic : Pictures \cup {None}])
    BY DEF RenderInv, Shape, WorkOK, FetchOK, Replies
  <1>5. cache \in Seq([key : Keys, pic : Pictures])
        /\ Cardinality({e.key : e \in Range(cache)}) = Len(cache) /\ Len(cache) <= CacheSize
    BY DistinctKeys DEF PaintInv, CacheOK
  <1>6. 0..acts + 1 \subseteq 0..MaxActs + 1
    BY FrameAssumption DEF PaintInv, CountsOK
  <1>7. /\ latest \in [Sites -> 0..MaxActs + 1]
        /\ asked \in [Sites -> [Indices -> 0..MaxActs + 1]]
    <2>1. [Indices -> 0..acts + 1] \subseteq [Indices -> 0..MaxActs + 1]
      BY <1>6
    <2>2. QED
      BY <1>6, <2>1 DEF PaintInv, CountsOK
  <1>8. QED
    BY <1>2, <1>3, <1>4, <1>5, <1>7 DEF TypeOK, PaintInv, CountsOK

LEMMA PaintInvSettles == ASSUME RenderInv, PaintInv PROVE SettledIsPainted
  <1> SUFFICES ASSUME NEW i \in Visible, Settled(i)
               PROVE  \/ panes[i].glass \in Pictures /\ panes[i].glass.cut = panes[i].cut
                      \/ panes[i].glass = Hidden
    BY DEF SettledIsPainted
  <1>1. i \in DOMAIN prs /\ prs[i].last = panes[i].cut
    BY DEF Settled, NeedsRender
  <1>2. i \in DOMAIN panes /\ panes[i].radar /\ panes[i].vol # 0
    BY DEF Settled, Demand
  <1>3. panes[i].cut \in Cuts
    BY <1>2, PaneAt DEF RenderInv, Shape
  <1>4. prs[i].last # 0
    BY <1>1, <1>3 DEF Cuts
  <1>5. QED
    BY <1>1, <1>2, <1>4 DEF PaintInv, MarksArePainted, IsPainted

-----------------------------------------------------------------------------
(* What leaves the glass alone. *)

LEMMA CountsKeep ==
    ASSUME CountsOK, latest' = latest, asked' = asked, acts' = acts \/ Act,
           phase' \in {"ingest", "apply", "dispatch", "draw"}, walk' \in 0..MaxPanes,
           ahead' \in BOOLEAN
    PROVE  CountsOK'
  <1>1. acts' \in 0..MaxActs /\ 0..acts + 1 \subseteq 0..acts' + 1
    BY FrameAssumption DEF CountsOK, Act
  <1>2. [Indices -> 0..acts + 1] \subseteq [Indices -> 0..acts' + 1]
    BY <1>1
  <1>3. QED
    BY <1>1, <1>2 DEF CountsOK

LEMMA PaintFrame ==
    ASSUME PaintInv, UNCHANGED <<panes, prs, cache>>, CountsOK',
           phase' \in {"ingest", "apply"} \/ UNCHANGED <<phase, walk, count>>
    PROVE  PaintInv'
  <1>1. GlassOK' /\ CacheOK' /\ MarksArePainted'
    BY DEF PaintInv, GlassOK, CacheOK, Fine, MarksArePainted, IsPainted
  <1>2. Passed' = {} \/ Passed' = Passed
    BY DEF Passed
  <1>3. PassedGaveBack'
    BY <1>2 DEF PaintInv, PassedGaveBack
  <1>4. QED
    BY <1>1, <1>3 DEF PaintInv

LEMMA IngestPaints ==
    ASSUME RenderInv, RenderInv', PaintInv, NEW r \in air, Ingest(r) PROVE PaintInv'
  <1>1. /\ phase = "ingest" /\ UNCHANGED <<count, ahead, latest, asked, phase, walk, acts>>
    BY DEF Ingest, frameVars
  <1>2. CountsOK'
    BY <1>1, CountsKeep DEF PaintInv, CountsOK
  <1>3. CASE UNCHANGED <<panes, prs, jobs, cache>>
    BY <1>1, <1>2, <1>3, PaintFrame
  <1>4. CASE /\ panes' = [i \in DOMAIN panes |->
                            IF i \in Audience(r) THEN [panes[i] EXCEPT !.vol = r.vol] ELSE panes[i]]
             /\ ResetForSite(r.site)
    <2>1. /\ prs' = [i \in DOMAIN prs |-> IF i \in AtSite(r.site) THEN Fresh ELSE prs[i]]
          /\ cache' = WithoutSite(r.site)
      BY <1>4 DEF ResetForSite
    <2>2. /\ DOMAIN prs \subseteq DOMAIN panes
      BY Domains DEF RenderInv, Shape
    <2>3. \A i \in DOMAIN panes : /\ panes'[i].glass = panes[i].glass
                                  /\ i \notin Audience(r) => panes'[i] = panes[i]
      <3>1. ASSUME NEW i \in DOMAIN panes PROVE [panes[i] EXCEPT !.vol = r.vol].glass = panes[i].glass
        BY PaneFields DEF RenderInv, Shape
      <3>2. QED
        BY <1>4, <3>1
    <2>4. GlassOK'
      BY <1>4, <2>3 DEF PaintInv, GlassOK
    <2>5. CacheOK'
      <3> DEFINE D == {i \in DOMAIN cache : cache[i].key.site # r.site}
      <3>1. D \in SUBSET (DOMAIN cache)
        OBVIOUS
      <3>2. cache' = Kept(cache, D)
        BY <2>1 DEF WithoutSite
      <3> HIDE DEF D
      <3>3. Fine(cache') /\ Len(cache') <= Len(cache) /\ Len(cache') \in Nat
        BY <3>1, <3>2, KeptFine DEF PaintInv, CacheOK
      <3>4. Len(cache) \in Nat
        BY DEF PaintInv, CacheOK, Fine
      <3>5. QED
        BY <3>3, <3>4, RenderAssumption DEF PaintInv, CacheOK, Fine
    <2>6. ASSUME NEW i \in DOMAIN prs PROVE IsPainted(i)'
      <3>1. CASE i \in AtSite(r.site)
        <4>1. prs'[i].last = 0
          BY <2>1, <3>1 DEF Fresh
        <4>2. QED
          BY <4>1 DEF IsPainted
      <3>2. CASE i \notin AtSite(r.site)
        <4>1. prs'[i] = prs[i] /\ panes[i].site # r.site
          BY <2>1, <2>2, <3>2 DEF AtSite
        <4>2. panes'[i] = panes[i]
          BY <2>2, <2>3, <4>1 DEF Audience
        <4>3. QED
          BY <4>1, <4>2 DEF PaintInv, MarksArePainted, IsPainted
      <3>3. QED
        BY <3>1, <3>2
    <2>7. MarksArePainted'
      BY <2>1, <2>6 DEF MarksArePainted
    <2>8. PassedGaveBack'
      BY <1>1 DEF PassedGaveBack, Passed
    <2>9. QED
      BY <1>2, <2>4, <2>5, <2>7, <2>8 DEF PaintInv
  <1>5. QED
    BY <1>3, <1>4 DEF Ingest

LEMMA EndIngestPaints == ASSUME RenderInv, PaintInv, EndIngest PROVE PaintInv'
  <1>1. /\ phase' = "apply" /\ prs' = Grown(prs, count, Fresh)
        /\ UNCHANGED <<panes, count, cache, ahead, latest, asked, walk, acts>>
    BY DEF EndIngest, Ensured, uiVars, fetchVars
  <1>2. CountsOK'
    BY <1>1, CountsKeep DEF PaintInv, CountsOK
  <1>3. GlassOK' /\ CacheOK'
    BY <1>1 DEF PaintInv, GlassOK, CacheOK, Fine
  <1>4. ASSUME NEW i \in DOMAIN prs' PROVE IsPainted(i)'
    <2>1. prs \in Seq(Marks) /\ count \in Nat /\ DOMAIN prs = 1..Len(prs)
      BY Domains DEF RenderInv, Shape, Recorded
    <2>2. (i \in DOMAIN prs /\ prs'[i] = prs[i]) \/ prs'[i] = Fresh
      BY <1>1, <2>1, GrownAt
    <2>3. QED
      BY <1>1, <2>2 DEF PaintInv, MarksArePainted, IsPainted, Fresh
  <1>5. PassedGaveBack'
    BY <1>1 DEF PassedGaveBack, Passed
  <1>6. QED
    BY <1>2, <1>3, <1>4, <1>5 DEF PaintInv, MarksArePainted

LEMMA EndApplyPaints == ASSUME RenderInv, PaintInv, EndApply PROVE PaintInv'
  <1>1. /\ phase' = "dispatch" /\ walk' = 1
        /\ UNCHANGED <<panes, count, prs, cache, ahead, latest, asked, acts>>
    BY DEF EndApply, uiVars, fetchVars
  <1>2. CountsOK'
    BY <1>1, CountsKeep, RenderAssumption DEF PaintInv, CountsOK
  <1>3. GlassOK' /\ CacheOK' /\ MarksArePainted'
    BY <1>1 DEF PaintInv, GlassOK, CacheOK, Fine, MarksArePainted, IsPainted
  <1>4. PassedGaveBack'
    BY <1>1 DEF PassedGaveBack, Passed
  <1>5. QED
    BY <1>2, <1>3, <1>4 DEF PaintInv

LEMMA PoolPaints == ASSUME PaintInv, Pool PROVE PaintInv'
  <1>1. /\ UNCHANGED <<panes, count, prs, ahead, cache, latest, asked, phase, walk>>
        /\ acts' = acts \/ Act
    BY DEF Pool, Render, Decide, Send, Leave, ComeBackEmpty, uiVars, fetchVars, frameVars
  <1>2. CountsOK'
    BY <1>1, CountsKeep DEF PaintInv, CountsOK
  <1>3. QED
    BY <1>1, <1>2, PaintFrame

-----------------------------------------------------------------------------
(* Answers reach the glass and the mark together. *)

(* What painting does to the panes, and to the tilts the dispatcher notes. *)
LEMMA PaintGlass ==
    ASSUME PanesOK, NEW takers, NEW pic, Paint(takers, pic)
    PROVE  /\ DOMAIN panes' = DOMAIN panes
           /\ \A i \in DOMAIN panes :
                /\ panes'[i].radar = panes[i].radar /\ panes'[i].vol = panes[i].vol
                /\ i \in takers => panes'[i].glass = pic
                /\ i \notin takers => panes'[i] = panes[i]
  <1>1. DOMAIN panes' = DOMAIN panes
    BY DEF Paint
  <1>2. ASSUME NEW i \in DOMAIN panes
        PROVE  LET p == [panes[i] EXCEPT !.glass = pic]
               IN  p.radar = panes[i].radar /\ p.vol = panes[i].vol /\ p.glass = pic
    BY PaneFields
  <1>3. QED
    BY <1>1, <1>2 DEF Paint

LEMMA ReceivePaints == ASSUME RenderInv, PaintInv, Receive PROVE PaintInv'
  <1> DEFINE r == Head(replies)
             i == r.pane
             finished == IF i \in DOMAIN prs THEN [prs EXCEPT ![i].flight = None] ELSE prs
             serves == r.pic # None /\ i <= count /\ Demand(i) = "Wanted"
             takers == {i} \cup Siblings(Key(panes[i].site, r.pic.cut))
  <1>1. /\ phase = "apply" /\ replies # <<>>
        /\ UNCHANGED <<count, latest, asked, phase, walk, acts>>
        /\ IF r.pane = 0 THEN Prerendered(r) ELSE Answered(r)
    BY DEF Receive, fetchVars, frameVars
  <1>2. r \in Replies
    BY <1>1, RangeOfTail DEF RenderInv, Shape, WorkOK
  <1>3. PassedGaveBack'
    BY <1>1 DEF PassedGaveBack, Passed
  <1>4. /\ DOMAIN prs \subseteq DOMAIN panes /\ \A n \in DOMAIN prs : prs[n] \in Marks
    BY Domains DEF RenderInv, Shape
  <1>5. /\ DOMAIN finished = DOMAIN prs
        /\ \A n \in DOMAIN prs : finished[n].last = prs[n].last /\ finished[n] \in Marks
    BY <1>4 DEF Marks
  <1>6. ASSUME ahead' \in BOOLEAN PROVE CountsOK'
    BY <1>1, <1>6, CountsKeep DEF PaintInv, CountsOK
  <1>7. CASE i = 0
    <2>1. /\ ahead' = FALSE /\ UNCHANGED <<panes, prs>>
          /\ cache' = IF r.pic = None THEN cache
                      ELSE Filed(Key(r.at, r.pic.cut), r.pic, InFlight(prs))
      BY <1>1, <1>7 DEF Prerendered
    <2>2. CacheOK'
      <3>1. CASE r.pic = None
        BY <2>1, <3>1 DEF PaintInv, CacheOK, Fine
      <3>2. CASE r.pic # None
        <4>1. /\ r.pic \in Pictures /\ Key(r.at, r.pic.cut) \in Keys
              /\ Key(r.at, r.pic.cut).cut = r.pic.cut
          BY <1>2, <3>2 DEF Replies, Pictures, Keys, Key
        <4>2. QED
          BY <2>1, <3>2, <4>1, FiledFine DEF PaintInv, CacheOK, Fine
      <3>3. QED
        BY <3>1, <3>2
    <2>3. GlassOK' /\ MarksArePainted'
      BY <2>1 DEF PaintInv, GlassOK, MarksArePainted, IsPainted
    <2>4. QED
      BY <1>3, <1>6, <2>1, <2>2, <2>3 DEF PaintInv
  <1>8. CASE i # 0 /\ ~serves
    <2>1. prs' = finished /\ UNCHANGED <<panes, ahead, cache>>
      BY <1>1, <1>8 DEF Answered
    <2> HIDE DEF finished
    <2>2. MarksArePainted'
      BY <1>5, <2>1 DEF PaintInv, MarksArePainted, IsPainted
    <2>3. GlassOK' /\ CacheOK' /\ ahead' \in BOOLEAN
      BY <2>1 DEF PaintInv, GlassOK, CacheOK, Fine, CountsOK
    <2>4. QED
      BY <1>3, <1>6, <2>2, <2>3 DEF PaintInv
  <1>9. CASE i # 0 /\ serves
    <2>1. /\ Paint(takers, r.pic)
          /\ prs' = [n \in DOMAIN prs |-> IF n \in takers
                                          THEN [finished[n] EXCEPT !.last = r.pic.cut]
                                          ELSE finished[n]]
          /\ cache' = Filed(Key(panes[i].site, r.pic.cut), r.pic, InFlight(finished))
          /\ Speculate(i, r.pic.cut)
      BY <1>1, <1>9 DEF Answered
    <2>2. r.pic \in Pictures /\ r.pic.cut \in Cuts /\ i \in DOMAIN panes
      BY <1>2, <1>9 DEF Replies, Pictures, Demand
    <2> HIDE DEF finished, i, serves, takers, r
    <2>3. Key(panes[i].site, r.pic.cut) \in Keys /\ Key(panes[i].site, r.pic.cut).cut = r.pic.cut
      BY <2>2, PaneAt DEF RenderInv, Shape, Key, Keys
    <2>4. CacheOK'
      BY <2>1, <2>2, <2>3, FiledFine DEF PaintInv, CacheOK, Fine
    <2>5. ahead' \in BOOLEAN
      BY <2>1 DEF Speculate, PaintInv, CountsOK
    <2>6. /\ DOMAIN panes' = DOMAIN panes
          /\ \A n \in DOMAIN panes :
               /\ panes'[n].radar = panes[n].radar /\ panes'[n].vol = panes[n].vol
               /\ n \in takers => panes'[n].glass = r.pic
               /\ n \notin takers => panes'[n] = panes[n]
      BY <2>1, PaintGlass DEF RenderInv, Shape
    <2>7. GlassOK'
      BY <2>2, <2>6 DEF PaintInv, GlassOK
    <2>8. ASSUME NEW n \in DOMAIN prs PROVE IsPainted(n)'
      <3>1. CASE n \in takers
        <4>1. prs'[n] = [finished[n] EXCEPT !.last = r.pic.cut]
          BY <2>1, <3>1
        <4>2. prs'[n].last = r.pic.cut
          BY <1>5, <4>1 DEF Marks
        <4>3. QED
          BY <1>4, <2>2, <2>6, <3>1, <4>2 DEF IsPainted
      <3>2. CASE n \notin takers
        <4>1. prs'[n].last = prs[n].last /\ panes'[n] = panes[n]
          BY <1>4, <1>5, <2>1, <2>6, <3>2
        <4>2. QED
          BY <4>1 DEF PaintInv, MarksArePainted, IsPainted
      <3>3. QED
        BY <3>1, <3>2
    <2>9. MarksArePainted'
      BY <2>1, <2>8 DEF MarksArePainted
    <2>10. QED
      BY <1>3, <1>6, <2>4, <2>5, <2>7, <2>9 DEF PaintInv
  <1>10. QED
    BY <1>7, <1>8, <1>9

-----------------------------------------------------------------------------
(* The walk leaves every pane it passes painted, or given back. *)

LEMMA WalkPasses ==
    ASSUME RenderInv, PaintInv, Walk
    PROVE  /\ walk \in DOMAIN prs /\ walk \in DOMAIN panes
           /\ Passed' = Passed \cup {walk} /\ walk \notin Passed /\ Passed \subseteq DOMAIN prs
           /\ DOMAIN prs \subseteq DOMAIN panes
           /\ (ahead' \in BOOLEAN => CountsOK')
  <1>1. /\ phase = "dispatch" /\ walk \in 1..count /\ count \in Nat /\ count <= Len(prs)
        /\ DOMAIN prs = 1..Len(prs) /\ Len(prs) \in Nat /\ DOMAIN prs \subseteq DOMAIN panes
        /\ count <= MaxPanes /\ MaxPanes \in Nat
    <2>1. Len(panes) \in Nat /\ count <= Len(panes) /\ Len(panes) <= MaxPanes
      BY Domains DEF RenderInv, Shape, Recorded
    <2>2. QED
      BY <2>1, Domains, RenderAssumption DEF RenderInv, Shape, Recorded, WalkOK, Walk
  <1>2. /\ count' = count /\ walk' = (IF walk < count THEN walk + 1 ELSE 0)
        /\ phase' = IF walk < count THEN "dispatch" ELSE "draw"
    BY DEF Walk
  <1>3. Passed = 1..(walk - 1) /\ Passed' = 1..walk
    <2>1. CASE walk < count
      BY <1>1, <1>2, <2>1 DEF Passed
    <2>2. CASE ~(walk < count)
      <3>1. walk = count
        BY <1>1, <2>2
      <3>2. QED
        BY <1>1, <1>2, <2>2, <3>1 DEF Passed
    <2>3. QED
      BY <2>1, <2>2
  <1>4. 1..walk = 1..(walk - 1) \cup {walk} /\ walk \notin 1..(walk - 1)
        /\ 1..(walk - 1) \subseteq DOMAIN prs /\ walk \in DOMAIN prs
    BY <1>1
  <1>5. ASSUME ahead' \in BOOLEAN PROVE CountsOK'
    <2>1. latest' = latest /\ asked' = asked /\ acts' = acts
      BY DEF Walk, fetchVars
    <2>2. walk' \in 0..MaxPanes /\ phase' \in {"ingest", "apply", "dispatch", "draw"}
      BY <1>1, <1>2
    <2>3. QED
      BY <1>5, <2>1, <2>2, CountsKeep DEF PaintInv
  <1>6. QED
    BY <1>1, <1>3, <1>4, <1>5

(* A pane that is handed a picture of the tilt noted for it, or gives its own back. *)
LEMMA WalkPaints ==
    ASSUME RenderInv, PaintInv, Walk, NEW last, NEW pic, Paint({walk}, pic), ahead' = ahead,
           prs' = [prs EXCEPT ![walk].last = last], CacheOK',
           pic \in Pictures \cup {None},
           \/ last = 0
           \/ panes[walk].radar /\ pic \in Pictures /\ pic.cut = last
    PROVE  PaintInv'
  <1>1. /\ walk \in DOMAIN prs /\ walk \in DOMAIN panes
        /\ Passed' = Passed \cup {walk} /\ walk \notin Passed /\ Passed \subseteq DOMAIN prs
        /\ DOMAIN prs \subseteq DOMAIN panes /\ CountsOK'
    BY WalkPasses DEF PaintInv, CountsOK
  <1>2. /\ DOMAIN panes' = DOMAIN panes
        /\ \A i \in DOMAIN panes :
             /\ panes'[i].radar = panes[i].radar /\ panes'[i].vol = panes[i].vol
             /\ i = walk => panes'[i].glass = pic
             /\ i # walk => panes'[i] = panes[i]
    BY PaintGlass DEF RenderInv, Shape
  <1>3. GlassOK'
    BY <1>2 DEF PaintInv, GlassOK
  <1>4. /\ DOMAIN prs' = DOMAIN prs /\ prs'[walk].last = last
        /\ \A i \in DOMAIN prs : i # walk => prs'[i] = prs[i]
    <2>1. prs[walk] \in Marks
      BY <1>1, Domains DEF RenderInv, Shape
    <2>2. [prs[walk] EXCEPT !.last = last].last = last
      BY <2>1 DEF Marks
    <2>3. QED
      BY <1>1, <2>2
  <1>5. ASSUME NEW i \in DOMAIN prs PROVE IsPainted(i)'
    <2>1. CASE i = walk
      BY <1>1, <1>2, <1>4, <2>1 DEF IsPainted
    <2>2. CASE i # walk
      BY <1>1, <1>2, <1>4, <2>2 DEF PaintInv, MarksArePainted, IsPainted
    <2>3. QED
      BY <2>1, <2>2
  <1>6. ASSUME NEW i \in Passed \cup {walk}, ~panes'[i].radar PROVE prs'[i].last = 0
    <2>1. CASE i = walk
      BY <1>1, <1>2, <1>4, <1>6, <2>1
    <2>2. CASE i # walk
      BY <1>1, <1>2, <1>4, <1>6, <2>2 DEF PaintInv, PassedGaveBack
    <2>3. QED
      BY <2>1, <2>2
  <1>7. QED
    BY <1>1, <1>3, <1>4, <1>5, <1>6 DEF PaintInv, MarksArePainted, PassedGaveBack

LEMMA PassPaints ==
    ASSUME RenderInv, PaintInv, Pass \/ Spawn PROVE PaintInv'
  <1>1. /\ Walk /\ UNCHANGED <<panes, ahead, cache>> /\ Demand(walk) = "Wanted"
        /\ prs' = prs \/ prs' = [prs EXCEPT ![walk].flight = WantedKey(walk)]
    BY DEF Pass, Spawn, Asks
  <1>2. /\ walk \in DOMAIN prs /\ walk \in DOMAIN panes
        /\ Passed' = Passed \cup {walk} /\ Passed \subseteq DOMAIN prs /\ CountsOK'
    BY <1>1, WalkPasses DEF PaintInv, CountsOK
  <1>3. DOMAIN prs' = DOMAIN prs /\ \A i \in DOMAIN prs : prs'[i].last = prs[i].last
    <2>1. prs[walk] \in Marks
      BY <1>2, Domains DEF RenderInv, Shape
    <2>2. [prs[walk] EXCEPT !.flight = WantedKey(walk)].last = prs[walk].last
      BY <2>1 DEF Marks
    <2>3. QED
      BY <1>1, <1>2, <2>2
  <1>4. panes[walk].radar
    BY <1>1, <1>2 DEF Demand
  <1>5. GlassOK' /\ CacheOK' /\ MarksArePainted'
    BY <1>1, <1>3 DEF PaintInv, GlassOK, CacheOK, Fine, MarksArePainted, IsPainted
  <1>6. PassedGaveBack'
    BY <1>1, <1>2, <1>3, <1>4 DEF PaintInv, PassedGaveBack
  <1>7. QED
    BY <1>2, <1>5, <1>6 DEF PaintInv

LEMMA FromCachePaints == ASSUME RenderInv, PaintInv, FromCache PROVE PaintInv'
  <1>1. PICK e \in Cached(WantedKey(walk)) :
            Paint({walk}, e.pic) /\ prs' = [prs EXCEPT ![walk].last = panes[walk].cut]
    BY DEF FromCache
  <1>2. /\ Walk /\ ahead' = ahead /\ cache' = Touched(WantedKey(walk))
        /\ walk \in DOMAIN panes /\ panes[walk].radar
    BY DEF FromCache, Asks, Demand
  <1>3. e \in Range(cache) /\ e.key = WantedKey(walk)
    BY <1>1 DEF Cached
  <1>4. e.pic \in Pictures /\ e.pic.cut = panes[walk].cut
    <2>1. PICK n \in DOMAIN cache : e = cache[n]
      BY <1>3 DEF Range
    <2>2. e \in Entries /\ e.pic.cut = e.key.cut
      BY <2>1 DEF PaintInv, CacheOK, Fine
    <2>3. QED
      BY <1>3, <2>2 DEF Entries, WantedKey, Key
  <1>5. CacheOK'
    <2>1. Fine(cache') /\ Len(cache') = Len(cache)
      BY <1>2, TouchedFine DEF PaintInv, CacheOK
    <2>2. QED
      BY <2>1 DEF PaintInv, CacheOK, Fine
  <1>6. QED
    BY <1>1, <1>2, <1>4, <1>5, WalkPaints

LEMMA GiveBackPaints == ASSUME RenderInv, PaintInv, GiveBack PROVE PaintInv'
  <1>1. /\ Walk /\ ahead' = ahead /\ Paint({walk}, None)
        /\ prs' = [prs EXCEPT ![walk].last = 0]
        /\ \/ cache' = cache
           \/ cache' = Without(cache, Key(panes[walk].site, prs[walk].last))
    BY DEF GiveBack
  <1>2. CacheOK'
    <2>1. CASE cache' = cache
      BY <2>1 DEF PaintInv, CacheOK, Fine
    <2>2. CASE cache' = Without(cache, Key(panes[walk].site, prs[walk].last))
      <3> DEFINE D == {i \in DOMAIN cache :
                          cache[i].key # Key(panes[walk].site, prs[walk].last)}
      <3>1. D \in SUBSET (DOMAIN cache) /\ cache' = Kept(cache, D)
        BY <2>2 DEF Without
      <3> HIDE DEF D
      <3>2. Fine(cache') /\ Len(cache') <= Len(cache) /\ Len(cache') \in Nat
        BY <3>1, KeptFine DEF PaintInv, CacheOK
      <3>3. QED
        BY <3>2, RenderAssumption DEF PaintInv, CacheOK, Fine
    <2>3. QED
      BY <1>1, <2>1, <2>2
  <1>3. QED
    BY <1>1, <1>2, WalkPaints

-----------------------------------------------------------------------------
(* What the user and the platform do to the glass. *)

LEMMA DrawCounts ==
    ASSUME PaintInv, EndDraw, Act \/ acts' = acts, latest' = latest, asked' = asked, ahead' = ahead
    PROVE  CountsOK' /\ PassedGaveBack' /\ phase' = "ingest"
  <1>1. phase' = "ingest" /\ walk' = walk
    BY DEF EndDraw
  <1>2. CountsOK'
    BY <1>1, CountsKeep DEF PaintInv, CountsOK
  <1>3. PassedGaveBack'
    BY <1>1 DEF PassedGaveBack, Passed
  <1>4. QED
    BY <1>1, <1>2, <1>3

LEMMA FetchCounts ==
    ASSUME PaintInv, EndDraw, Act, NEW site \in Sites, NEW i \in 0..MaxPanes, SpawnFetch(site, i),
           ahead' = ahead
    PROVE  CountsOK' /\ PassedGaveBack' /\ phase' = "ingest"
  <1>1. phase' = "ingest" /\ walk' = walk
    BY DEF EndDraw
  <1> DEFINE n == latest[site] + 1
  <1>2. /\ acts' = acts + 1 /\ acts' \in 0..MaxActs /\ n \in 0..acts' + 1
        /\ 0..acts + 1 \subseteq 0..acts' + 1
    BY FrameAssumption DEF Act, PaintInv, CountsOK
  <1>3. /\ latest' = [latest EXCEPT ![site] = n]
        /\ asked' = IF i = 0 THEN asked ELSE [asked EXCEPT ![site][i] = n]
    BY DEF SpawnFetch
  <1>4. [Indices -> 0..acts + 1] \subseteq [Indices -> 0..acts' + 1]
    BY <1>2
  <1>5. /\ latest \in [Sites -> 0..acts' + 1]
        /\ asked \in [Sites -> [Indices -> 0..acts' + 1]]
    BY <1>2, <1>4 DEF PaintInv, CountsOK
  <1> HIDE DEF n
  <1>6. latest' \in [Sites -> 0..acts' + 1]
    BY <1>2, <1>3, <1>5
  <1>7. asked' \in [Sites -> [Indices -> 0..acts' + 1]]
    <2>1. asked[site] \in [Indices -> 0..acts' + 1]
      BY <1>5
    <2>2. [asked[site] EXCEPT ![i] = n] \in [Indices -> 0..acts' + 1]
      BY <1>2, <2>1
    <2>3. QED
      BY <1>3, <1>5, <2>2
  <1>8. CountsOK'
    BY <1>1, <1>2, <1>6, <1>7 DEF CountsOK, PaintInv
  <1>9. PassedGaveBack'
    BY <1>1 DEF PassedGaveBack, Passed
  <1>10. QED
    BY <1>1, <1>8, <1>9

(* One pane changes, and its glass is given up or stays. *)
LEMMA PanePaints ==
    ASSUME PanesOK, GlassOK, MarksArePainted, NEW i \in DOMAIN panes, NEW p,
           panes' = [panes EXCEPT ![i] = p], p.glass \in {panes[i].glass, None},
           DOMAIN prs \subseteq DOMAIN panes,
           prs' = prs,
           i \in DOMAIN prs /\ p.radar /\ p.vol # 0 /\ prs[i].last # 0 =>
               p.glass = panes[i].glass /\ panes[i].radar /\ panes[i].vol # 0
    PROVE  GlassOK' /\ MarksArePainted'
  <1>1. /\ DOMAIN panes' = DOMAIN panes /\ panes'[i] = p
        /\ \A n \in DOMAIN panes : n # i => panes'[n] = panes[n]
    BY DEF PanesOK
  <1>2. GlassOK'
    BY <1>1 DEF GlassOK
  <1>3. ASSUME NEW n \in DOMAIN prs PROVE IsPainted(n)'
    <2>1. CASE n = i
      BY <1>1, <2>1 DEF MarksArePainted, IsPainted
    <2>2. CASE n # i
      BY <1>1, <2>2 DEF MarksArePainted, IsPainted
    <2>3. QED
      BY <2>1, <2>2
  <1>4. QED
    BY <1>2, <1>3 DEF MarksArePainted

LEMMA FetchPaints ==
    ASSUME RenderInv, PaintInv, NEW i \in Visible, FetchRadarScan(i) \/ Navigate(i)
    PROVE  PaintInv'
  <1>1. /\ EndDraw /\ Act /\ UNCHANGED <<panes, count, prs, ahead, cache>>
        /\ SpawnFetch(panes[i].site, 0) \/ SpawnFetch(panes[i].site, i)
    BY DEF FetchRadarScan, Navigate, uiVars
  <1>2. panes[i].site \in Sites /\ i \in 0..MaxPanes /\ 0 \in 0..MaxPanes
    BY VisiblePanes, RenderAssumption
  <1>3. CountsOK' /\ phase' = "ingest"
    BY <1>1, <1>2, FetchCounts
  <1>4. QED
    BY <1>1, <1>3, PaintFrame

LEMMA SwitchRadarSitePaints ==
    ASSUME RenderInv, PaintInv, NEW i \in Visible, NEW site \in Sites, SwitchRadarSite(i, site)
    PROVE  PaintInv'
  <1> DEFINE p == [panes[i] EXCEPT !.site = site, !.vol = 0]
  <1>1. /\ EndDraw /\ Act /\ UNCHANGED <<count, prs, ahead, cache>> /\ SpawnFetch(site, 0)
    BY DEF SwitchRadarSite
  <1>2. i \in DOMAIN panes /\ 0 \in 0..MaxPanes
    BY VisiblePanes, RenderAssumption
  <1>3. p.vol = 0 /\ p.glass = panes[i].glass /\ panes' = [panes EXCEPT ![i] = p]
    <2>1. p.vol = 0 /\ p.glass = panes[i].glass
      BY <1>2, PaneFields DEF RenderInv, Shape
    <2>2. panes' = [panes EXCEPT ![i] = p]
      BY DEF SwitchRadarSite
    <2>3. QED
      BY <2>1, <2>2
  <1>4. DOMAIN prs \subseteq DOMAIN panes /\ prs' = prs
    BY <1>1, Domains DEF RenderInv, Shape
  <1> HIDE DEF p
  <1>5. GlassOK' /\ MarksArePainted'
    BY <1>2, <1>3, <1>4, PanePaints DEF RenderInv, Shape, PaintInv
  <1>6. CountsOK' /\ PassedGaveBack'
    BY <1>1, <1>2, FetchCounts
  <1>7. CacheOK'
    BY <1>1 DEF PaintInv, CacheOK, Fine
  <1>8. QED
    BY <1>5, <1>6, <1>7 DEF PaintInv

LEMMA SelectCutPaints ==
    ASSUME RenderInv, PaintInv, NEW i \in Visible, NEW cut \in Cuts, SelectCut(i, cut)
    PROVE  PaintInv'
  <1> DEFINE p == [panes[i] EXCEPT !.cut = cut]
  <1>1. /\ EndDraw /\ Act /\ UNCHANGED <<count, prs, ahead, cache, latest, asked>>
    BY DEF SelectCut, fetchVars
  <1>2. i \in DOMAIN panes
    BY VisiblePanes
  <1>3. /\ p.vol = panes[i].vol /\ p.radar = panes[i].radar /\ p.glass = panes[i].glass
        /\ panes' = [panes EXCEPT ![i] = p]
    BY <1>2, PaneFields DEF SelectCut, RenderInv, Shape
  <1>4. DOMAIN prs \subseteq DOMAIN panes /\ prs' = prs
    BY <1>1, Domains DEF RenderInv, Shape
  <1> HIDE DEF p
  <1>5. GlassOK' /\ MarksArePainted'
    BY <1>2, <1>3, <1>4, PanePaints DEF RenderInv, Shape, PaintInv
  <1>6. CountsOK' /\ PassedGaveBack'
    BY <1>1, DrawCounts
  <1>7. CacheOK'
    BY <1>1 DEF PaintInv, CacheOK, Fine
  <1>8. QED
    BY <1>5, <1>6, <1>7 DEF PaintInv

(* The eye is opened on a pane that gave its picture back, as the walk before it saw to. *)
LEMMA ToggleRadarPaints ==
    ASSUME RenderInv, PaintInv, NEW i \in Visible, ToggleRadar(i) PROVE PaintInv'
  <1> DEFINE p == [panes[i] EXCEPT !.radar = ~panes[i].radar,
                                   !.glass = IF panes[i].radar THEN None ELSE panes[i].glass]
  <1>1. /\ EndDraw /\ Act /\ UNCHANGED <<count, prs, ahead, cache, latest, asked>>
    BY DEF ToggleRadar, fetchVars
  <1>2. i \in DOMAIN panes
    BY VisiblePanes
  <1>3. panes' = [panes EXCEPT ![i] = p]
    <2>1. panes[i] \in PanesWith({panes[i].glass, None})
      BY <1>2, PaneIn DEF RenderInv, Shape
    <2>2. QED
      BY <1>2, <2>1 DEF ToggleRadar, PanesWith
  <1>4. p.radar = ~panes[i].radar /\ p.glass \in {panes[i].glass, None}
    BY <1>2, PaneFields DEF RenderInv, Shape
  <1>5. panes[i].radar \in BOOLEAN
    BY <1>2, PaneFields DEF RenderInv, Shape
  <1>6. DOMAIN prs \subseteq DOMAIN panes /\ prs' = prs
    BY <1>1, Domains DEF RenderInv, Shape
  <1>7. ~panes[i].radar => prs[i].last = 0
    BY <1>1 DEF PaintInv, PassedGaveBack, Passed, EndDraw, Visible
  <1> HIDE DEF p
  <1>8. GlassOK' /\ MarksArePainted'
    BY <1>2, <1>3, <1>4, <1>5, <1>6, <1>7, PanePaints DEF RenderInv, Shape, PaintInv
  <1>9. CountsOK' /\ PassedGaveBack'
    BY <1>1, DrawCounts
  <1>10. CacheOK'
    BY <1>1 DEF PaintInv, CacheOK, Fine
  <1>11. QED
    BY <1>8, <1>9, <1>10 DEF PaintInv

(* A pane that goes out of sight keeps its mark, and a glass that was emptied with it. *)
LEMMA SetPaneCountPaints ==
    ASSUME RenderInv, PaintInv, NEW n \in Indices, SetPaneCount(n) PROVE PaintInv'
  <1>1. /\ EndDraw /\ Act /\ UNCHANGED <<prs, ahead, cache, latest, asked>>
    BY DEF SetPaneCount, fetchVars
  <1>2. PICK active \in Visible :
            panes' = [i \in DOMAIN Grown(panes, n, [panes[active] EXCEPT !.cut = 1, !.radar = TRUE, !.glass = None])
                        |-> IF i > n
                            THEN PutAway(Grown(panes, n, [panes[active] EXCEPT !.cut = 1, !.radar = TRUE, !.glass = None])[i])
                            ELSE Grown(panes, n, [panes[active] EXCEPT !.cut = 1, !.radar = TRUE, !.glass = None])[i]]
    BY DEF SetPaneCount
  <1> DEFINE opened == [panes[active] EXCEPT !.cut = 1, !.radar = TRUE, !.glass = None]
             all == Grown(panes, n, opened)
  <1>3. panes' = [i \in DOMAIN all |-> IF i > n THEN PutAway(all[i]) ELSE all[i]]
    BY <1>2
  <1>4. /\ DOMAIN panes = 1..Len(panes) /\ Len(panes) \in Nat /\ active \in DOMAIN panes
        /\ DOMAIN prs \subseteq DOMAIN panes
    BY VisiblePanes, Domains DEF RenderInv, Shape
  <1>5. /\ DOMAIN panes \subseteq DOMAIN all
        /\ \A i \in DOMAIN all : IF i \in DOMAIN panes THEN all[i] = panes[i] ELSE all[i] = opened
    BY <1>4 DEF Grown
  <1>6. opened.glass = None /\ opened = [site |-> opened.site, cut |-> opened.cut,
            radar |-> opened.radar, linked |-> opened.linked, vol |-> opened.vol,
            glass |-> opened.glass]
    <2>1. panes[active] \in PanesWith({panes[active].glass, None})
      BY <1>4, PaneIn DEF RenderInv, Shape
    <2>2. 1 \in Cuts
      BY RenderAssumption DEF Cuts
    <2>3. opened \in PanesWith({panes[active].glass, None}) /\ opened.glass = None
      BY <2>1, <2>2 DEF PanesWith
    <2> HIDE DEF opened
    <2>4. QED
      BY <2>3 DEF PanesWith
  <1> HIDE DEF opened, all
  <1>7. \A i \in DOMAIN all :
           /\ all[i] = [site |-> all[i].site, cut |-> all[i].cut, radar |-> all[i].radar,
                        linked |-> all[i].linked, vol |-> all[i].vol, glass |-> all[i].glass]
           /\ all[i].glass \in Pictures \cup {None, Hidden}
    BY <1>5, <1>6, PaneFields DEF RenderInv, Shape, PaintInv, GlassOK
  <1>8. \A i \in DOMAIN all :
           /\ PutAway(all[i]).radar = all[i].radar /\ PutAway(all[i]).vol = all[i].vol
           /\ \/ PutAway(all[i]).glass = all[i].glass /\ all[i].glass = None
              \/ PutAway(all[i]).glass = Hidden
    BY <1>7 DEF PutAway
  <1>9. /\ DOMAIN panes' = DOMAIN all
        /\ \A i \in DOMAIN all :
             /\ panes'[i].radar = all[i].radar /\ panes'[i].vol = all[i].vol
             /\ panes'[i].glass \in {all[i].glass, Hidden}
    BY <1>3, <1>8
  <1>10. GlassOK'
    BY <1>7, <1>9 DEF GlassOK
  <1>11. ASSUME NEW i \in DOMAIN prs PROVE IsPainted(i)'
    <2>1. i \in DOMAIN panes /\ i \in DOMAIN all /\ all[i] = panes[i]
      BY <1>4, <1>5
    <2>2. QED
      BY <1>1, <1>9, <2>1 DEF PaintInv, MarksArePainted, IsPainted
  <1>12. MarksArePainted'
    BY <1>1, <1>11 DEF MarksArePainted
  <1>13. CountsOK' /\ PassedGaveBack'
    BY <1>1, DrawCounts
  <1>14. CacheOK'
    BY <1>1 DEF PaintInv, CacheOK, Fine
  <1>15. QED
    BY <1>10, <1>12, <1>13, <1>14 DEF PaintInv

(* The panes that slid into another's place have lost their marks. *)
LEMMA ClosePanePaints ==
    ASSUME RenderInv, PaintInv, NEW i \in Visible, ClosePane(i) PROVE PaintInv'
  <1>1. /\ EndDraw /\ Act /\ UNCHANGED <<ahead, cache, latest>>
        /\ panes' = RemoveAt(panes, i) /\ prs' = SubSeq(prs, 1, i - 1)
        /\ asked' = [s \in Sites |-> [k \in Indices |-> IF k < i THEN asked[s][k] ELSE 0]]
    BY DEF ClosePane, ForgetFrom
  <1>2. /\ i \in 1..Len(panes) /\ Len(panes) \in Nat /\ i - 1 \in 0..Len(prs)
        /\ DOMAIN prs = 1..Len(prs) /\ DOMAIN panes = 1..Len(panes)
        /\ DOMAIN prs \subseteq DOMAIN panes /\ Len(prs) \in Nat
    BY <1>1, VisiblePanes, Domains DEF RenderInv, Shape, Recorded, WalkOK, EndDraw, Visible
  <1>3. PICK G : panes \in Seq(PanesWith(G))
    BY DEF RenderInv, Shape, PanesOK
  <1>4. /\ panes' \in Seq(PanesWith(G)) /\ Len(panes') = Len(panes) - 1
        /\ \A k \in 1..(Len(panes) - 1) : panes'[k] = panes[IF k < i THEN k ELSE k + 1]
    BY <1>1, <1>2, <1>3, RemovedAt
  <1>5. DOMAIN panes' = 1..(Len(panes) - 1)
    BY <1>2, <1>4
  <1>6. /\ prs' \in Seq(Marks) /\ Len(prs') = i - 1 /\ \A k \in 1..(i - 1) : prs'[k] = prs[k]
    BY <1>1, <1>2, Prefix DEF RenderInv, Shape, Recorded
  <1>7. DOMAIN prs' = 1..(i - 1)
    BY <1>2, <1>6
  <1>8. GlassOK'
    <2>1. ASSUME NEW k \in DOMAIN panes' PROVE \E m \in DOMAIN panes : panes'[k] = panes[m]
      <3>1. panes'[k] = panes[IF k < i THEN k ELSE k + 1]
        BY <1>4, <1>5
      <3>2. (IF k < i THEN k ELSE k + 1) \in DOMAIN panes
        BY <1>2, <1>5
      <3>3. QED
        BY <3>1, <3>2
    <2>2. QED
      BY <2>1 DEF PaintInv, GlassOK
  <1>9. ASSUME NEW k \in DOMAIN prs' PROVE IsPainted(k)'
    <2>1. k \in DOMAIN prs /\ prs'[k] = prs[k] /\ panes'[k] = panes[k]
      BY <1>2, <1>4, <1>6, <1>7
    <2>2. QED
      BY <2>1 DEF PaintInv, MarksArePainted, IsPainted
  <1>10. phase' = "ingest" /\ walk' = walk /\ CacheOK' /\ PassedGaveBack'
    BY <1>1 DEF EndDraw, PaintInv, CacheOK, Fine, PassedGaveBack, Passed
  <1>11. CountsOK'
    <2>1. /\ acts' \in 0..MaxActs /\ acts' = acts + 1 /\ 0..acts + 1 \subseteq 0..acts' + 1
          /\ 0 \in 0..acts' + 1
      BY <1>1, FrameAssumption DEF Act, PaintInv, CountsOK
    <2>2. latest' \in [Sites -> 0..acts' + 1]
      BY <1>1, <2>1 DEF PaintInv, CountsOK
    <2>3. ASSUME NEW s \in Sites, NEW k \in Indices
          PROVE  asked[s][k] \in 0..acts' + 1
      <3>1. asked[s] \in [Indices -> 0..acts + 1]
        BY DEF PaintInv, CountsOK
      <3>2. QED
        BY <2>1, <3>1
    <2>4. asked' \in [Sites -> [Indices -> 0..acts' + 1]]
      BY <1>1, <2>1, <2>3
    <2>5. QED
      BY <1>1, <1>10, <2>1, <2>2, <2>4 DEF PaintInv, CountsOK
  <1>12. QED
    BY <1>8, <1>9, <1>10, <1>11 DEF PaintInv, MarksArePainted

LEMMA LosesPaints ==
    ASSUME RenderInv, PaintInv, LoseGraphics \/ ClearRenderCache PROVE PaintInv'
  <1>1. /\ EndDraw /\ Act /\ UNCHANGED <<panes, ahead, latest, asked>>
        /\ prs' = prs \/ prs' = [i \in DOMAIN prs |-> [prs[i] EXCEPT !.last = 0]]
        /\ cache' = cache \/ cache' = <<>>
    BY DEF LoseGraphics, ClearRenderCache, uiVars, fetchVars
  <1>2. CountsOK' /\ PassedGaveBack'
    BY <1>1, DrawCounts
  <1>3. CacheOK'
    <2>1. CASE cache' = cache
      BY <2>1 DEF PaintInv, CacheOK, Fine
    <2>2. CASE cache' = <<>>
      BY <2>2, RenderAssumption DEF CacheOK, Fine
    <2>3. QED
      BY <1>1, <2>1, <2>2
  <1>4. \A i \in DOMAIN prs : [prs[i] EXCEPT !.last = 0].last = 0
    <2>1. \A i \in DOMAIN prs : prs[i] \in Marks
      BY Domains DEF RenderInv, Shape
    <2>2. QED
      BY <2>1 DEF Marks
  <1>5. MarksArePainted'
    BY <1>1, <1>4 DEF PaintInv, MarksArePainted, IsPainted
  <1>6. GlassOK'
    BY <1>1 DEF PaintInv, GlassOK
  <1>7. QED
    BY <1>2, <1>3, <1>5, <1>6 DEF PaintInv

LEMMA IdlePaints == ASSUME PaintInv, Idle PROVE PaintInv'
  <1>1. EndDraw /\ UNCHANGED <<panes, prs, cache, ahead, latest, asked, acts>>
    BY DEF Idle, uiVars, fetchVars
  <1>2. CountsOK' /\ phase' = "ingest"
    BY <1>1, DrawCounts
  <1>3. QED
    BY <1>1, <1>2, PaintFrame

-----------------------------------------------------------------------------
LEMMA PaintInit == ASSUME Init PROVE PaintInv
  <1>1. GlassOK /\ MarksArePainted /\ PassedGaveBack
    BY DEF Init, GlassOK, MarksArePainted, PassedGaveBack, Passed
  <1>2. CacheOK
    BY RenderAssumption DEF Init, CacheOK, Fine
  <1>3. CountsOK
    <2>1. 0 \in 0..0 + 1 /\ 1 \in 0..0 + 1 /\ 0 \in 0..MaxActs /\ 0 \in 0..MaxPanes
      BY RenderAssumption, FrameAssumption
    <2>2. QED
      BY <2>1 DEF Init, CountsOK
  <1>4. QED
    BY <1>1, <1>2, <1>3 DEF PaintInv

LEMMA PaintStutter == ASSUME PaintInv, UNCHANGED vars PROVE PaintInv'
  <1>1. CountsOK'
    BY DEF vars, PaintInv, CountsOK
  <1>2. QED
    BY <1>1, PaintFrame DEF vars

LEMMA UserPaints == ASSUME RenderInv, PaintInv, User PROVE PaintInv'
  <1>1. ASSUME NEW i \in Visible, FetchRadarScan(i) \/ Navigate(i) PROVE PaintInv'
    BY <1>1, FetchPaints
  <1>2. ASSUME NEW i \in Visible, ToggleRadar(i) PROVE PaintInv'
    BY <1>2, ToggleRadarPaints
  <1>3. ASSUME NEW i \in Visible, ClosePane(i) PROVE PaintInv'
    BY <1>3, ClosePanePaints
  <1>4. ASSUME NEW i \in Visible, NEW site \in Sites, SwitchRadarSite(i, site) PROVE PaintInv'
    BY <1>4, SwitchRadarSitePaints
  <1>5. ASSUME NEW i \in Visible, NEW cut \in Cuts, SelectCut(i, cut) PROVE PaintInv'
    BY <1>5, SelectCutPaints
  <1>6. ASSUME NEW n \in Indices, SetPaneCount(n) PROVE PaintInv'
    BY <1>6, SetPaneCountPaints
  <1>7. QED
    BY <1>1, <1>2, <1>3, <1>4, <1>5, <1>6, LosesPaints DEF User

LEMMA PaintNext == ASSUME RenderInv, RenderInv', PaintInv, [Next]_vars PROVE PaintInv'
  <1>1. ASSUME NEW r \in air, Ingest(r) PROVE PaintInv'
    BY <1>1, IngestPaints
  <1>2. CASE Frame
    BY <1>2, EndIngestPaints, ReceivePaints, EndApplyPaints, PassPaints, FromCachePaints,
       GiveBackPaints, IdlePaints DEF Frame, Dispatch
  <1>3. QED
    BY <1>1, <1>2, PoolPaints, UserPaints, PaintStutter DEF Next

LEMMA PaintAlways == NoneIsNoJob => (Spec => [](RenderInv /\ PaintInv))
  <1>1. ASSUME NoneIsNoJob
        PROVE  Spec => [](RenderInv /\ PaintInv)
    <2>1. Spec => []RenderInv
      BY <1>1, RenderAlways
    <2>2. Init => PaintInv
      BY PaintInit
    <2>3. RenderInv /\ RenderInv' /\ PaintInv /\ [Next]_vars => PaintInv'
      BY PaintNext
    <2>4. QED
      BY <2>1, <2>2, <2>3, PTL DEF Spec
  <1>2. QED
    BY <1>1

(* A pane the dispatcher has no work for paints the tilt it asks for: the tilt noted as   *)
(* last_rendered (render_dispatch.rs) is the one on the glass whenever radar is drawn      *)
(* there, because what empties a glass either forgets the tilt with it or is met by a     *)
(* walk that does before the layer's eye can be opened again.                            *)
THEOREM SettledPaints == NoneIsNoJob => (Spec => []SettledIsPainted)
  <1>1. RenderInv /\ PaintInv => SettledIsPainted
    BY PaintInvSettles
  <1>2. ASSUME NoneIsNoJob
        PROVE  Spec => []SettledIsPainted
    <2>1. Spec => [](RenderInv /\ PaintInv)
      BY <1>2, PaintAlways
    <2>2. QED
      BY <1>1, <2>1, PTL
  <1>3. QED
    BY <1>2

(* The render cache keeps to its room and holds a key once, through every insertion,      *)
(* eviction, use and clearing of RenderCache (render_dispatch.rs); records there are only *)
(* of panes; and requests are counted up once per fetch.                                    *)
THEOREM PanesTypeCorrect == NoneIsNoJob => (Spec => []TypeOK)
  <1>1. RenderInv /\ PaintInv => TypeOK
    BY PaintInvTypes
  <1>2. ASSUME NoneIsNoJob
        PROVE  Spec => []TypeOK
    <2>1. Spec => [](RenderInv /\ PaintInv)
      BY <1>2, PaintAlways
    <2>2. QED
      BY <1>1, <2>1, PTL
  <1>3. QED
    BY <1>2
=============================================================================
