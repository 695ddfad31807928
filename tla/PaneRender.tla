----------------------------- MODULE PaneRender -----------------------------
(***************************************************************************)
(* The frame thread, the render pool and the network around the panes of    *)
(* RenderPanes.                                                            *)
(*                                                                         *)
(* A frame takes volumes off the scan channel, grows the dispatcher's       *)
(* records to the visible panes, takes every reply off the render channel,  *)
(* walks the visible panes and asks for what they lack, then draws, and     *)
(* with that come the user's actions.  Render threads and fetches go on     *)
(* between any two steps.                                                  *)
(***************************************************************************)
EXTENDS RenderPanes

CONSTANTS
    Linked,       \* whether the panes share their time
    Speculates,   \* whether the device renders ahead
    MaxActs       \* bound on the things the user and the platform do

ASSUME FrameAssumption == {Linked, Speculates} \subseteq BOOLEAN /\ MaxActs \in Nat

VARIABLES
    phase,        \* what the frame does next
    walk,         \* the pane dispatch_pane_renders is at
    acts

uiVars == <<panes, count>>
poolVars == <<jobs, replies>>
fetchVars == <<latest, asked, air>>
frameVars == <<phase, walk, acts>>
vars == <<panes, count, prs, jobs, ahead, replies, cache, latest, asked, air, phase, walk, acts>>

\* The session's first volume has just been delivered.
Init ==
    /\ panes = [i \in 1..2 |-> [site |-> Home, cut |-> 1, radar |-> TRUE, linked |-> Linked,
                                vol |-> 1, glass |-> None]]
    /\ count = 2
    /\ prs = <<>>
    /\ jobs = [s \in 1..Slots |-> None] /\ ahead = FALSE
    /\ replies = <<>> /\ cache = <<>>
    /\ latest = [s \in Sites |-> IF s = Home THEN 1 ELSE 0]
    /\ asked = [s \in Sites |-> [i \in Indices |-> 0]]
    /\ air = {}
    /\ phase = "ingest" /\ walk = 0 /\ acts = 0

Act == acts < MaxActs /\ acts' = acts + 1

-----------------------------------------------------------------------------
(* poll_scan_results. *)

Ingest(r) ==
    /\ phase = "ingest"
    /\ r \in air
    /\ air' = air \ {r}
    /\ \/ UNCHANGED <<panes, prs, jobs, cache>>    \* stale, or the fetch failed
       \/ /\ ~Stale(r)
          /\ panes' = [i \in DOMAIN panes |->
                          IF i \in Audience(r) THEN [panes[i] EXCEPT !.vol = r.vol] ELSE panes[i]]
          /\ ResetForSite(r.site)
    /\ UNCHANGED <<count, ahead, replies, latest, asked, frameVars>>

EndIngest ==
    /\ phase = "ingest"
    /\ phase' = "apply"
    /\ prs' = Ensured
    /\ UNCHANGED <<uiVars, poolVars, ahead, cache, fetchVars, walk, acts>>

-----------------------------------------------------------------------------
(* poll_render_results. *)

\* The render of maybe_spawn_speculative_render: the tilt above, or the one below.
NextTilt(cut) == IF cut < MaxCut THEN cut + 1 ELSE cut - 1
MaySpeculate(cut) ==
    /\ Speculates /\ ~ahead
    /\ InFlight(prs') = {} /\ FreeSlots = 1..Slots
    /\ NextTilt(cut) \in Cuts
Speculate(i, cut) ==
    LET key == Key(panes[i].site, NextTilt(cut))
    IN IF MaySpeculate(cut) /\ \A e \in Range(cache') : e.key # key
       THEN /\ jobs' = Running(0, key.site, Picture(i, key.cut))
            /\ ahead' = TRUE
       ELSE UNCHANGED <<jobs, ahead>>

\* apply_render_to_pane, for the pane that asked and for its siblings.
Paint(takers, pic) ==
    panes' = [i \in DOMAIN panes |->
                 IF i \in takers THEN [panes[i] EXCEPT !.glass = pic] ELSE panes[i]]

Siblings(key) ==
    {i \in (1..count) \cap DOMAIN prs :
        Demand(i) = "Wanted" /\ WantedKey(i) = key /\ NeedsRender(i)}

Prerendered(r) ==
    /\ ahead' = FALSE
    /\ cache' = IF r.pic = None THEN cache
                ELSE Filed(Key(r.at, r.pic.cut), r.pic, InFlight(prs))
    /\ UNCHANGED <<panes, prs, jobs>>

Answered(r) ==
    LET i == r.pane
        finished == IF i \in DOMAIN prs THEN [prs EXCEPT ![i].flight = None] ELSE prs
        serves == r.pic # None /\ i <= count /\ Demand(i) = "Wanted"
    IN IF ~serves
       THEN /\ prs' = finished
            /\ UNCHANGED <<panes, jobs, ahead, cache>>
       ELSE LET key == Key(panes[i].site, r.pic.cut)
                takers == {i} \cup Siblings(key)
            IN /\ cache' = Filed(key, r.pic, InFlight(finished))
               /\ Paint(takers, r.pic)
               /\ prs' = [n \in DOMAIN prs |-> IF n \in takers
                                               THEN [finished[n] EXCEPT !.last = r.pic.cut]
                                               ELSE finished[n]]
               /\ Speculate(i, r.pic.cut)

Receive ==
    /\ phase = "apply" /\ replies # <<>>
    /\ replies' = Tail(replies)
    /\ IF Head(replies).pane = 0 THEN Prerendered(Head(replies)) ELSE Answered(Head(replies))
    /\ UNCHANGED <<count, fetchVars, frameVars>>

EndApply ==
    /\ phase = "apply" /\ replies = <<>>
    /\ phase' = "dispatch" /\ walk' = 1
    /\ UNCHANGED <<uiVars, prs, poolVars, ahead, cache, fetchVars, acts>>

-----------------------------------------------------------------------------
(* dispatch_pane_renders. *)

Walk ==
    /\ phase = "dispatch"
    /\ walk' = IF walk < count THEN walk + 1 ELSE 0
    /\ phase' = IF walk < count THEN "dispatch" ELSE "draw"
    /\ UNCHANGED <<count, replies, fetchVars, acts>>

Asks == Demand(walk) = "Wanted" /\ NeedsRender(walk) /\ prs[walk].flight = None
BehindSibling == WantedKey(walk) \in InFlight(prs)
DoorOpen == Cardinality({i \in DOMAIN prs : prs[i].flight # None}) < MaxPictures

Pass ==
    /\ Walk
    /\ Demand(walk) = "Wanted"
    /\ Asks => /\ Cached(WantedKey(walk)) = {}
               /\ BehindSibling \/ ~DoorOpen \/ FreeSlots = {}
    /\ UNCHANGED <<panes, prs, jobs, ahead, cache>>

FromCache ==
    /\ Walk /\ Asks
    /\ \E e \in Cached(WantedKey(walk)) :
        /\ Paint({walk}, e.pic)
        /\ prs' = [prs EXCEPT ![walk].last = panes[walk].cut]
    /\ cache' = Touched(WantedKey(walk))
    /\ UNCHANGED <<jobs, ahead>>

\* spawn_render
Spawn ==
    /\ Walk /\ Asks
    /\ Cached(WantedKey(walk)) = {}
    /\ ~BehindSibling /\ DoorOpen /\ FreeSlots # {}
    /\ jobs' = Running(walk, panes[walk].site, Picture(walk, panes[walk].cut))
    /\ prs' = [prs EXCEPT ![walk].flight = WantedKey(walk)]
    /\ UNCHANGED <<panes, ahead, cache>>

GivesGlassOnly ==
    /\ Walk
    /\ Demand(walk) \in {"NotDrawn", "Nothing"}
    /\ Paint({walk}, None)
    /\ UNCHANGED <<prs, jobs, ahead, cache>>

\* A pane that paints no radar gives back what it holds, the shared picture too when
\* nobody wants it.
GiveBack ==
    /\ Walk
    /\ Demand(walk) \in {"NotDrawn", "Nothing"}
    /\ Paint({walk}, None)
    /\ LET key == Key(panes[walk].site, prs[walk].last)
           released == /\ Demand(walk) = "NotDrawn"
                       /\ prs[walk].last # 0
                       /\ \A i \in 1..count : Demand(i) = "Wanted" => WantedKey(i) # key
       IN cache' = IF released THEN Without(cache, key) ELSE cache
    /\ prs' = [prs EXCEPT ![walk].last = 0]
    /\ UNCHANGED <<jobs, ahead>>

Dispatch == Pass \/ FromCache \/ Spawn \/ GiveBack

-----------------------------------------------------------------------------
(* The closure of a render, on the pool's threads. *)

\* The picture is made, and the job asks whether it is wanted.
Decide(s) ==
    /\ jobs[s] # None /\ jobs[s].stage = "run"
    /\ jobs' = [jobs EXCEPT ![s].stage = IF jobs[s].wanted THEN "send" ELSE "leave"]
    /\ UNCHANGED <<uiVars, prs, ahead, replies, cache, fetchVars, frameVars>>

SendsNothing(s) ==
    /\ Act
    /\ jobs[s] # None /\ jobs[s].stage = "run"
    /\ jobs' = [jobs EXCEPT ![s].stage = "leave", ![s].pic = None]
    /\ UNCHANGED <<uiVars, prs, ahead, replies, cache, fetchVars, phase, walk>>

\* The job comes back without a picture: its worker is gone, or the renderer failed.
ComeBackEmpty(s) ==
    /\ Act
    /\ jobs[s] # None /\ jobs[s].stage = "run"
    /\ jobs' = [jobs EXCEPT ![s].stage = IF jobs[s].wanted THEN "send" ELSE "leave",
                           ![s].pic = None]
    /\ UNCHANGED <<uiVars, prs, ahead, replies, cache, fetchVars, phase, walk>>

Send(s) ==
    /\ jobs[s] # None /\ jobs[s].stage = "send"
    /\ replies' = Append(replies, [pane |-> jobs[s].pane, at |-> jobs[s].at, pic |-> jobs[s].pic])
    /\ jobs' = [jobs EXCEPT ![s].stage = "leave"]
    /\ UNCHANGED <<uiVars, prs, ahead, cache, fetchVars, frameVars>>

\* The guard goes last, after the redraw was asked for.
Leave(s) ==
    /\ jobs[s] # None /\ jobs[s].stage = "leave"
    /\ jobs' = [jobs EXCEPT ![s] = None]
    /\ UNCHANGED <<uiVars, prs, ahead, replies, cache, fetchVars, frameVars>>

Render(s) == Decide(s) \/ Send(s) \/ Leave(s)
Pool == \E s \in 1..Slots : Render(s) \/ ComeBackEmpty(s)

-----------------------------------------------------------------------------
(* What the user and the platform do: at most one thing a frame. *)

EndDraw == phase = "draw" /\ phase' = "ingest" /\ UNCHANGED walk
Visible == 1..count

Idle ==
    /\ EndDraw
    /\ UNCHANGED <<uiVars, prs, poolVars, ahead, cache, fetchVars, acts>>

\* FetchRadarScan, for everybody at the site.
FetchRadarScan(i) ==
    /\ EndDraw /\ Act
    /\ SpawnFetch(panes[i].site, 0)
    /\ UNCHANGED <<uiVars, prs, poolVars, ahead, cache>>

\* seek_pane_to
Navigate(i) ==
    /\ EndDraw /\ Act
    /\ SpawnFetch(panes[i].site, i)
    /\ UNCHANGED <<uiVars, prs, poolVars, ahead, cache>>

SwitchRadarSite(i, site) ==
    /\ EndDraw /\ Act
    /\ panes[i].site # site
    /\ panes' = [panes EXCEPT ![i].site = site, ![i].vol = 0]
    /\ SpawnFetch(site, 0)
    /\ UNCHANGED <<count, prs, poolVars, ahead, cache>>

SelectCut(i, cut) ==
    /\ EndDraw /\ Act
    /\ panes[i].cut # cut
    /\ panes' = [panes EXCEPT ![i].cut = cut]
    /\ UNCHANGED <<count, prs, poolVars, ahead, cache, fetchVars>>

\* The layer's eye; release_disabled_overlay_textures.
ToggleRadar(i) ==
    /\ EndDraw /\ Act
    /\ panes' = [panes EXCEPT ![i].radar = ~@, ![i].glass = IF panes[i].radar THEN None ELSE @]
    /\ UNCHANGED <<count, prs, poolVars, ahead, cache, fetchVars>>

\* release_hidden_textures
PutAway(pane) == IF pane.glass = None THEN pane ELSE [pane EXCEPT !.glass = Hidden]
SetPaneCount(n) ==
    /\ EndDraw /\ Act
    /\ n # count
    /\ count' = n
    /\ \E active \in Visible :
        LET opened == [panes[active] EXCEPT !.cut = 1, !.radar = TRUE, !.glass = None]
            all == Grown(panes, n, opened)
        IN panes' = [i \in DOMAIN all |-> IF i > n THEN PutAway(all[i]) ELSE all[i]]
    /\ UNCHANGED <<prs, poolVars, ahead, cache, fetchVars>>

\* close_pane and PaneClosed.
ClosePane(i) ==
    /\ EndDraw /\ Act
    /\ count > 1
    /\ panes' = RemoveAt(panes, i)
    /\ count' = count - 1
    /\ ForgetFrom(i)
    /\ UNCHANGED <<ahead, replies, cache, latest, air>>

\* The app is suspended, or loses its surface and with it the cache. The panes' planes
\* are host memory, and stay.
LoseGraphics ==
    /\ EndDraw /\ Act
    /\ prs' = [i \in DOMAIN prs |-> [prs[i] EXCEPT !.last = 0]]
    /\ cache' \in {cache, <<>>}
    /\ UNCHANGED <<uiVars, poolVars, ahead, fetchVars>>

\* on_pressure
ClearRenderCache ==
    /\ EndDraw /\ Act
    /\ cache # <<>> /\ cache' = <<>>
    /\ UNCHANGED <<uiVars, prs, poolVars, ahead, fetchVars>>

User ==
    \/ \E i \in Visible :
        \/ FetchRadarScan(i) \/ Navigate(i) \/ ToggleRadar(i) \/ ClosePane(i)
        \/ \E site \in Sites : SwitchRadarSite(i, site)
        \/ \E cut \in Cuts : SelectCut(i, cut)
    \/ \E n \in Indices : SetPaneCount(n)
    \/ LoseGraphics \/ ClearRenderCache

-----------------------------------------------------------------------------
Frame == EndIngest \/ Receive \/ EndApply \/ Dispatch \/ Idle

Next == (\E r \in air : Ingest(r)) \/ Frame \/ Pool \/ User

Spec == Init /\ [][Next]_vars

\* Frames recur: the timers of the main loop ask for one if nothing else does.  Render
\* threads go on.
FairSpec == Spec /\ WF_vars(Frame) /\ \A s \in 1..Slots : WF_vars(Render(s))

-----------------------------------------------------------------------------
\* Types, and the bounds that hold by how pictures are filed and panes recorded: the
\* cache keeps to its room and holds a key once, records there are only of panes, and
\* requests are counted up once per fetch.
TypeOK ==
    /\ panes \in Seq(PaneStates) /\ Len(panes) \in 1..MaxPanes /\ count \in 1..Len(panes)
    /\ prs \in Seq([flight : Keys \cup {None}, last : 0..MaxCut]) /\ Len(prs) <= MaxPanes
    /\ jobs \in [1..Slots -> Jobs \cup {None}] /\ ahead \in BOOLEAN
    /\ replies \in Seq([pane : 0..MaxPanes, at : Sites, pic : Pictures \cup {None}])
    /\ cache \in Seq([key : Keys, pic : Pictures]) /\ Len(cache) <= CacheSize
    /\ Cardinality({e.key : e \in Range(cache)}) = Len(cache)
    /\ latest \in [Sites -> 0..MaxActs + 1]
    /\ asked \in [Sites -> [Indices -> 0..MaxActs + 1]]
    /\ air \subseteq Requests
    /\ phase \in {"ingest", "apply", "dispatch", "draw"} /\ walk \in 0..MaxPanes
    /\ acts \in 0..MaxActs

\* "The pane must not be left waiting for a result that will never come": behind every
\* in-flight mark there is a reply in the channel, or a job that will send one. A mark
\* without either keeps the pane, and all that share its picture, from asking again.
MarksAreAnswered ==
    \A i \in DOMAIN prs : prs[i].flight # None =>
        \/ \E r \in Range(replies) : r.pane = i
        \/ \E s \in 1..Slots :
            /\ jobs[s] # None /\ jobs[s].pane = i
            /\ jobs[s].stage = "send" \/ (jobs[s].stage = "run" /\ jobs[s].wanted)

\* A flag is cleared "if this pane's data changes while the render runs": a render that
\* may still answer is of the volume its pane has now, whatever was delivered, closed
\* and opened under it. A pane without a volume takes no answer.
WantedIsCurrent ==
    \A s \in 1..Slots :
        jobs[s] # None /\ jobs[s].pane # 0 /\ jobs[s].stage = "run" /\ jobs[s].wanted =>
            LET i == jobs[s].pane
            IN /\ i \in DOMAIN panes
               /\ jobs[s].pic # None /\ panes[i].vol # 0 =>
                    jobs[s].pic.site = panes[i].site /\ jobs[s].pic.vol = panes[i].vol

\* A pane the dispatcher has no work for paints the tilt it asks for: what the glass lost
\* to the layer's eye, a new radar or a closed neighbour, the dispatcher has forgotten. Not
\* so a pane that was out of sight: its glass was emptied, its mark stays, and it comes
\* back blank.
SettledIsPainted ==
    phase = "draw" => \A i \in Visible :
        Settled(i) => \/ panes[i].glass \in Pictures /\ panes[i].glass.cut = panes[i].cut
                      \/ panes[i].glass = Hidden

\* No pane waits for its picture for good: not behind a sibling's render that was put to
\* another use, at the door or for a slot, nor after a render that came to nothing.
EveryPaneSettles ==
    \A i \in Indices : []<>(i <= count /\ Demand(i) = "Wanted" => Settled(i))

\* "Parked in the archive it holds its moment": a pane out of the shared time paints no
\* volume newer than the one it was given. (Volumes count up in the order they are asked
\* for.)
ParkedHoldsItsMoment ==
    phase = "draw" => \A i \in Visible :
        LET p == panes[i]
        IN ~p.linked /\ p.vol # 0 /\ p.glass \in Pictures /\ p.glass.site = p.site
               => p.glass.vol <= p.vol
=============================================================================
