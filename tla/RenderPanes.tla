----------------------------- MODULE RenderPanes -----------------------------
(***************************************************************************)
(* The plan views of squallar-app: what the panes show, what the render    *)
(* dispatcher has under way for them, the cache of finished pictures they   *)
(* share, and the volumes of the archive that are delivered to them.       *)
(*                                                                         *)
(* This module holds the state and the operators on it; PaneRender has the  *)
(* frames, the render threads and the user.  Pictures are planes (the       *)
(* `Fan` surface), drawn from host memory.                                 *)
(***************************************************************************)
EXTENDS Integers, Sequences, FiniteSets, SequencesExt

CONSTANTS
    Sites,        \* the radars
    Home,         \* the one the session opens on
    MaxCut,       \* a volume's tilts, counted from the lowest
    MaxPanes,     \* bound on the panes
    Slots,        \* concurrent_renders
    MaxPictures,  \* MAX_PLAN_VIEW_PICTURES_OUTSTANDING
    CacheSize,    \* the pictures the render cache has room for
    None,         \* no render, no picture
    Hidden        \* a glass that was emptied with the pane's hiding

ASSUME RenderAssumption ==
    /\ Home \in Sites
    /\ {MaxCut, MaxPanes, Slots, MaxPictures, CacheSize} \subseteq Nat \ {0}
    /\ MaxPanes >= 2

VARIABLES
    panes,    \* the UI's panes, those out of sight at the end
    count,    \* how many are visible
    prs,      \* pane_render: per slot the render in flight and the tilt last rendered
    jobs,     \* the render pool's slots: the jobs in them, or None
    ahead,    \* speculative_in_flight
    replies,  \* the render channel
    cache,    \* the render cache, least recently used first
    latest,   \* fetch_generations: per site the newest request
    asked,    \* scan_requests: per site and pane the newest request, or 0
    air       \* scan requests that have not landed

Cuts == 1..MaxCut
Indices == 1..MaxPanes
\* A RenderKey has no moment: all volumes of a site share its keys.
Keys == [site : Sites, cut : Cuts]
\* A picture; `vol` is the request that brought the volume it was made of.
Pictures == [site : Sites, cut : Cuts, vol : Nat \ {0}]
Key(site, cut) == [site |-> site, cut |-> cut]

\* pane.vol is the volume of scan_info, 0 without one; pane.glass what it paints.
PaneStates == [site : Sites, cut : Cuts, radar : BOOLEAN, linked : BOOLEAN,
               vol : Nat, glass : Pictures \cup {None, Hidden}]
\* The closure of a render: what it still has to do, whom it answers (0: the cache
\* alone), under which site, and whether its answer is wanted.
Jobs == [stage : {"run", "send", "leave"}, pane : 0..MaxPanes, at : Sites,
         pic : Pictures \cup {None}, wanted : BOOLEAN]
Requests == [site : Sites, vol : Nat \ {0}, requester : 0..MaxPanes]

Fresh == [flight |-> None, last |-> 0]

-----------------------------------------------------------------------------
(* What a pane asks for: Gui::plan_view_demand_for_pane. *)

Demand(i) ==
    IF i \notin DOMAIN panes THEN "NoPlanView"
    ELSE IF ~panes[i].radar THEN "NotDrawn"
    ELSE IF panes[i].vol = 0 THEN "Nothing"
    ELSE "Wanted"

WantedKey(i) == Key(panes[i].site, panes[i].cut)
Picture(i, cut) == [site |-> panes[i].site, cut |-> cut, vol |-> panes[i].vol]
NeedsRender(i) == i \in DOMAIN prs => prs[i].last # panes[i].cut
Settled(i) == i <= count /\ Demand(i) = "Wanted" /\ ~NeedsRender(i)

-----------------------------------------------------------------------------
(* The cache. *)

\* The entries of c at the places D, in the order they have.
Rank(D, i) == Cardinality({j \in D : j <= i})
Kept(c, D) == [n \in 1..Cardinality(D) |-> c[CHOOSE i \in D : Rank(D, i) = n]]

Cached(key) == {c \in Range(cache) : c.key = key}
Without(c, key) == Kept(c, {i \in DOMAIN c : c[i].key # key})
WithoutSite(site) == Kept(cache, {i \in DOMAIN cache : cache[i].key.site # site})

\* RenderCache::get, when there is one to get.
Touched(key) == Without(cache, key) \o Kept(cache, {i \in DOMAIN cache : cache[i].key = key})

FiledUnbounded(key, pic, pinned) == Append(Without(cache, key), [key |-> key, pic |-> pic])

\* RenderCache::insert: what does not fit leaves by age, a picture some render is in
\* flight for after all others.
Filed(key, pic, pinned) ==
    LET full == Append(Without(cache, key), [key |-> key, pic |-> pic])
        unpinned == {n \in DOMAIN full : full[n].key \notin pinned}
        victim == IF unpinned = {} THEN 1 ELSE CHOOSE n \in unpinned : \A m \in unpinned : n <= m
    IN IF Len(full) <= CacheSize THEN full ELSE RemoveAt(full, victim)

-----------------------------------------------------------------------------
(* The dispatcher's records of its panes. *)

InFlight(p) == {p[i].flight : i \in DOMAIN p} \ {None}

\* Renders in the pool whose pane does not want them any more.
Abandoned(gone) ==
    [s \in 1..Slots |-> IF jobs[s] # None /\ jobs[s].stage = "run" /\ jobs[s].pane \in gone
                        THEN [jobs[s] EXCEPT !.wanted = FALSE] ELSE jobs[s]]

Grown(s, n, new) == [i \in DOMAIN s \cup 1..n |-> IF i \in DOMAIN s THEN s[i] ELSE new]

\* ensure_pane_count
Ensured == Grown(prs, count, Fresh)

\* reset_panes_for_site, the panes hidden ones included.
AtSite(site) == {i \in DOMAIN panes \cap DOMAIN prs : panes[i].site = site}
ResetKeepsMarks(site) ==
    /\ prs' = [i \in DOMAIN prs |-> IF i \in AtSite(site) THEN [prs[i] EXCEPT !.last = 0] ELSE prs[i]]
    /\ jobs' = Abandoned(AtSite(site))
    /\ cache' = WithoutSite(site)
ResetKeepsRenders(site) ==
    /\ prs' = [i \in DOMAIN prs |-> IF i \in AtSite(site) THEN Fresh ELSE prs[i]]
    /\ jobs' = jobs
    /\ cache' = WithoutSite(site)

ResetForSite(site) ==
    /\ prs' = [i \in DOMAIN prs |-> IF i \in AtSite(site) THEN Fresh ELSE prs[i]]
    /\ jobs' = Abandoned(AtSite(site))
    /\ cache' = WithoutSite(site)

\* forget_panes_from
ForgetFrom(from) ==
    /\ prs' = SubSeq(prs, 1, from - 1)
    /\ jobs' = Abandoned(from..MaxPanes)
    /\ asked' = [s \in Sites |-> [i \in Indices |-> IF i < from THEN asked[s][i] ELSE 0]]

FreeSlots == {s \in 1..Slots : jobs[s] = None}
\* Any free slot will do.
FreeSlot == CHOOSE s \in FreeSlots : TRUE
Running(pane, at, pic) ==
    [jobs EXCEPT ![FreeSlot] = [stage |-> "run", pane |-> pane, at |-> at, pic |-> pic,
                                wanted |-> TRUE]]

-----------------------------------------------------------------------------
(* Scan requests. *)

\* spawn_fetch and next_scan_generation.  Requester 0 is FetchRequester::Site.
SpawnFetch(site, requester) ==
    LET n == latest[site] + 1
    IN /\ latest' = [latest EXCEPT ![site] = n]
       /\ asked' = IF requester = 0 THEN asked ELSE [asked EXCEPT ![site][requester] = n]
       /\ air' = air \cup {[site |-> site, vol |-> n, requester |-> requester]}

\* is_scan_stale
Stale(r) ==
    IF r.requester = 0 THEN latest[r.site] > r.vol
    ELSE asked[r.site][r.requester] = 0 \/ asked[r.site][r.requester] > r.vol

\* time_sync_targets_for
TimeGroup(src) ==
    IF count > 1 /\ (src \in DOMAIN panes => panes[src].linked)
    THEN {i \in 1..count : i = src \/ panes[i].linked}
    ELSE {src}

\* ScanInfoForSite and ScanInfoForTimeGroup.
Audience(r) ==
    {i \in DOMAIN panes : panes[i].site = r.site /\ (r.requester = 0 \/ i \in TimeGroup(r.requester))}
=============================================================================
