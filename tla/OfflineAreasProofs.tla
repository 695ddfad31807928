-------------------------- MODULE OfflineAreasProofs --------------------------
(***************************************************************************)
(* Theorems about the store, the runs that publish into it, what they      *)
(* transfer, and what a row draws of it, for every set of areas, archives  *)
(* and cuts, any number of runs at once, and whatever the user, the disk,  *)
(* the network and the process do.                                         *)
(***************************************************************************)
EXTENDS OfflineAreas, FiniteSetTheorems, WellFoundedInduction, TLAPS

Fields == {"area", "gen", "terrain", "pc", "planned", "half", "missing", "held", "moved",
           "due", "total", "done", "failed", "outcome", "swept"}

(* What a run knows of itself. *)
Shaped(r) ==
    /\ DOMAIN r = Fields /\ DOMAIN r.missing = Halves
    /\ r.half \in Halves /\ r.planned \subseteq Halves
    /\ r.failed \in BOOLEAN
    /\ r.half = "Terrain" => r.missing["Basemap"] = {}

RunOK(r) ==
    /\ Shaped(r)
    /\ r.pc \in {"basemap", "terrain"} => r.half = "Basemap"
    /\ r.outcome = "Complete" =>
        r.pc = "ended" /\ ~r.failed /\ r.missing["Basemap"] = {} /\ r.missing["Terrain"] = {}

(* r becomes s, still of the same area and archive. *)
SameRun(r, s) == s.area = r.area /\ s.gen = r.gen /\ s.swept = r.swept

(* To the next segment, or to the end. *)
LEMMA ProceedOK ==
    ASSUME NEW r, Shaped(r), r.outcome # "Complete"
    PROVE  /\ RunOK(Proceed(r)) /\ SameRun(r, Proceed(r))
           /\ Proceed(r).pc \in {"fetch", "ended"}
           /\ Proceed(r).missing = r.missing /\ Proceed(r).planned = r.planned
           /\ Proceed(r).failed = r.failed
  <1>0. DOMAIN r = Fields
    BY DEF Shaped
  <1>1. CASE r.missing[r.half] # {}
    <2> DEFINE s == [r EXCEPT !.pc = "fetch"]
    <2>1. Proceed(r) = s
      BY <1>1 DEF Proceed
    <2>2. /\ DOMAIN s = Fields /\ s.pc = "fetch" /\ s.half = r.half /\ s.missing = r.missing
          /\ s.planned = r.planned /\ s.failed = r.failed /\ s.outcome = r.outcome
          /\ s.area = r.area /\ s.gen = r.gen /\ s.swept = r.swept
      BY <1>0, Zenon DEF Fields
    <2> HIDE DEF s
    <2>3. QED
      BY <2>1, <2>2, Zenon DEF RunOK, Shaped, SameRun
  <1>2. CASE r.missing[r.half] = {} /\ r.missing["Terrain"] # {}
    <2> DEFINE s == [r EXCEPT !.half = "Terrain", !.held = {}, !.pc = "fetch"]
    <2>1. Proceed(r) = s
      BY <1>2 DEF Proceed
    <2>2. /\ DOMAIN s = Fields /\ s.pc = "fetch" /\ s.half = "Terrain" /\ s.missing = r.missing
          /\ s.planned = r.planned /\ s.failed = r.failed /\ s.outcome = r.outcome
          /\ s.area = r.area /\ s.gen = r.gen /\ s.swept = r.swept
      BY <1>0, Zenon DEF Fields
    <2>3. r.missing["Basemap"] = {}
      BY <1>2, Zenon DEF Shaped, Halves
    <2> HIDE DEF s
    <2>4. QED
      BY <2>1, <2>2, <2>3, Zenon DEF RunOK, Shaped, SameRun, Halves
  <1>3. CASE r.missing[r.half] = {} /\ r.missing["Terrain"] = {}
    <2> DEFINE s == [r EXCEPT !.pc = "ended", !.held = {}, !.outcome = Verdict(r)]
    <2>1. Proceed(r) = s
      BY <1>3 DEF Proceed, Ended
    <2>2. /\ DOMAIN s = Fields /\ s.pc = "ended" /\ s.half = r.half /\ s.missing = r.missing
          /\ s.planned = r.planned /\ s.failed = r.failed /\ s.outcome = Verdict(r)
          /\ s.area = r.area /\ s.gen = r.gen /\ s.swept = r.swept
      BY <1>0, Zenon DEF Fields
    <2>3. r.missing["Basemap"] = {}
      BY <1>3, Zenon DEF Shaped, Halves
    <2>4. r.failed => Verdict(r) # "Complete"
      BY Zenon DEF Verdict
    <2> HIDE DEF s
    <2>5. QED
      BY <1>3, <2>1, <2>2, <2>3, <2>4, Zenon DEF RunOK, Shaped, SameRun
  <1>4. QED
    BY <1>1, <1>2, <1>3, Zenon

(* A segment ends: the run is past it, and remembers if it failed. *)
LEMMA SegmentEndsOK ==
    ASSUME NEW r, NEW ok \in BOOLEAN, Shaped(r), r.outcome # "Complete"
    PROVE  /\ RunOK(SegmentEnds(r, ok)) /\ SameRun(r, SegmentEnds(r, ok))
           /\ SegmentEnds(r, ok).pc \in {"fetch", "ended"}
           /\ SegmentEnds(r, ok).planned = r.planned
           /\ SegmentEnds(r, ok).failed = (r.failed \/ ~ok)
           /\ SegmentEnds(r, ok).missing = Past(r)
  <1> DEFINE d == IF ok THEN r.done + 1 ELSE r.done
             s == [r EXCEPT !.done = d, !.failed = r.failed \/ ~ok, !.held = Carried(r),
                            !.missing = Past(r)]
  <1>1. SegmentEnds(r, ok) = Proceed(s)
    BY Zenon DEF SegmentEnds
  <1>2. DOMAIN r = Fields
    BY DEF Shaped
  <1> HIDE DEF d
  <1>3. /\ DOMAIN s = Fields /\ s.half = r.half /\ s.missing = Past(r)
        /\ s.planned = r.planned /\ s.failed = (r.failed \/ ~ok) /\ s.outcome = r.outcome
        /\ s.area = r.area /\ s.gen = r.gen /\ s.swept = r.swept
    BY <1>2, Zenon DEF Fields
  <1>4. DOMAIN Past(r) = Halves
    BY Zenon DEF Past, Shaped
  <1>5. r.half = "Terrain" => Past(r)["Basemap"] = {}
    BY Zenon DEF Past, Shaped, Halves
  <1>6. (r.failed \/ ~ok) \in BOOLEAN
    OBVIOUS
  <1> HIDE DEF s
  <1>7. Shaped(s)
    BY <1>3, <1>4, <1>5, <1>6, Zenon DEF Shaped
  <1>8. s.outcome # "Complete"
    BY <1>3, Zenon
  <1>9. QED
    BY <1>1, <1>3, <1>7, <1>8, ProceedOK, Zenon DEF SameRun

(* s is r with half h planned. *)
Plans(r, h, existing, s) ==
    /\ Shaped(s) /\ SameRun(r, s)
    /\ s.pc = r.pc /\ s.half = r.half /\ s.outcome = r.outcome /\ s.failed = r.failed
    /\ s.planned = r.planned \cup {h}
    /\ s.missing[h] = DOMAIN Cuts[r.gen][h] \ existing
    /\ \A g \in Halves : g # h => s.missing[g] = r.missing[g]

(* Half h is planned: what the store does not list of its cut is missing. *)
LEMMA PlannedOK ==
    ASSUME NEW r, NEW h \in Halves, NEW existing, Shaped(r), r.half = "Basemap"
    PROVE  Plans(r, h, existing, Planned(r, h, existing))
  <1> DEFINE m == [r.missing EXCEPT ![h] = DOMAIN Cuts[r.gen][h] \ existing]
             n == r.done + Cardinality(DOMAIN Cuts[r.gen][h] \cap existing)
             s == [r EXCEPT !.planned = r.planned \cup {h}, !.missing = m, !.done = n]
  <1>1. Planned(r, h, existing) = s
    BY Zenon DEF Planned
  <1>2. DOMAIN r = Fields /\ DOMAIN r.missing = Halves
    BY DEF Shaped
  <1>3. /\ DOMAIN m = Halves /\ m[h] = DOMAIN Cuts[r.gen][h] \ existing
        /\ \A g \in Halves : g # h => m[g] = r.missing[g]
    BY <1>2, Zenon
  <1> HIDE DEF m, n
  <1>4. /\ DOMAIN s = Fields /\ s.half = r.half /\ s.missing = m
        /\ s.planned = r.planned \cup {h} /\ s.failed = r.failed /\ s.outcome = r.outcome
        /\ s.area = r.area /\ s.gen = r.gen /\ s.swept = r.swept /\ s.pc = r.pc
    BY <1>2, Zenon DEF Fields
  <1>5. "Basemap" # "Terrain" /\ r.planned \cup {h} \subseteq Halves
    BY DEF Shaped
  <1> HIDE DEF s
  <1>6. Shaped(s)
    BY <1>3, <1>4, <1>5, Zenon DEF Shaped
  <1>7. QED
    BY <1>1, <1>3, <1>4, <1>6, Zenon DEF SameRun, Plans

(* Both halves are planned. *)
LEMMA BuildingOK ==
    ASSUME NEW r, Shaped(r), r.outcome # "Complete"
    PROVE  /\ RunOK(Building(r)) /\ SameRun(r, Building(r))
           /\ Building(r).pc \in {"fetch", "ended"}
           /\ Building(r).missing = r.missing /\ Building(r).planned = r.planned
           /\ Building(r).failed = r.failed
  <1> DEFINE due == RunBytes(r, "Basemap") + RunBytes(r, "Terrain")
             total == Len(Cuts[r.gen]["Basemap"])
                      + IF "Terrain" \in r.planned THEN Len(Cuts[r.gen]["Terrain"]) ELSE 0
             s == [r EXCEPT !.due = due, !.total = total]
  <1>1. Building(r) = Proceed(s)
    BY Zenon DEF Building
  <1>2. DOMAIN r = Fields
    BY DEF Shaped
  <1> HIDE DEF due, total
  <1>3. /\ DOMAIN s = Fields /\ s.half = r.half /\ s.missing = r.missing
        /\ s.planned = r.planned /\ s.failed = r.failed /\ s.outcome = r.outcome
        /\ s.area = r.area /\ s.gen = r.gen /\ s.swept = r.swept
    BY <1>2, Zenon DEF Fields
  <1> HIDE DEF s
  <1>4. Shaped(s) /\ s.outcome # "Complete"
    BY <1>3, Zenon DEF Shaped
  <1>5. QED
    BY <1>1, <1>3, <1>4, ProceedOK, Zenon DEF SameRun

-----------------------------------------------------------------------------
(* Of the directory and the runs together. *)

(* No run is the value that stands for none. *)
NoneIsNoRun == \A r : DOMAIN r = Fields => r # None

RunsOK(runs) ==
    /\ DOMAIN runs = Slots
    /\ \A e \in Slots : runs[e] # None => RunOK(runs[e])

FilesOK(files) ==
    \A n \in DOMAIN files :
        DOMAIN files[n] = {"gen", "torn", "writing"} /\ files[n].torn \in BOOLEAN

(* One run at a time is alive on an area that has not had two. *)
Alone(runs, twice) ==
    \A e, f \in Slots :
        runs[e] # None /\ runs[f] # None /\ runs[e].area = runs[f].area
            /\ runs[e].area \notin twice => e = f

(* Who has a file open is writing, in its area, and what it is to write.  *)
Writers(files, runs, twice) ==
    \A n \in DOMAIN files : \A e \in files[n].writing :
        /\ e \in Slots /\ runs[e] # None /\ runs[e].pc = "write" /\ runs[e].area = n.area
        /\ n.area \notin twice => n = PartOf(runs[e])

(* A published file is not torn, nor is the one a run is writing or about to rename. *)
Sound(files, runs, twice) ==
    \A n \in DOMAIN files :
        n.area \notin twice /\
            \/ n.kind = "pmtiles"
            \/ \E e \in Slots : /\ runs[e] # None /\ runs[e].pc \in {"write", "rename"}
                                /\ n = PartOf(runs[e])
        => ~files[n].torn

(* The store has the segment, under its published name. *)
Has(files, a, h, s) ==
    \E n \in DOMAIN files : n.area = a /\ n.half = h /\ n.seg = s /\ n.kind = "pmtiles"

(* What a run planned is in the store or still to do, or it failed, or was swept. *)
Accounted(files, r) ==
    r.failed \/ r.swept \/
        \A h \in r.planned : \A s \in DOMAIN Cuts[r.gen][h] :
            Has(files, r.area, h, s) \/ s \in r.missing[h]

AllAccounted(files, runs) == \A e \in Slots : runs[e] # None => Accounted(files, runs[e])

StoreInv(files, runs, twice) ==
    /\ RunsOK(runs) /\ FilesOK(files)
    /\ Alone(runs, twice) /\ Writers(files, runs, twice) /\ Sound(files, runs, twice)
    /\ AllAccounted(files, runs)

(* The names a run uses. *)
LEMMA Names ==
    ASSUME NEW r
    PROVE  /\ PartOf(r).area = r.area /\ PartOf(r).kind = "part"
           /\ Published(PartOf(r)).area = r.area /\ Published(PartOf(r)).kind = "pmtiles"
           /\ Published(PartOf(r)).half = r.half /\ Published(PartOf(r)).seg = Current(r)
  <1> DEFINE n == PartOf(r)
  <1>1. /\ n.area = r.area /\ n.half = r.half /\ n.seg = Current(r) /\ n.kind = "part"
        /\ DOMAIN n = {"area", "half", "seg", "kind"}
    BY Zenon DEF PartOf, NameOf
  <1> HIDE DEF n
  <1>2. /\ Published(n).area = n.area /\ Published(n).half = n.half
        /\ Published(n).seg = n.seg /\ Published(n).kind = "pmtiles"
    BY <1>1, Zenon DEF Published
  <1>3. QED
    BY <1>1, <1>2, Zenon DEF n

(* The runs with e's replaced. *)
Moves(runs, e, s, next) == next = [runs EXCEPT ![e] = s]

(* A run that moves on leaves the others what they are. *)
LEMMA OneMoves ==
    ASSUME NEW runs, NEW twice, NEW e \in Slots, NEW s, NEW next,
           NoneIsNoRun, RunsOK(runs), Alone(runs, twice),
           runs[e] # None, RunOK(s), SameRun(runs[e], s), Moves(runs, e, s, next)
    PROVE  /\ RunsOK(next) /\ Alone(next, twice)
           /\ next[e] = s /\ s # None
           /\ \A f \in Slots : f # e => next[f] = runs[f]
  <1>1. s # None
    BY Zenon DEF RunOK, Shaped, NoneIsNoRun
  <1>2. DOMAIN next = Slots /\ next[e] = s /\ \A f \in Slots : f # e => next[f] = runs[f]
    BY Zenon DEF RunsOK, Moves
  <1>3. RunsOK(next)
    BY <1>2, Zenon DEF RunsOK
  <1>4. Alone(next, twice)
    <2>1. \A f \in Slots : next[f] # None => runs[f] # None /\ next[f].area = runs[f].area
      BY <1>2, Zenon DEF SameRun
    <2>2. QED
      BY <2>1, Zenon DEF Alone
  <1>5. QED
    BY <1>1, <1>2, <1>3, <1>4, Zenon

(* s is r, at step v. *)
IsAt(r, v, s) ==
    /\ RunOK(s) /\ SameRun(r, s) /\ s.pc = v
    /\ PartOf(s) = PartOf(r)
    /\ s.missing = r.missing /\ s.planned = r.planned /\ s.failed = r.failed

(* A run of which only the step it is at changes. *)
LEMMA PcMoves ==
    ASSUME NEW r, NEW v, Shaped(r), r.outcome # "Complete",
           v \in {"basemap", "terrain"} => r.half = "Basemap"
    PROVE  IsAt(r, v, [r EXCEPT !.pc = v])
  <1> DEFINE s == [r EXCEPT !.pc = v]
  <1>1. DOMAIN r = Fields
    BY DEF Shaped
  <1>2. /\ DOMAIN s = Fields /\ s.pc = v /\ s.half = r.half /\ s.missing = r.missing
        /\ s.planned = r.planned /\ s.failed = r.failed /\ s.outcome = r.outcome
        /\ s.area = r.area /\ s.gen = r.gen /\ s.swept = r.swept
    BY <1>1, Zenon DEF Fields
  <1> HIDE DEF s
  <1>3. RunOK(s) /\ SameRun(r, s)
    BY <1>2, Zenon DEF RunOK, Shaped, SameRun
  <1>4. PartOf(s) = PartOf(r)
    BY <1>2, Zenon DEF PartOf, Current
  <1>5. QED
    BY <1>2, <1>3, <1>4, Zenon DEF s, IsAt

(* What a run is accounted for by, it keeps where the store keeps its segments. *)
LEMMA AccountsKeep ==
    ASSUME NEW files, NEW more, NEW r,
           \A a, h, s : Has(files, a, h, s) => Has(more, a, h, s),
           Accounted(files, r)
    PROVE  Accounted(more, r)
  BY Zenon DEF Accounted

(* A run goes on and the store stays as it is. *)
LEMMA Quiet ==
    ASSUME NEW files, NEW runs, NEW twice, NEW e \in Slots, NEW s,
           NoneIsNoRun, StoreInv(files, runs, twice),
           runs[e] # None, runs[e].pc # "write",
           RunOK(s), SameRun(runs[e], s), s.pc \notin {"write", "rename"},
           Accounted(files, s),
           NEW next, Moves(runs, e, s, next)
    PROVE  StoreInv(files, next, twice)
  <1>0. RunsOK(runs) /\ Alone(runs, twice)
    BY DEF StoreInv
  <1>1. /\ RunsOK(next) /\ Alone(next, twice) /\ next[e] = s /\ s # None
        /\ \A f \in Slots : f # e => next[f] = runs[f]
    BY <1>0, OneMoves
  <1>2. Writers(files, next, twice)
    BY <1>1, Zenon DEF StoreInv, Writers
  <1>3. Sound(files, next, twice)
    <2>1. \A f \in Slots : next[f].pc \in {"write", "rename"} => f # e
      BY <1>1, Zenon
    <2>2. QED
      BY <1>1, <2>1, Zenon DEF StoreInv, Sound
  <1>4. AllAccounted(files, next)
    BY <1>1, Zenon DEF StoreInv, AllAccounted
  <1>5. QED
    BY <1>1, <1>2, <1>3, <1>4, Zenon DEF StoreInv

(* A file opened for writing under its .part name. *)
LEMMA Opens ==
    ASSUME NEW files, NEW runs, NEW twice, NEW e \in Slots,
           NoneIsNoRun, StoreInv(files, runs, twice),
           runs[e] # None, runs[e].pc = "fetch",
           NEW next, Moves(runs, e, [runs[e] EXCEPT !.pc = "write"], next),
           NEW more, more = Opened(files, PartOf(runs[e]), e, runs[e].gen)
    PROVE  StoreInv(more, next, twice)
  <1> DEFINE part == PartOf(runs[e])
             s == [runs[e] EXCEPT !.pc = "write"]
             before == IF part \in DOMAIN files THEN files[part].writing ELSE {}
             file == [gen |-> runs[e].gen, torn |-> FALSE, writing |-> {e} \cup before]
  <1>0. /\ RunsOK(runs) /\ Alone(runs, twice) /\ Shaped(runs[e])
        /\ runs[e].outcome # "Complete"
    <2>1. RunsOK(runs) /\ Alone(runs, twice) /\ RunOK(runs[e])
      BY DEF StoreInv, RunsOK
    <2>2. QED
      BY <2>1, Zenon DEF RunOK
  <1>1. /\ RunOK(s) /\ SameRun(runs[e], s) /\ s.pc = "write" /\ PartOf(s) = part
        /\ s.missing = runs[e].missing /\ s.planned = runs[e].planned
        /\ s.failed = runs[e].failed
    <2>1. IsAt(runs[e], "write", s)
      BY <1>0, PcMoves
    <2>2. QED
      BY <2>1, Zenon DEF IsAt
  <1>b. Moves(runs, e, s, next)
    OBVIOUS
  <1> HIDE DEF s
  <1>2. /\ RunsOK(next) /\ Alone(next, twice) /\ next[e] = s /\ s # None
        /\ \A f \in Slots : f # e => next[f] = runs[f]
    BY <1>0, <1>1, <1>b, OneMoves
  <1>3. part.area = runs[e].area /\ part.kind = "part"
    BY Names, Zenon
  <1>4. /\ DOMAIN more = DOMAIN files \cup {part}
        /\ more[part] = file
        /\ \A n \in DOMAIN files : n # part => more[n] = files[n]
    BY Zenon DEF Opened, With
  <1>a. \A f \in before : part \in DOMAIN files /\ f \in files[part].writing
    OBVIOUS
  <1> HIDE DEF part, before
  <1>5. /\ ~more[part].torn /\ DOMAIN more[part] = {"gen", "torn", "writing"}
        /\ \A f \in more[part].writing :
               f = e \/ (part \in DOMAIN files /\ f \in files[part].writing)
    <2>1. /\ file.torn = FALSE /\ file.writing = {e} \cup before
          /\ DOMAIN file = {"gen", "torn", "writing"}
      OBVIOUS
    <2> HIDE DEF file
    <2>2. QED
      BY <2>1, <1>4, <1>a, Zenon
  <1>6. FilesOK(more)
    <2>1. more[part].torn \in BOOLEAN
      <3>1. file.torn = FALSE
        OBVIOUS
      <3> HIDE DEF file
      <3>2. QED
        BY <1>4, <3>1, Zenon
    <2> HIDE DEF file
    <2>2. QED
      BY <1>4, <1>5, <2>1, Zenon DEF StoreInv, FilesOK
  <1>7. Writers(more, next, twice)
    <2>1. ASSUME NEW n \in DOMAIN more, NEW f \in more[n].writing
          PROVE  /\ f \in Slots /\ next[f] # None /\ next[f].pc = "write" /\ next[f].area = n.area
                 /\ n.area \notin twice => n = PartOf(next[f])
      <3>1. CASE n = part /\ f = e
        BY <3>1, <1>1, <1>2, <1>3, Zenon DEF SameRun
      <3>2. CASE ~(n = part /\ f = e)
        <4>1. n \in DOMAIN files /\ f \in files[n].writing
          BY <2>1, <3>2, <1>4, <1>5, Zenon
        <4>2. /\ f \in Slots /\ runs[f] # None /\ runs[f].pc = "write" /\ runs[f].area = n.area
              /\ n.area \notin twice => n = PartOf(runs[f])
          BY <4>1, Zenon DEF StoreInv, Writers
        <4>3. f # e
          BY <4>2, Zenon
        <4>4. QED
          BY <4>2, <4>3, <1>2, Zenon
      <3>3. QED
        BY <3>1, <3>2
    <2>2. QED
      BY <2>1, Zenon DEF Writers
  <1>8. Sound(more, next, twice)
    <2>1. ASSUME NEW n \in DOMAIN more, n.area \notin twice, n # part,
                 \/ n.kind = "pmtiles"
                 \/ \E f \in Slots : /\ next[f] # None /\ next[f].pc \in {"write", "rename"}
                                     /\ n = PartOf(next[f])
          PROVE  ~more[n].torn
      BY <2>1, <1>1, <1>2, <1>4, Zenon DEF StoreInv, Sound
    <2>2. QED
      BY <2>1, <1>5, Zenon DEF Sound
  <1>9. AllAccounted(more, next)
    <2>1. \A a, h, x : Has(files, a, h, x) => Has(more, a, h, x)
      BY <1>4, Zenon DEF Has
    <2>2. Accounted(files, s)
      BY <1>1, Zenon DEF StoreInv, AllAccounted, Accounted, SameRun
    <2>3. \A f \in Slots : next[f] # None => Accounted(files, next[f])
      BY <1>2, <2>2, Zenon DEF StoreInv, AllAccounted
    <2>4. QED
      BY <2>1, <2>3, AccountsKeep, Zenon DEF AllAccounted
  <1>10. QED
    BY <1>2, <1>6, <1>7, <1>8, <1>9, Zenon DEF StoreInv

(* The files after e's write has ended. *)
ClosedBy(files, e, torn, more) ==
    more = [n \in DOMAIN files |->
               IF e \in files[n].writing
               THEN [files[n] EXCEPT !.writing = @ \ {e}, !.torn = @ \/ torn]
               ELSE files[n]]

LEMMA ClosedFiles ==
    ASSUME NEW files, NEW e, NEW torn, NEW more,
           FilesOK(files), ClosedBy(files, e, torn, more)
    PROVE  /\ DOMAIN more = DOMAIN files /\ FilesOK(more)
           /\ \A n \in DOMAIN files :
                /\ e \notin more[n].writing
                /\ \A f \in more[n].writing : f \in files[n].writing
                /\ more[n].torn => files[n].torn \/ (torn /\ e \in files[n].writing)
  <1>1. DOMAIN more = DOMAIN files
    BY Zenon DEF ClosedBy
  <1>2. ASSUME NEW n \in DOMAIN files
        PROVE  /\ DOMAIN more[n] = {"gen", "torn", "writing"} /\ more[n].torn \in BOOLEAN
               /\ e \notin more[n].writing
               /\ \A f \in more[n].writing : f \in files[n].writing
               /\ more[n].torn => files[n].torn \/ (torn /\ e \in files[n].writing)
    <2>1. DOMAIN files[n] = {"gen", "torn", "writing"} /\ files[n].torn \in BOOLEAN
      BY DEF FilesOK
    <2>2. CASE e \notin files[n].writing
      <3>1. more[n] = files[n]
        BY <2>2, Zenon DEF ClosedBy
      <3>2. QED
        BY <2>1, <2>2, <3>1, Zenon
    <2>3. CASE e \in files[n].writing
      <3> DEFINE w == files[n].writing \ {e}
                 t == files[n].torn \/ torn
                 f == [files[n] EXCEPT !.writing = w, !.torn = t]
      <3>1. more[n] = f
        BY <2>3, Zenon DEF ClosedBy
      <3>2. t \in BOOLEAN
        OBVIOUS
      <3>3. e \notin w /\ \A g \in w : g \in files[n].writing
        OBVIOUS
      <3>4. t => files[n].torn \/ (torn /\ e \in files[n].writing)
        BY <2>3
      <3> HIDE DEF w, t
      <3>5. DOMAIN f = {"gen", "torn", "writing"} /\ f.writing = w /\ f.torn = t
        BY <2>1, Zenon
      <3> HIDE DEF f
      <3>6. QED
        BY <3>1, <3>2, <3>3, <3>4, <3>5, Zenon
    <2>4. QED
      BY <2>2, <2>3
  <1>3. QED
    BY <1>1, <1>2, Zenon DEF FilesOK

(* A write ends, well or not, and the run goes on, if it did well, to the rename. *)
LEMMA Closes ==
    ASSUME NEW files, NEW runs, NEW twice, NEW e \in Slots, NEW s, NEW next,
           NEW torn, NEW more,
           NoneIsNoRun, StoreInv(files, runs, twice),
           runs[e] # None, runs[e].pc = "write",
           RunOK(s), SameRun(runs[e], s), Moves(runs, e, s, next),
           ClosedBy(files, e, torn, more),
           \/ s.pc \notin {"write", "rename"}
           \/ ~torn /\ s.pc # "write" /\ PartOf(s) = PartOf(runs[e]),
           Accounted(files, s)
    PROVE  StoreInv(more, next, twice)
  <1>0. RunsOK(runs) /\ Alone(runs, twice) /\ FilesOK(files)
    BY DEF StoreInv
  <1>1. /\ RunsOK(next) /\ Alone(next, twice) /\ next[e] = s /\ s # None
        /\ \A f \in Slots : f # e => next[f] = runs[f]
    BY <1>0, OneMoves
  <1>2. /\ DOMAIN more = DOMAIN files /\ FilesOK(more)
        /\ \A n \in DOMAIN files :
              /\ e \notin more[n].writing
              /\ \A f \in more[n].writing : f \in files[n].writing
              /\ more[n].torn => files[n].torn \/ (torn /\ e \in files[n].writing)
    BY <1>0, ClosedFiles
  <1>3. PartOf(runs[e]).kind = "part"
    BY Names, Zenon
  <1>4. Writers(more, next, twice)
    <2>1. ASSUME NEW n \in DOMAIN more, NEW f \in more[n].writing
          PROVE  /\ f \in Slots /\ next[f] # None /\ next[f].pc = "write" /\ next[f].area = n.area
                 /\ n.area \notin twice => n = PartOf(next[f])
      <3>1. n \in DOMAIN files /\ f \in files[n].writing /\ f # e
        BY <2>1, <1>2, Zenon
      <3>2. /\ f \in Slots /\ runs[f] # None /\ runs[f].pc = "write" /\ runs[f].area = n.area
            /\ n.area \notin twice => n = PartOf(runs[f])
        BY <3>1, Zenon DEF StoreInv, Writers
      <3>3. QED
        BY <3>1, <3>2, <1>1, Zenon
    <2>2. QED
      BY <2>1, Zenon DEF Writers
  <1>5. Sound(more, next, twice)
    <2>1. ASSUME NEW n \in DOMAIN more, n.area \notin twice,
                 \/ n.kind = "pmtiles"
                 \/ \E f \in Slots : /\ next[f] # None /\ next[f].pc \in {"write", "rename"}
                                     /\ n = PartOf(next[f])
          PROVE  ~more[n].torn
      <3>0. n \in DOMAIN files
        BY <1>2
      <3>1. CASE n.kind = "pmtiles"
        <4>1. ~files[n].torn
          BY <3>0, <3>1, <2>1, Zenon DEF StoreInv, Sound
        <4>2. e \notin files[n].writing
          BY <3>0, <3>1, <2>1, <1>3, Zenon DEF StoreInv, Writers
        <4>3. QED
          BY <3>0, <4>1, <4>2, <1>2, Zenon
      <3>2. ASSUME NEW f \in Slots, next[f] # None, next[f].pc \in {"write", "rename"},
                   n = PartOf(next[f])
            PROVE  ~more[n].torn
        <4>1. CASE f = e
          <5>1. ~torn /\ n = PartOf(runs[e])
            BY <3>2, <4>1, <1>1, Zenon
          <5>2. ~files[n].torn
            BY <3>0, <5>1, <2>1, Zenon DEF StoreInv, Sound
          <5>3. QED
            BY <3>0, <5>1, <5>2, <1>2, Zenon
        <4>2. CASE f # e
          <5>1. next[f] = runs[f]
            BY <4>2, <1>1, Zenon
          <5>2. ~files[n].torn
            BY <3>0, <3>2, <5>1, <2>1, Zenon DEF StoreInv, Sound
          <5>3. n.area = runs[f].area
            BY <3>2, <5>1, Names, Zenon
          <5>4. e \in files[n].writing => runs[e].area = n.area
            BY <3>0, Zenon DEF StoreInv, Writers
          <5>5. e \notin files[n].writing
            BY <5>1, <5>3, <5>4, <4>2, <3>2, <2>1, Zenon DEF StoreInv, Alone
          <5>6. QED
            BY <3>0, <5>2, <5>5, <1>2, Zenon
        <4>3. QED
          BY <4>1, <4>2
      <3>3. QED
        BY <2>1, <3>1, <3>2, Zenon
    <2>2. QED
      BY <2>1, Zenon DEF Sound
  <1>6. AllAccounted(more, next)
    <2>1. \A a, h, x : Has(files, a, h, x) => Has(more, a, h, x)
      BY <1>2, Zenon DEF Has
    <2>2. \A f \in Slots : next[f] # None => Accounted(files, next[f])
      BY <1>1, Zenon DEF StoreInv, AllAccounted
    <2>3. QED
      BY <2>1, <2>2, AccountsKeep, Zenon DEF AllAccounted
  <1>7. QED
    BY <1>1, <1>2, <1>4, <1>5, <1>6, Zenon DEF StoreInv

(* A .part that goes: nothing published depends on it. *)
LEMMA PartGoes ==
    ASSUME NEW files, NEW runs, NEW twice, NEW n, NEW fewer,
           StoreInv(files, runs, twice),
           n.kind = "part", fewer = Without(files, n)
    PROVE  /\ StoreInv(fewer, runs, twice)
           /\ \A a, h, x : Has(files, a, h, x) => Has(fewer, a, h, x)
  <1>1. /\ DOMAIN fewer = DOMAIN files \ {n}
        /\ \A m \in DOMAIN fewer : m \in DOMAIN files /\ fewer[m] = files[m]
    BY Zenon DEF Without
  <1>2. \A a, h, x : Has(files, a, h, x) => Has(fewer, a, h, x)
    <2>1. "part" # "pmtiles"
      OBVIOUS
    <2>2. \A m \in DOMAIN files : m.kind = "pmtiles" => m \in DOMAIN fewer
      BY <1>1, <2>1, Zenon
    <2>3. QED
      BY <2>2, Zenon DEF Has
  <1>3. FilesOK(fewer) /\ Writers(fewer, runs, twice) /\ Sound(fewer, runs, twice)
    BY <1>1, Zenon DEF StoreInv, FilesOK, Writers, Sound
  <1>4. AllAccounted(fewer, runs)
    BY <1>2, AccountsKeep, Zenon DEF StoreInv, AllAccounted
  <1>5. QED
    BY <1>2, <1>3, <1>4, Zenon DEF StoreInv

(* The rename publishes what the run has written. *)
LEMMA Renames ==
    ASSUME NEW files, NEW runs, NEW twice, NEW e \in Slots, NEW s, NEW next, NEW more,
           NoneIsNoRun, StoreInv(files, runs, twice),
           runs[e] # None, runs[e].pc = "rename", PartOf(runs[e]) \in DOMAIN files,
           RunOK(s), SameRun(runs[e], s), Moves(runs, e, s, next),
           s.pc \notin {"write", "rename"}, s.planned = runs[e].planned,
           s.failed = runs[e].failed, s.missing = Past(runs[e]),
           more = With(Without(files, PartOf(runs[e])), Published(PartOf(runs[e])),
                       files[PartOf(runs[e])])
    PROVE  StoreInv(more, next, twice)
  <1> DEFINE part == PartOf(runs[e])
             pub == Published(part)
  <1>0. RunsOK(runs) /\ Alone(runs, twice) /\ FilesOK(files) /\ RunOK(runs[e])
    BY DEF StoreInv, RunsOK
  <1>1. /\ RunsOK(next) /\ Alone(next, twice) /\ next[e] = s /\ s # None
        /\ \A f \in Slots : f # e => next[f] = runs[f]
    BY <1>0, OneMoves
  <1>2. /\ DOMAIN more = (DOMAIN files \ {part}) \cup {pub}
        /\ more[pub] = files[part]
        /\ \A n \in DOMAIN files \ {part} : n # pub => more[n] = files[n]
    BY Zenon DEF With, Without
  <1>3. /\ part.area = runs[e].area /\ part.kind = "part"
        /\ pub.area = runs[e].area /\ pub.kind = "pmtiles"
        /\ pub.half = runs[e].half /\ pub.seg = Current(runs[e])
    BY Names, Zenon
  <1> HIDE DEF part, pub
  <1>4. FilesOK(more)
    BY <1>0, <1>2, Zenon DEF FilesOK, part
  <1>5. Writers(more, next, twice)
    <2>1. ASSUME NEW n \in DOMAIN more, NEW f \in more[n].writing
          PROVE  /\ f \in Slots /\ next[f] # None /\ next[f].pc = "write" /\ next[f].area = n.area
                 /\ n.area \notin twice => n = PartOf(next[f])
      <3>1. CASE n = pub
        <4>1. f \in files[part].writing
          BY <2>1, <3>1, <1>2, Zenon
        <4>2. /\ f \in Slots /\ runs[f] # None /\ runs[f].pc = "write" /\ runs[f].area = part.area
          BY <4>1, Zenon DEF StoreInv, Writers, part
        <4>3. f # e
          BY <4>2, Zenon
        <4>4. n.area \in twice
          BY <3>1, <4>2, <4>3, <1>3, Zenon DEF StoreInv, Alone
        <4>5. QED
          BY <3>1, <4>2, <4>3, <4>4, <1>1, <1>3, Zenon
      <3>2. CASE n # pub
        <4>1. n \in DOMAIN files /\ f \in files[n].writing
          BY <2>1, <3>2, <1>2, Zenon
        <4>2. /\ f \in Slots /\ runs[f] # None /\ runs[f].pc = "write" /\ runs[f].area = n.area
              /\ n.area \notin twice => n = PartOf(runs[f])
          BY <4>1, Zenon DEF StoreInv, Writers
        <4>3. f # e
          BY <4>2, Zenon
        <4>4. QED
          BY <4>2, <4>3, <1>1, Zenon
      <3>3. QED
        BY <3>1, <3>2
    <2>2. QED
      BY <2>1, Zenon DEF Writers
  <1>6. Sound(more, next, twice)
    <2>1. ASSUME NEW n \in DOMAIN more, n.area \notin twice,
                 \/ n.kind = "pmtiles"
                 \/ \E f \in Slots : /\ next[f] # None /\ next[f].pc \in {"write", "rename"}
                                     /\ n = PartOf(next[f])
          PROVE  ~more[n].torn
      <3>1. CASE n = pub
        <4>1. part.area \notin twice
          BY <2>1, <3>1, <1>3, Zenon
        <4>2. ~files[part].torn
          BY <4>1, Zenon DEF StoreInv, Sound, part
        <4>3. QED
          BY <3>1, <4>2, <1>2, Zenon
      <3>2. CASE n # pub
        <4>1. n \in DOMAIN files /\ more[n] = files[n]
          BY <3>2, <2>1, <1>2, Zenon
        <4>2. CASE n.kind = "pmtiles"
          BY <4>1, <4>2, <2>1, Zenon DEF StoreInv, Sound
        <4>3. ASSUME NEW f \in Slots, next[f] # None, next[f].pc \in {"write", "rename"},
                     n = PartOf(next[f])
              PROVE  ~more[n].torn
          <5>1. f # e
            BY <4>3, <1>1, Zenon
          <5>2. next[f] = runs[f]
            BY <5>1, <1>1, Zenon
          <5>3. QED
            BY <4>1, <4>3, <5>2, <2>1, Zenon DEF StoreInv, Sound
        <4>4. QED
          BY <2>1, <4>2, <4>3, Zenon
      <3>3. QED
        BY <3>1, <3>2
    <2>2. QED
      BY <2>1, Zenon DEF Sound
  <1>7. \A a, h, x : Has(files, a, h, x) => Has(more, a, h, x)
    <2>1. "part" # "pmtiles"
      OBVIOUS
    <2>2. \A m \in DOMAIN files : m.kind = "pmtiles" => m \in DOMAIN more
      BY <2>1, <1>2, <1>3, Zenon
    <2>3. QED
      BY <2>2, Zenon DEF Has
  <1>8. Accounted(more, s)
    <2>1. Has(more, runs[e].area, runs[e].half, Current(runs[e]))
      BY <1>2, <1>3, Zenon DEF Has
    <2>2. SUFFICES ASSUME ~runs[e].failed, ~runs[e].swept,
                          NEW h \in runs[e].planned, NEW x \in DOMAIN Cuts[runs[e].gen][h]
                   PROVE  Has(more, runs[e].area, h, x) \/ x \in Past(runs[e])[h]
      BY Zenon DEF Accounted, SameRun
    <2>3. h \in Halves /\ DOMAIN runs[e].missing = Halves
      BY <1>0, Zenon DEF RunOK, Shaped
    <2>4. Has(files, runs[e].area, h, x) \/ x \in runs[e].missing[h]
      BY <2>2, Zenon DEF StoreInv, AllAccounted, Accounted
    <2>5. CASE h = runs[e].half /\ x = Current(runs[e])
      BY <2>5, <2>1, Zenon
    <2>6. CASE ~(h = runs[e].half /\ x = Current(runs[e])) /\ x \in runs[e].missing[h]
      BY <2>6, <2>3, Zenon DEF Past
    <2>7. QED
      BY <2>4, <2>5, <2>6, <1>7, Zenon
  <1>9. AllAccounted(more, next)
    <2>1. \A f \in Slots : f # e /\ next[f] # None => Accounted(files, next[f])
      BY <1>1, Zenon DEF StoreInv, AllAccounted
    <2>2. QED
      BY <1>1, <1>7, <1>8, <2>1, AccountsKeep, Zenon DEF AllAccounted
  <1>10. QED
    BY <1>1, <1>4, <1>5, <1>6, <1>9, Zenon DEF StoreInv

(* A run under which a file is removed. *)
LEMMA SweptMoves ==
    ASSUME NEW r, RunOK(r)
    PROVE  LET s == [r EXCEPT !.swept = TRUE]
           IN  /\ RunOK(s) /\ PartOf(s) = PartOf(r) /\ s.swept
               /\ s.area = r.area /\ s.pc = r.pc
  <1> DEFINE s == [r EXCEPT !.swept = TRUE]
  <1>1. DOMAIN r = Fields
    BY DEF RunOK, Shaped
  <1>2. /\ DOMAIN s = Fields /\ s.pc = r.pc /\ s.half = r.half /\ s.missing = r.missing
        /\ s.planned = r.planned /\ s.failed = r.failed /\ s.outcome = r.outcome
        /\ s.area = r.area /\ s.swept
    BY <1>1, Zenon DEF Fields
  <1> HIDE DEF s
  <1>3. RunOK(s)
    BY <1>2, Zenon DEF RunOK, Shaped
  <1>4. PartOf(s) = PartOf(r)
    BY <1>2, Zenon DEF PartOf, Current
  <1>5. QED
    BY <1>2, <1>3, <1>4, Zenon DEF s

(* The runs of n's area are told that it was removed. *)
SweptOf(runs, n, next) ==
    next = [f \in Slots |-> IF runs[f] # None /\ runs[f].area = n.area
                            THEN [runs[f] EXCEPT !.swept = TRUE] ELSE runs[f]]

(* A removal takes a file, and every run of its area is told. *)
LEMMA Sweeps ==
    ASSUME NEW files, NEW runs, NEW twice, NEW n, NEW next, NEW fewer,
           NoneIsNoRun, StoreInv(files, runs, twice),
           fewer = Without(files, n), SweptOf(runs, n, next)
    PROVE  StoreInv(fewer, next, twice)
  <1>1. /\ DOMAIN fewer = DOMAIN files \ {n}
        /\ \A m \in DOMAIN fewer : m \in DOMAIN files /\ fewer[m] = files[m]
    BY Zenon DEF Without
  <1>2. ASSUME NEW f \in Slots
        PROVE  /\ next[f] # None <=> runs[f] # None
               /\ next[f] # None => /\ RunOK(next[f]) /\ PartOf(next[f]) = PartOf(runs[f])
                                    /\ next[f].area = runs[f].area /\ next[f].pc = runs[f].pc
                                    /\ next[f] = runs[f] \/ next[f].swept
                                    /\ runs[f].area = n.area => next[f].swept
    <2>1. CASE runs[f] # None /\ runs[f].area = n.area
      <3>1. next[f] = [runs[f] EXCEPT !.swept = TRUE]
        BY <2>1, Zenon DEF SweptOf
      <3>2. RunOK(runs[f])
        BY <2>1, Zenon DEF StoreInv, RunsOK
      <3>3. /\ RunOK(next[f]) /\ PartOf(next[f]) = PartOf(runs[f]) /\ next[f].swept
            /\ next[f].area = runs[f].area /\ next[f].pc = runs[f].pc
        BY <3>1, <3>2, SweptMoves, Zenon
      <3>4. next[f] # None
        BY <3>3, Zenon DEF RunOK, Shaped, NoneIsNoRun
      <3>5. QED
        BY <2>1, <3>3, <3>4, Zenon
    <2>2. CASE ~(runs[f] # None /\ runs[f].area = n.area)
      <3>1. next[f] = runs[f]
        BY <2>2, Zenon DEF SweptOf
      <3>2. QED
        BY <2>2, <3>1, Zenon DEF StoreInv, RunsOK
    <2>3. QED
      BY <2>1, <2>2
  <1>3. DOMAIN next = Slots
    BY Zenon DEF SweptOf
  <1>4. RunsOK(next) /\ Alone(next, twice)
    <2>1. RunsOK(next)
      BY <1>2, <1>3, Zenon DEF RunsOK
    <2>2. ASSUME NEW e \in Slots, NEW f \in Slots, next[e] # None, next[f] # None,
                 next[e].area = next[f].area, next[e].area \notin twice
          PROVE  e = f
      <3>1. /\ runs[e] # None /\ next[e].area = runs[e].area
            /\ runs[f] # None /\ next[f].area = runs[f].area
        BY <2>2, <1>2, Zenon
      <3>2. runs[e].area = runs[f].area /\ runs[e].area \notin twice
        BY <2>2, <3>1, Zenon
      <3>3. QED
        BY <3>1, <3>2, Zenon DEF StoreInv, Alone
    <2>3. QED
      BY <2>1, <2>2, Zenon DEF Alone
  <1>5. FilesOK(fewer) /\ Writers(fewer, next, twice)
    <2>1. FilesOK(fewer)
      BY <1>1, Zenon DEF StoreInv, FilesOK
    <2>2. ASSUME NEW m \in DOMAIN fewer, NEW f \in fewer[m].writing
          PROVE  /\ f \in Slots /\ next[f] # None /\ next[f].pc = "write" /\ next[f].area = m.area
                 /\ m.area \notin twice => m = PartOf(next[f])
      <3>1. m \in DOMAIN files /\ f \in files[m].writing
        BY <2>2, <1>1, Zenon
      <3>2. /\ f \in Slots /\ runs[f] # None /\ runs[f].pc = "write" /\ runs[f].area = m.area
            /\ m.area \notin twice => m = PartOf(runs[f])
        BY <3>1, Zenon DEF StoreInv, Writers
      <3>3. QED
        BY <3>2, <1>2, Zenon
    <2>3. QED
      BY <2>1, <2>2, Zenon DEF Writers
  <1>6. Sound(fewer, next, twice)
    <2>1. ASSUME NEW m \in DOMAIN fewer, m.area \notin twice,
                 \/ m.kind = "pmtiles"
                 \/ \E f \in Slots : /\ next[f] # None /\ next[f].pc \in {"write", "rename"}
                                     /\ m = PartOf(next[f])
          PROVE  ~fewer[m].torn
      <3>1. m \in DOMAIN files /\ fewer[m] = files[m]
        BY <2>1, <1>1, Zenon
      <3>2. \A f \in Slots : next[f] # None =>
                runs[f] # None /\ PartOf(next[f]) = PartOf(runs[f]) /\ next[f].pc = runs[f].pc
        BY <1>2, Zenon
      <3>3. \/ m.kind = "pmtiles"
            \/ \E f \in Slots : /\ runs[f] # None /\ runs[f].pc \in {"write", "rename"}
                                /\ m = PartOf(runs[f])
        BY <2>1, <3>2, Zenon
      <3>4. QED
        BY <2>1, <3>1, <3>3, Zenon DEF StoreInv, Sound
    <2>2. QED
      BY <2>1, Zenon DEF Sound
  <1>7. AllAccounted(fewer, next)
    <2>1. SUFFICES ASSUME NEW f \in Slots, next[f] # None, ~next[f].swept
                   PROVE  Accounted(fewer, next[f])
      BY Zenon DEF AllAccounted, Accounted
    <2>2. next[f] = runs[f] /\ runs[f].area # n.area
      BY <2>1, <1>2, Zenon
    <2>3. Accounted(files, runs[f])
      BY <2>1, <2>2, Zenon DEF StoreInv, AllAccounted
    <2>4. \A h, x : Has(files, runs[f].area, h, x) => Has(fewer, runs[f].area, h, x)
      BY <2>2, <1>1, Zenon DEF Has
    <2>5. QED
      BY <2>2, <2>3, <2>4, Zenon DEF Accounted
  <1>8. QED
    BY <1>4, <1>5, <1>6, <1>7, Zenon DEF StoreInv

(* A run keeps its account where it keeps what it planned. *)
LEMMA SameAccount ==
    ASSUME NEW files, NEW r, NEW s, Accounted(files, r), SameRun(r, s),
           s.planned = r.planned, s.missing = r.missing, r.failed => s.failed
    PROVE  Accounted(files, s)
  BY Zenon DEF Accounted, SameRun

(* Planning a half adds what the store lists of it and what is then missing. *)
LEMMA PlannedAccount ==
    ASSUME NEW r, NEW h \in Halves, Shaped(r), r.half = "Basemap", Accounted(disk, r)
    PROVE  Accounted(disk, Planned(r, h, Listed(r.area, h)))
  <1> DEFINE s == Planned(r, h, Listed(r.area, h))
  <1>1. \A x \in Listed(r.area, h) : Has(disk, r.area, h, x)
    BY Zenon DEF Listed, Has
  <1>2. /\ SameRun(r, s) /\ s.failed = r.failed /\ s.planned = r.planned \cup {h}
        /\ s.missing[h] = DOMAIN Cuts[r.gen][h] \ Listed(r.area, h)
        /\ \A g \in Halves : g # h => s.missing[g] = r.missing[g]
    <2>1. Plans(r, h, Listed(r.area, h), s)
      BY PlannedOK
    <2>2. QED
      BY <2>1, Zenon DEF Plans
  <1>3. r.planned \subseteq Halves
    BY DEF Shaped
  <1> HIDE DEF s
  <1>4. SUFFICES ASSUME ~r.failed, ~r.swept, NEW g \in r.planned \cup {h},
                        NEW x \in DOMAIN Cuts[r.gen][g]
                 PROVE  Has(disk, r.area, g, x) \/ x \in s.missing[g]
    BY <1>2, Zenon DEF Accounted, SameRun, s
  <1>5. CASE g = h
    BY <1>1, <1>2, <1>4, <1>5, Zenon
  <1>6. CASE g # h
    BY <1>2, <1>3, <1>4, <1>6, Zenon DEF Accounted
  <1>7. QED
    BY <1>5, <1>6

-----------------------------------------------------------------------------
(* The steps. *)

LEMMA StepFacts ==
    ASSUME NEW e \in Slots, NEW pc, StoreInv(disk, engines, doubled), At(e, pc),
           pc # "ended"
    PROVE  /\ engines[e] # None /\ engines[e].pc = pc
           /\ RunOK(engines[e]) /\ Shaped(engines[e]) /\ engines[e].outcome # "Complete"
           /\ Accounted(disk, engines[e])
  BY Zenon DEF StoreInv, RunsOK, RunOK, AllAccounted, At

LEMMA PrepareBasemapStep ==
    ASSUME NEW e \in Slots, NoneIsNoRun, StoreInv(disk, engines, doubled), PrepareBasemap(e)
    PROVE  StoreInv(disk, engines', doubled)
  <1> DEFINE r == engines[e]
             q == Planned(r, "Basemap", Listed(r.area, "Basemap"))
             s == IF q.terrain THEN [q EXCEPT !.pc = "terrain"] ELSE Building(q)
  <1>1. At(e, "basemap") /\ Moves(engines, e, s, engines')
    BY DEF PrepareBasemap, Becomes, Moves
  <1>2. /\ r # None /\ r.pc = "basemap" /\ RunOK(r) /\ Shaped(r) /\ r.outcome # "Complete"
        /\ Accounted(disk, r)
    BY <1>1, StepFacts, Zenon
  <1>3. r.half = "Basemap" /\ "Basemap" \in Halves
    BY <1>2, Zenon DEF RunOK, Halves
  <1>4. /\ Shaped(q) /\ SameRun(r, q) /\ q.half = "Basemap" /\ q.outcome # "Complete"
        /\ Accounted(disk, q)
    <2>1. Plans(r, "Basemap", Listed(r.area, "Basemap"), q) /\ Accounted(disk, q)
      BY <1>2, <1>3, PlannedOK, PlannedAccount
    <2> HIDE DEF q
    <2>2. QED
      BY <1>2, <1>3, <2>1, Zenon DEF Plans
  <1> HIDE DEF q
  <1>5. RunOK(s) /\ SameRun(q, s) /\ s.pc \notin {"write", "rename"} /\ Accounted(disk, s)
    <2>1. CASE q.terrain
      <3>1. s = [q EXCEPT !.pc = "terrain"]
        BY <2>1
      <3>2. IsAt(q, "terrain", s)
        BY <3>1, <1>4, PcMoves
      <3> HIDE DEF s
      <3>3. QED
        BY <3>2, <1>4, SameAccount, Zenon DEF IsAt
    <2>2. CASE ~q.terrain
      <3>1. s = Building(q)
        BY <2>2
      <3>2. /\ RunOK(s) /\ SameRun(q, s) /\ s.pc \in {"fetch", "ended"}
            /\ s.missing = q.missing /\ s.planned = q.planned /\ s.failed = q.failed
        BY <3>1, <1>4, BuildingOK, Zenon
      <3> HIDE DEF s
      <3>3. Accounted(disk, s)
        BY <3>2, <1>4, SameAccount, Zenon
      <3>4. QED
        BY <3>2, <3>3, Zenon
    <2>3. QED
      BY <2>1, <2>2
  <1> HIDE DEF s
  <1>6. SameRun(r, s) /\ r.pc # "write"
    BY <1>2, <1>4, <1>5, Zenon DEF SameRun
  <1>7. QED
    BY <1>1, <1>2, <1>5, <1>6, Quiet

LEMMA BasemapWillNotPlanStep ==
    ASSUME NEW e \in Slots, NoneIsNoRun, StoreInv(disk, engines, doubled), BasemapWillNotPlan(e)
    PROVE  StoreInv(disk, engines', doubled)
  <1> DEFINE r == engines[e]
             s == [r EXCEPT !.pc = "ended", !.failed = TRUE, !.outcome = "Failed"]
  <1>1. At(e, "basemap") /\ Moves(engines, e, s, engines')
    BY DEF BasemapWillNotPlan, Becomes, Moves
  <1>2. r # None /\ r.pc = "basemap" /\ Shaped(r)
    BY <1>1, StepFacts, Zenon
  <1>3. DOMAIN r = Fields
    BY <1>2, Zenon DEF Shaped
  <1>4. /\ DOMAIN s = Fields /\ s.pc = "ended" /\ s.half = r.half /\ s.missing = r.missing
        /\ s.planned = r.planned /\ s.failed = TRUE /\ s.outcome = "Failed"
        /\ s.area = r.area /\ s.gen = r.gen /\ s.swept = r.swept
    BY <1>3, Zenon DEF Fields
  <1> HIDE DEF s
  <1>5. RunOK(s) /\ SameRun(r, s) /\ s.pc \notin {"write", "rename"} /\ r.pc # "write"
    BY <1>2, <1>4, Zenon DEF RunOK, Shaped, SameRun
  <1>6. Accounted(disk, s)
    BY <1>4, Zenon DEF Accounted
  <1>7. QED
    BY <1>1, <1>2, <1>5, <1>6, Quiet

LEMMA PrepareTerrainStep ==
    ASSUME NEW e \in Slots, NoneIsNoRun, StoreInv(disk, engines, doubled), PrepareTerrain(e)
    PROVE  StoreInv(disk, engines', doubled)
  <1> DEFINE r == engines[e]
             q == Planned(r, "Terrain", Listed(r.area, "Terrain"))
             s == Building(q)
  <1>1. At(e, "terrain") /\ Moves(engines, e, s, engines')
    BY DEF PrepareTerrain, Becomes, Moves
  <1>2. /\ r # None /\ r.pc = "terrain" /\ RunOK(r) /\ Shaped(r) /\ r.outcome # "Complete"
        /\ Accounted(disk, r)
    BY <1>1, StepFacts, Zenon
  <1>3. r.half = "Basemap" /\ "Terrain" \in Halves
    BY <1>2, Zenon DEF RunOK, Halves
  <1>4. Shaped(q) /\ SameRun(r, q) /\ q.outcome # "Complete" /\ Accounted(disk, q)
    <2>1. Plans(r, "Terrain", Listed(r.area, "Terrain"), q) /\ Accounted(disk, q)
      BY <1>2, <1>3, PlannedOK, PlannedAccount
    <2> HIDE DEF q
    <2>2. QED
      BY <1>2, <1>3, <2>1, Zenon DEF Plans
  <1> HIDE DEF q
  <1>5. /\ RunOK(s) /\ SameRun(q, s) /\ s.pc \in {"fetch", "ended"}
        /\ s.missing = q.missing /\ s.planned = q.planned /\ s.failed = q.failed
    BY <1>4, BuildingOK, Zenon
  <1> HIDE DEF s
  <1>6. Accounted(disk, s)
    BY <1>4, <1>5, SameAccount, Zenon
  <1>7. SameRun(r, s) /\ s.pc \notin {"write", "rename"} /\ r.pc # "write"
    BY <1>2, <1>4, <1>5, Zenon DEF SameRun
  <1>8. QED
    BY <1>1, <1>2, <1>5, <1>6, <1>7, Quiet

LEMMA TerrainWillNotPlanStep ==
    ASSUME NEW e \in Slots, NoneIsNoRun, StoreInv(disk, engines, doubled), TerrainWillNotPlan(e)
    PROVE  StoreInv(disk, engines', doubled)
  <1> DEFINE r == engines[e]
             q == [r EXCEPT !.failed = TRUE]
             s == Building(q)
  <1>1. At(e, "terrain") /\ Moves(engines, e, s, engines')
    BY DEF TerrainWillNotPlan, Becomes, Moves
  <1>2. r # None /\ r.pc = "terrain" /\ Shaped(r) /\ r.outcome # "Complete"
    BY <1>1, StepFacts, Zenon
  <1>3. DOMAIN r = Fields
    BY <1>2, Zenon DEF Shaped
  <1>4. /\ DOMAIN q = Fields /\ q.half = r.half /\ q.missing = r.missing
        /\ q.planned = r.planned /\ q.failed = TRUE /\ q.outcome = r.outcome
        /\ q.area = r.area /\ q.gen = r.gen /\ q.swept = r.swept
    BY <1>3, Zenon DEF Fields
  <1> HIDE DEF q
  <1>5. Shaped(q) /\ SameRun(r, q) /\ q.outcome # "Complete"
    BY <1>2, <1>4, Zenon DEF Shaped, SameRun
  <1>6. RunOK(s) /\ SameRun(q, s) /\ s.pc \in {"fetch", "ended"} /\ s.failed = q.failed
    BY <1>5, BuildingOK, Zenon
  <1> HIDE DEF s
  <1>7. Accounted(disk, s)
    BY <1>4, <1>6, Zenon DEF Accounted
  <1>8. SameRun(r, s) /\ s.pc \notin {"write", "rename"} /\ r.pc # "write"
    BY <1>2, <1>5, <1>6, Zenon DEF SameRun
  <1>9. QED
    BY <1>1, <1>2, <1>6, <1>7, <1>8, Quiet

LEMMA FetchStep ==
    ASSUME NEW e \in Slots, NoneIsNoRun, StoreInv(disk, engines, doubled), Fetch(e)
    PROVE  StoreInv(disk, engines', doubled)
  <1> DEFINE r == engines[e]
             spans == FirstRead(Needed(r))
             s == [r EXCEPT !.held = @ \cup spans, !.moved[r.half] = @ + Bytes(spans)]
  <1>1. At(e, "fetch") /\ Moves(engines, e, s, engines')
    BY DEF Fetch, Becomes, Moves
  <1>2. /\ r # None /\ r.pc = "fetch" /\ RunOK(r) /\ Shaped(r) /\ r.outcome # "Complete"
        /\ Accounted(disk, r)
    BY <1>1, StepFacts, Zenon
  <1>3. DOMAIN r = Fields
    BY <1>2, Zenon DEF Shaped
  <1> HIDE DEF spans
  <1>4. /\ DOMAIN s = Fields /\ s.pc = "fetch" /\ s.half = r.half /\ s.missing = r.missing
        /\ s.planned = r.planned /\ s.failed = r.failed /\ s.outcome = r.outcome
        /\ s.area = r.area /\ s.gen = r.gen /\ s.swept = r.swept
    BY <1>2, <1>3, Zenon DEF Fields
  <1> HIDE DEF s
  <1>5. RunOK(s) /\ SameRun(r, s)
    BY <1>2, <1>4, Zenon DEF RunOK, Shaped, SameRun
  <1>6. Accounted(disk, s)
    BY <1>2, <1>4, <1>5, SameAccount, Zenon
  <1>7. s.pc \notin {"write", "rename"} /\ r.pc # "write"
    BY <1>2, <1>4, Zenon
  <1>8. QED
    BY <1>1, <1>2, <1>5, <1>6, <1>7, Quiet

(* What a failed segment leaves of its run. *)
LEMMA FailedOK ==
    ASSUME NEW files, NEW r, Shaped(r), r.outcome # "Complete"
    PROVE  /\ RunOK(SegmentEnds(r, FALSE)) /\ SameRun(r, SegmentEnds(r, FALSE))
           /\ SegmentEnds(r, FALSE).pc \notin {"write", "rename"}
           /\ Accounted(files, SegmentEnds(r, FALSE))
  <1> DEFINE s == SegmentEnds(r, FALSE)
  <1>1. /\ RunOK(s) /\ SameRun(r, s) /\ s.pc \in {"fetch", "ended"}
        /\ s.failed = (r.failed \/ ~FALSE)
    BY SegmentEndsOK
  <1> HIDE DEF s
  <1>2. Accounted(files, s) /\ s.pc \notin {"write", "rename"}
    BY <1>1, Zenon DEF Accounted
  <1>3. QED
    BY <1>1, <1>2 DEF s

LEMMA SegmentFailsStep ==
    ASSUME NEW e \in Slots, NoneIsNoRun, StoreInv(disk, engines, doubled), SegmentFails(e)
    PROVE  StoreInv(disk, engines', doubled)
  <1> DEFINE r == engines[e]
             s == SegmentEnds(r, FALSE)
  <1>1. At(e, "fetch") /\ Moves(engines, e, s, engines')
    BY DEF SegmentFails, Becomes, Moves
  <1>2. r # None /\ r.pc = "fetch" /\ Shaped(r) /\ r.outcome # "Complete"
    BY <1>1, StepFacts, Zenon
  <1>3. RunOK(s) /\ SameRun(r, s) /\ s.pc \notin {"write", "rename"} /\ Accounted(disk, s)
    BY <1>2, FailedOK
  <1> HIDE DEF s
  <1>4. r.pc # "write"
    BY <1>2, Zenon
  <1>5. QED
    BY <1>1, <1>2, <1>3, <1>4, Quiet

LEMMA OpenPartStep ==
    ASSUME NEW e \in Slots, NoneIsNoRun, StoreInv(disk, engines, doubled), OpenPart(e)
    PROVE  StoreInv(disk', engines', doubled)
  <1>1. /\ At(e, "fetch") /\ Moves(engines, e, [engines[e] EXCEPT !.pc = "write"], engines')
        /\ disk' = Opened(disk, PartOf(engines[e]), e, engines[e].gen)
    BY DEF OpenPart, Becomes, Moves
  <1>2. engines[e] # None /\ engines[e].pc = "fetch"
    BY <1>1, StepFacts, Zenon
  <1>3. QED
    BY <1>1, <1>2, Opens

LEMMA WriteEndsStep ==
    ASSUME NEW e \in Slots, NoneIsNoRun, StoreInv(disk, engines, doubled), WriteEnds(e)
    PROVE  StoreInv(disk', engines', doubled)
  <1> DEFINE r == engines[e]
             s == [r EXCEPT !.pc = "rename"]
  <1>1. At(e, "write") /\ Moves(engines, e, s, engines') /\ ClosedBy(disk, e, FALSE, disk')
    BY DEF WriteEnds, Becomes, Moves, Closed, ClosedBy
  <1>2. /\ r # None /\ r.pc = "write" /\ Shaped(r) /\ r.outcome # "Complete"
        /\ Accounted(disk, r)
    BY <1>1, StepFacts, Zenon
  <1>3. IsAt(r, "rename", s)
    BY <1>2, PcMoves
  <1> HIDE DEF s
  <1>4. /\ RunOK(s) /\ SameRun(r, s) /\ s.pc # "write" /\ PartOf(s) = PartOf(r)
        /\ Accounted(disk, s)
    <2>1. RunOK(s) /\ SameRun(r, s) /\ s.pc = "rename" /\ PartOf(s) = PartOf(r)
      BY <1>3, Zenon DEF IsAt
    <2>2. Accounted(disk, s)
      BY <1>2, <1>3, SameAccount, Zenon DEF IsAt
    <2>3. QED
      BY <2>1, <2>2, Zenon
  <1>5. QED
    BY <1>1, <1>2, <1>4, Closes

LEMMA WriteFailsStep ==
    ASSUME NEW e \in Slots, NoneIsNoRun, StoreInv(disk, engines, doubled), WriteFails(e)
    PROVE  StoreInv(disk', engines', doubled)
  <1> DEFINE r == engines[e]
             s == SegmentEnds(r, FALSE)
  <1>1. At(e, "write") /\ Moves(engines, e, s, engines') /\ ClosedBy(disk, e, TRUE, disk')
    BY DEF WriteFails, Becomes, Moves, Closed, ClosedBy
  <1>2. r # None /\ r.pc = "write" /\ Shaped(r) /\ r.outcome # "Complete"
    BY <1>1, StepFacts, Zenon
  <1>3. RunOK(s) /\ SameRun(r, s) /\ s.pc \notin {"write", "rename"} /\ Accounted(disk, s)
    BY <1>2, FailedOK
  <1> HIDE DEF s
  <1>4. QED
    BY <1>1, <1>2, <1>3, Closes

LEMMA RenameStep ==
    ASSUME NEW e \in Slots, NoneIsNoRun, StoreInv(disk, engines, doubled), Rename(e)
    PROVE  StoreInv(disk', engines', doubled)
  <1> DEFINE r == engines[e]
             part == PartOf(r)
  <1>1. /\ At(e, "rename")
        /\ Moves(engines, e, SegmentEnds(r, part \in DOMAIN disk), engines')
        /\ part \in DOMAIN disk =>
               disk' = With(Without(disk, part), Published(part), disk[part])
        /\ part \notin DOMAIN disk => disk' = disk
    BY DEF Rename, Becomes, Moves
  <1>2. r # None /\ r.pc = "rename" /\ Shaped(r) /\ r.outcome # "Complete"
    BY <1>1, StepFacts, Zenon
  <1>3. CASE part \in DOMAIN disk
    <2> DEFINE s == SegmentEnds(r, TRUE)
    <2>1. Moves(engines, e, s, engines')
      <3>1. (part \in DOMAIN disk) = TRUE
        BY <1>3
      <3>2. QED
        BY <1>1, <3>1
    <2>2. /\ RunOK(s) /\ SameRun(r, s) /\ s.pc \in {"fetch", "ended"}
          /\ s.planned = r.planned /\ s.failed = (r.failed \/ ~TRUE) /\ s.missing = Past(r)
      BY <1>2, SegmentEndsOK
    <2> HIDE DEF s
    <2>3. s.failed = r.failed
      BY <1>2, <2>2 DEF Shaped
    <2>4. s.pc \notin {"write", "rename"}
      BY <2>2
    <2>5. disk' = With(Without(disk, part), Published(part), disk[part])
      BY <1>1, <1>3
    <2>6. QED
      BY <1>2, <1>3, <2>1, <2>2, <2>3, <2>4, <2>5, Renames
  <1>4. CASE part \notin DOMAIN disk
    <2> DEFINE s == SegmentEnds(r, FALSE)
    <2>1. Moves(engines, e, s, engines')
      <3>1. (part \in DOMAIN disk) = FALSE
        BY <1>4
      <3>2. QED
        BY <1>1, <3>1
    <2>2. RunOK(s) /\ SameRun(r, s) /\ s.pc \notin {"write", "rename"} /\ Accounted(disk, s)
      BY <1>2, FailedOK
    <2> HIDE DEF s
    <2>3. r.pc # "write"
      BY <1>2, Zenon
    <2>4. StoreInv(disk, engines', doubled)
      BY <1>2, <2>1, <2>2, <2>3, Quiet
    <2>5. QED
      BY <1>1, <1>4, <2>4
  <1>5. QED
    BY <1>3, <1>4

LEMMA RenameFailsStep ==
    ASSUME NEW e \in Slots, NoneIsNoRun, StoreInv(disk, engines, doubled), RenameFails(e)
    PROVE  StoreInv(disk', engines', doubled)
  <1> DEFINE r == engines[e]
             s == SegmentEnds(r, FALSE)
  <1>1. At(e, "rename") /\ Moves(engines, e, s, engines') /\ disk' = Without(disk, PartOf(r))
    BY DEF RenameFails, Becomes, Moves
  <1>2. r # None /\ r.pc = "rename" /\ Shaped(r) /\ r.outcome # "Complete"
    BY <1>1, StepFacts, Zenon
  <1>3. RunOK(s) /\ SameRun(r, s) /\ s.pc \notin {"write", "rename"} /\ Accounted(disk', s)
    BY <1>2, FailedOK
  <1> HIDE DEF s
  <1>4. StoreInv(disk', engines, doubled)
    BY <1>1, Names, PartGoes
  <1>5. r.pc # "write"
    BY <1>2, Zenon
  <1>6. QED
    BY <1>1, <1>2, <1>3, <1>4, <1>5, Quiet

LEMMA RunStepKeeps ==
    ASSUME NEW e \in Slots, NoneIsNoRun, StoreInv(disk, engines, doubled), RunStep(e)
    PROVE  StoreInv(disk', engines', doubled)
  <1>1. CASE PrepareBasemap(e)
    BY <1>1, PrepareBasemapStep DEF PrepareBasemap
  <1>2. CASE BasemapWillNotPlan(e)
    BY <1>2, BasemapWillNotPlanStep DEF BasemapWillNotPlan
  <1>3. CASE PrepareTerrain(e)
    BY <1>3, PrepareTerrainStep DEF PrepareTerrain
  <1>4. CASE TerrainWillNotPlan(e)
    BY <1>4, TerrainWillNotPlanStep DEF TerrainWillNotPlan
  <1>5. CASE Fetch(e)
    BY <1>5, FetchStep DEF Fetch
  <1>6. CASE SegmentFails(e)
    BY <1>6, SegmentFailsStep DEF SegmentFails
  <1>7. CASE OpenPart(e)
    BY <1>7, OpenPartStep
  <1>8. CASE WriteEnds(e)
    BY <1>8, WriteEndsStep
  <1>9. CASE WriteFails(e)
    BY <1>9, WriteFailsStep
  <1>10. CASE Rename(e)
    BY <1>10, RenameStep
  <1>11. CASE RenameFails(e)
    BY <1>11, RenameFailsStep
  <1>12. QED
    BY <1>1, <1>2, <1>3, <1>4, <1>5, <1>6, <1>7, <1>8, <1>9, <1>10, <1>11 DEF RunStep

-----------------------------------------------------------------------------
(* The frame thread, the worker and the process. *)

(* A run starts on an area; if another is alive on it, the area has had two. *)
LEMMA Starts ==
    ASSUME NEW files, NEW runs, NEW twice, NEW doubles, NEW e \in Slots,
           NEW a, NEW g, NEW terrain, NEW next,
           NoneIsNoRun, StoreInv(files, runs, twice), runs[e] = None,
           Moves(runs, e, NewRun(a, g, terrain), next),
           twice \subseteq doubles,
           a \in doubles \/ \A f \in Slots : runs[f] # None => runs[f].area # a
    PROVE  StoreInv(files, next, doubles)
  <1> DEFINE s == NewRun(a, g, terrain)
  <1>1. /\ DOMAIN s = Fields /\ s.area = a /\ s.pc = "basemap" /\ s.half = "Basemap"
        /\ s.planned = {} /\ s.failed = FALSE /\ s.outcome = "running"
        /\ s.missing = [h \in Halves |-> {}]
    BY DEF NewRun, Fields
  <1> HIDE DEF s
  <1>2. RunOK(s)
    <2>1. "Basemap" \in Halves /\ DOMAIN s.missing = Halves
      BY <1>1, Zenon DEF Halves
    <2>2. Shaped(s)
      BY <1>1, <2>1 DEF Shaped
    <2>3. QED
      BY <1>1, <2>2, Zenon DEF RunOK
  <1>3. s # None
    BY <1>1, Zenon DEF NoneIsNoRun
  <1>4. DOMAIN next = Slots /\ next[e] = s /\ \A f \in Slots : f # e => next[f] = runs[f]
    <2>1. DOMAIN runs = Slots
      BY DEF StoreInv, RunsOK
    <2>2. next = [runs EXCEPT ![e] = s]
      BY DEF Moves, s
    <2>3. QED
      BY <2>1, <2>2, Zenon
  <1>5. RunsOK(next)
    BY <1>2, <1>4, Zenon DEF StoreInv, RunsOK
  <1>6. Alone(next, doubles)
    <2>1. ASSUME NEW f \in Slots, f # e, next[f] # None, next[f].area = a
          PROVE  a \in doubles
      BY <2>1, <1>4, Zenon
    <2>2. ASSUME NEW f \in Slots, NEW k \in Slots, next[f] # None, next[k] # None,
                 next[f].area = next[k].area, next[f].area \notin doubles
          PROVE  f = k
      <3>1. CASE f = e /\ k # e
        BY <3>1, <2>1, <2>2, <1>1, <1>4, Zenon
      <3>2. CASE f # e /\ k = e
        BY <3>2, <2>1, <2>2, <1>1, <1>4, Zenon
      <3>3. CASE f # e /\ k # e
        <4>1. next[f] = runs[f] /\ next[k] = runs[k]
          BY <3>3, <1>4, Zenon
        <4>2. runs[f].area \notin twice
          BY <2>2, <4>1
        <4>3. QED
          BY <2>2, <4>1, <4>2, Zenon DEF StoreInv, Alone
      <3>4. QED
        BY <3>1, <3>2, <3>3
    <2>3. QED
      BY <2>2, Zenon DEF Alone
  <1>7. Writers(files, next, doubles)
    <2>1. SUFFICES ASSUME NEW n \in DOMAIN files, NEW f \in files[n].writing
                   PROVE  /\ f \in Slots /\ next[f] # None /\ next[f].pc = "write"
                          /\ next[f].area = n.area
                          /\ n.area \notin doubles => n = PartOf(next[f])
      BY Zenon DEF Writers
    <2>2. /\ f \in Slots /\ runs[f] # None /\ runs[f].pc = "write" /\ runs[f].area = n.area
          /\ n.area \notin twice => n = PartOf(runs[f])
      BY Zenon DEF StoreInv, Writers
    <2>3. f # e /\ (n.area \in twice => n.area \in doubles)
      BY <2>2
    <2>4. QED
      BY <2>2, <2>3, <1>4, Zenon
  <1>8. Sound(files, next, doubles)
    <2>1. \A f \in Slots : next[f].pc \in {"write", "rename"} => f # e
      BY <1>1, <1>4, Zenon
    <2>2. QED
      BY <1>4, <2>1, Zenon DEF StoreInv, Sound
  <1>9. AllAccounted(files, next)
    <2>1. Accounted(files, s)
      BY <1>1, Zenon DEF Accounted
    <2>2. QED
      BY <2>1, <1>4, Zenon DEF StoreInv, AllAccounted
  <1>10. QED
    BY <1>5, <1>6, <1>7, <1>8, <1>9, Zenon DEF StoreInv, FilesOK

(* A run that is not writing is let go of. *)
LEMMA Leaves ==
    ASSUME NEW files, NEW runs, NEW twice, NEW x, NEW next,
           StoreInv(files, runs, twice), runs[x].pc # "write",
           Moves(runs, x, None, next)
    PROVE  StoreInv(files, next, twice)
  <1>1. /\ DOMAIN next = Slots
        /\ \A f \in Slots : next[f] # None => next[f] = runs[f]
        /\ \A f \in Slots : f # x => next[f] = runs[f]
    <2>1. DOMAIN runs = Slots
      BY DEF StoreInv, RunsOK
    <2>2. QED
      BY <2>1, Zenon DEF Moves
  <1>2. RunsOK(next) /\ Alone(next, twice)
    <2>1. RunsOK(next)
      BY <1>1, Zenon DEF StoreInv, RunsOK
    <2>2. ASSUME NEW e \in Slots, NEW f \in Slots, next[e] # None, next[f] # None,
                 next[e].area = next[f].area, next[e].area \notin twice
          PROVE  e = f
      <3>1. next[e] = runs[e] /\ next[f] = runs[f]
        BY <2>2, <1>1, Zenon
      <3>2. QED
        BY <2>2, <3>1, Zenon DEF StoreInv, Alone
    <2>3. QED
      BY <2>1, <2>2, Zenon DEF Alone
  <1>3. Writers(files, next, twice)
    <2>1. SUFFICES ASSUME NEW n \in DOMAIN files, NEW f \in files[n].writing
                   PROVE  /\ f \in Slots /\ next[f] # None /\ next[f].pc = "write"
                          /\ next[f].area = n.area
                          /\ n.area \notin twice => n = PartOf(next[f])
      BY Zenon DEF Writers
    <2>2. /\ f \in Slots /\ runs[f] # None /\ runs[f].pc = "write" /\ runs[f].area = n.area
          /\ n.area \notin twice => n = PartOf(runs[f])
      BY Zenon DEF StoreInv, Writers
    <2>3. f # x
      BY <2>2, Zenon
    <2>4. QED
      BY <2>2, <2>3, <1>1, Zenon
  <1>4. Sound(files, next, twice)
    BY <1>1, Zenon DEF StoreInv, Sound
  <1>5. AllAccounted(files, next)
    BY <1>1, Zenon DEF StoreInv, AllAccounted
  <1>6. QED
    BY <1>2, <1>3, <1>4, <1>5, Zenon DEF StoreInv

(* What a process that dies leaves of its files. *)
LEMMA Dies ==
    ASSUME NEW files, NEW runs, NEW twice, NEW next, NEW more,
           StoreInv(files, runs, twice), next = [e \in Slots |-> None],
           more = [n \in DOMAIN files |->
                     [files[n] EXCEPT !.torn = @ \/ files[n].writing # {}, !.writing = {}]]
    PROVE  StoreInv(more, next, twice)
  <1>1. DOMAIN next = Slots /\ \A f \in Slots : next[f] = None
    BY Zenon
  <1>2. DOMAIN more = DOMAIN files
    BY Zenon
  <1>3. ASSUME NEW n \in DOMAIN files
        PROVE  /\ DOMAIN more[n] = {"gen", "torn", "writing"} /\ more[n].writing = {}
               /\ more[n].torn = (files[n].torn \/ files[n].writing # {})
    <2> DEFINE f == files[n]
               torn == f.torn \/ f.writing # {}
               s == [f EXCEPT !.torn = torn, !.writing = {}]
    <2>1. more[n] = s
      BY Zenon
    <2>2. DOMAIN f = {"gen", "torn", "writing"}
      BY Zenon DEF StoreInv, FilesOK
    <2> HIDE DEF f, torn
    <2>3. DOMAIN s = {"gen", "torn", "writing"} /\ s.writing = {} /\ s.torn = torn
      BY <2>2, Zenon
    <2> HIDE DEF s
    <2>4. QED
      BY <2>1, <2>3, Zenon DEF torn, f
  <1>4. FilesOK(more)
    <2>1. \A n \in DOMAIN files : (files[n].torn \/ files[n].writing # {}) \in BOOLEAN
      OBVIOUS
    <2>2. QED
      BY <1>2, <1>3, <2>1, Zenon DEF FilesOK
  <1>5. RunsOK(next) /\ Alone(next, twice) /\ AllAccounted(more, next)
    BY <1>1, Zenon DEF RunsOK, Alone, AllAccounted
  <1>6. Writers(more, next, twice)
    BY <1>2, <1>3, Zenon DEF Writers
  <1>7. Sound(more, next, twice)
    <2>1. ASSUME NEW n \in DOMAIN files, n.area \notin twice, n.kind = "pmtiles"
          PROVE  files[n].torn = FALSE /\ files[n].writing = {}
      <3>1. ~files[n].torn /\ files[n].torn \in BOOLEAN
        BY <2>1, Zenon DEF StoreInv, Sound, FilesOK
      <3>2. ASSUME NEW f \in files[n].writing PROVE FALSE
        <4>1. n = PartOf(runs[f])
          BY <2>1, <3>2, Zenon DEF StoreInv, Writers
        <4>2. n.kind = "part"
          BY <4>1, Names, Zenon
        <4>3. QED
          BY <2>1, <4>2
      <3>3. QED
        BY <3>1, <3>2
    <2>2. QED
      BY <1>1, <1>2, <1>3, <2>1, Zenon DEF Sound
  <1>8. QED
    BY <1>4, <1>5, <1>6, <1>7, Zenon DEF StoreInv

LEMMA StartStep ==
    ASSUME NEW a \in Areas, NEW terrain \in BOOLEAN, NoneIsNoRun,
           StoreInv(disk, engines, doubled), Start(a, terrain)
    PROVE  StoreInv(disk', engines', doubled')
  <1>1. PICK e \in Slots : /\ engines[e] = None
                           /\ Moves(engines, e, NewRun(a, generation, terrain), engines')
    BY DEF Start, Moves
  <1>2. disk' = disk /\ doubled' = IF Alive(a) = {} THEN doubled ELSE doubled \cup {a}
    BY DEF Start
  <1>3. doubled \subseteq doubled'
    BY <1>2
  <1>4. a \in doubled' \/ \A f \in Slots : engines[f] # None => engines[f].area # a
    <2>1. CASE Alive(a) = {}
      BY <2>1, Zenon DEF Alive
    <2>2. CASE Alive(a) # {}
      BY <2>2, <1>2
    <2>3. QED
      BY <2>1, <2>2
  <1>5. StoreInv(disk, engines', doubled')
    BY <1>1, <1>3, <1>4, Starts
  <1>6. QED
    BY <1>2, <1>5

LEMMA DroppedStep ==
    ASSUME StoreInv(disk, engines, doubled), Dropped
    PROVE  StoreInv(disk', engines', doubled')
  <1>1. /\ Moves(engines, dropping, None, engines') /\ engines[dropping].pc # "write"
        /\ disk' = disk /\ doubled' = doubled
    BY DEF Dropped, Droppable, Moves
  <1>2. StoreInv(disk, engines', doubled)
    BY <1>1, Leaves
  <1>3. QED
    BY <1>1, <1>2

LEMMA SettleStep ==
    ASSUME StoreInv(disk, engines, doubled), Settle
    PROVE  StoreInv(disk', engines', doubled')
  <1>1. /\ Moves(engines, active, None, engines') /\ engines[active].pc = "ended"
        /\ disk' = disk /\ doubled' = doubled
    BY DEF Settle, Moves
  <1>2. engines[active].pc # "write"
    BY <1>1
  <1>3. StoreInv(disk, engines', doubled)
    BY <1>1, <1>2, Leaves
  <1>4. QED
    BY <1>1, <1>3

LEMMA RemoveFileStep ==
    ASSUME NEW n \in Name, NoneIsNoRun, StoreInv(disk, engines, doubled), RemoveFile(n)
    PROVE  StoreInv(disk', engines', doubled')
  <1>1. doubled' = doubled
    BY DEF RemoveFile, Took
  <1>2. CASE n \in DOMAIN disk
    <2>1. /\ disk' = Without(disk, n)
          /\ engines' = [e \in Slots |-> IF e \in Alive(n.area)
                                         THEN [engines[e] EXCEPT !.swept = TRUE] ELSE engines[e]]
      BY <1>2 DEF RemoveFile
    <2>2. \A e \in Slots : e \in Alive(n.area) <=> engines[e] # None /\ engines[e].area = n.area
      BY Zenon DEF Alive
    <2>3. SweptOf(engines, n, engines')
      BY <2>1, <2>2 DEF SweptOf
    <2>4. QED
      BY <1>1, <2>1, <2>3, Sweeps
  <1>3. CASE n \notin DOMAIN disk
    BY <1>1, <1>3 DEF RemoveFile
  <1>4. QED
    BY <1>2, <1>3

LEMMA RelaunchStep ==
    ASSUME StoreInv(disk, engines, doubled), Relaunch
    PROVE  StoreInv(disk', engines', doubled')
  BY Dies DEF Relaunch

(* Every step keeps the invariant. *)
LEMMA StoreStep ==
    ASSUME NoneIsNoRun, StoreInv(disk, engines, doubled), [Next]_vars
    PROVE  StoreInv(disk', engines', doubled')
  <1>1. ASSUME NEW e \in Slots, EngineStep(e)
        PROVE  StoreInv(disk', engines', doubled')
    BY <1>1, RunStepKeeps DEF EngineStep
  <1>2. CASE User
    <2>1. ASSUME NEW a \in Areas, NEW terrain \in BOOLEAN, Start(a, terrain)
          PROVE  StoreInv(disk', engines', doubled')
      BY <2>1, StartStep
    <2>2. CASE Cancel
      BY <2>2 DEF Cancel
    <2>3. ASSUME NEW a \in Areas, Delete(a)
          PROVE  StoreInv(disk', engines', doubled')
      BY <2>3 DEF Delete
    <2>4. QED
      BY <1>2, <2>1, <2>2, <2>3 DEF User
  <1>3. CASE WorkerStep
    <2>1. CASE TakeJob
      BY <2>1 DEF TakeJob, Took
    <2>2. ASSUME NEW a \in Areas, ListBasemap(a)
          PROVE  StoreInv(disk', engines', doubled')
      BY <2>2 DEF ListBasemap, Took
    <2>3. ASSUME NEW a \in Areas, ListFails(a)
          PROVE  StoreInv(disk', engines', doubled')
      BY <2>3 DEF ListFails, Took
    <2>4. CASE ListTerrain
      BY <2>4 DEF ListTerrain, Took
    <2>5. ASSUME NEW n \in Name, RemoveFile(n)
          PROVE  StoreInv(disk', engines', doubled')
      BY <2>5, RemoveFileStep
    <2>6. CASE RemoveFails
      BY <2>6 DEF RemoveFails, Took
    <2>7. CASE Removed
      BY <2>7 DEF Removed, Took
    <2>8. QED
      BY <1>3, <2>1, <2>2, <2>3, <2>4, <2>5, <2>6, <2>7 DEF WorkerStep
  <1>4. CASE Work
    <2>1. CASE AskUnknown
      BY <2>1 DEF AskUnknown
    <2>2. QED
      BY <1>1, <1>3, <1>4, <2>1, DroppedStep, SettleStep DEF Work
  <1>5. CASE Save
    BY <1>5 DEF Save
  <1>6. CASE Relaunch
    BY <1>6, RelaunchStep
  <1>7. CASE UNCHANGED vars
    BY <1>7 DEF vars
  <1>8. QED
    BY <1>2, <1>4, <1>5, <1>6, <1>7 DEF Next

LEMMA StoreInit ==
    ASSUME Init
    PROVE  StoreInv(disk, engines, doubled)
  <1>1. DOMAIN disk = {} /\ DOMAIN engines = Slots /\ \A e \in Slots : engines[e] = None
    BY Zenon DEF Init, DownloadInit
  <1>2. QED
    BY <1>1, Zenon DEF StoreInv, RunsOK, FilesOK, Alone, Writers, Sound, AllAccounted

(* The invariant holds of every behaviour. *)
LEMMA StoreAlways == NoneIsNoRun => (Spec => []StoreInv(disk, engines, doubled))
  <1>1. ASSUME NoneIsNoRun
        PROVE  Spec => []StoreInv(disk, engines, doubled)
    <2>1. Init => StoreInv(disk, engines, doubled)
      BY StoreInit
    <2>2. StoreInv(disk, engines, doubled) /\ [Next]_vars => StoreInv(disk, engines, doubled)'
      <3>1. SUFFICES ASSUME StoreInv(disk, engines, doubled), [Next]_vars
                     PROVE  StoreInv(disk', engines', doubled')
        OBVIOUS
      <3>2. QED
        BY <1>1, <3>1, StoreStep
    <2>3. QED
      BY <2>1, <2>2, PTL DEF Spec
  <1>2. QED
    BY <1>1

-----------------------------------------------------------------------------
(* A crash at any instant leaves a published segment that is whole, or none, for every  *)
(* archive, every cut of it and any number of runs: what put_segment (basemap_download  *)
(* .rs:2376) renames is what one run wrote to its end.                                  *)
THEOREM PublishedWhole == NoneIsNoRun => (Spec => []PublishedIsWhole)
  <1>1. ASSUME StoreInv(disk, engines, doubled)
        PROVE  PublishedIsWhole
    <2>1. SUFFICES ASSUME NEW n \in DOMAIN disk, n.kind = "pmtiles", n.area \notin doubled
                   PROVE  disk[n].writing = {} /\ ~disk[n].torn
      BY DEF PublishedIsWhole, Whole
    <2>2. ~disk[n].torn
      BY <1>1, <2>1, Zenon DEF StoreInv, Sound
    <2>3. ASSUME NEW e \in disk[n].writing PROVE FALSE
      <3>1. n = PartOf(engines[e])
        BY <1>1, <2>1, <2>3, Zenon DEF StoreInv, Writers
      <3>2. n.kind = "part"
        BY <3>1, Names, Zenon
      <3>3. QED
        BY <2>1, <3>2
    <2>4. QED
      BY <2>2, <2>3
  <1>2. QED
    BY <1>1, StoreAlways, PTL

(* A run that says Complete has every segment of its cut in the store, of both archives, *)
(* unless a removal ran under it: drive's verdict (basemap_download.rs) is true of the   *)
(* disk, whatever failed, was resumed or was shared on the way.                          *)
THEOREM CompleteListed == NoneIsNoRun => (Spec => []CompleteIsListed)
  <1>1. ASSUME StoreInv(disk, engines, doubled)
        PROVE  CompleteIsListed
    <2>1. SUFFICES ASSUME NEW e \in Slots, engines[e] # None,
                          engines[e].outcome = "Complete", ~engines[e].swept,
                          NEW h \in engines[e].planned,
                          NEW s \in DOMAIN Cuts[engines[e].gen][h]
                   PROVE  s \in Listed(engines[e].area, h)
      BY Zenon DEF CompleteIsListed
    <2>2. RunOK(engines[e]) /\ Accounted(disk, engines[e])
      BY <1>1, <2>1, Zenon DEF StoreInv, RunsOK, AllAccounted
    <2>3. ~engines[e].failed /\ \A g \in Halves : engines[e].missing[g] = {}
      BY <2>1, <2>2, Zenon DEF RunOK, Halves
    <2>4. h \in Halves
      BY <2>1, <2>2, Zenon DEF RunOK, Shaped
    <2>5. Has(disk, engines[e].area, h, s)
      BY <2>1, <2>2, <2>3, <2>4, Zenon DEF Accounted
    <2>6. QED
      BY <2>5, Zenon DEF Has, Listed
  <1>2. QED
    BY <1>1, StoreAlways, PTL

-----------------------------------------------------------------------------
(* What spans weigh. *)

LEMMA LeastOf ==
    ASSUME NEW T \in SUBSET Nat, T # {}
    PROVE  \E n \in T : \A m \in T : n <= m
  <1> DEFINE R == OpToRel(<, Nat)
  <1>1. IsWellFoundedOn(R, Nat)
    BY NatLessThanWellFounded
  <1>2. \A x, y \in Nat : <<x, y>> \in R <=> x < y
    BY DEF OpToRel
  <1> HIDE DEF R
  <1>3. PICK n \in T : \A y \in T : ~ (<<y, n>> \in R)
    BY <1>1, WFMin
  <1>4. ASSUME NEW m \in T PROVE n <= m
    <2>1. n \in Nat /\ m \in Nat /\ ~ (m < n)
      BY <1>2, <1>3
    <2>2. QED
      BY <2>1
  <1>5. QED
    BY <1>4

LEMMA OneSpan ==
    ASSUME NEW span \in Span
    PROVE  IsFiniteSet({span} \X (1..span.length))
  <1>1. span.length \in Nat
    BY DEF Span
  <1>2. IsFiniteSet(1..span.length) /\ IsFiniteSet({span})
    <2>1. 1 \in Int /\ span.length \in Int
      BY <1>1
    <2>2. QED
      BY <2>1, FS_Interval, FS_Singleton
  <1>3. QED
    BY <1>2, FS_Product

LEMMA BytesFinite ==
    ASSUME NEW S \in SUBSET Span, IsFiniteSet(S)
    PROVE  IsFiniteSet(BytesOf(S)) /\ Bytes(S) \in Nat
  <1> DEFINE of == [span \in S |-> {span} \X (1..span.length)]
             T == {of[span] : span \in S}
  <1>1. of \in Surjection(S, T)
    BY DEF Surjection
  <1>2. \A span \in S : of[span] = {span} \X (1..span.length) /\ IsFiniteSet(of[span])
    BY OneSpan
  <1>3. BytesOf(S) = UNION T
    BY DEF BytesOf
  <1> HIDE DEF of
  <1>4. IsFiniteSet(T) /\ \A B \in T : IsFiniteSet(B)
    BY <1>1, <1>2, FS_Surjection
  <1> HIDE DEF T
  <1>5. IsFiniteSet(BytesOf(S))
    BY <1>3, <1>4, FS_UNION
  <1>6. QED
    BY <1>5, FS_CardinalityType DEF Bytes

LEMMA NoBytes == Bytes({}) = 0
  <1>1. BytesOf({}) = {}
    BY DEF BytesOf
  <1>2. QED
    BY <1>1, FS_EmptySet DEF Bytes

(* Two sets of spans that share none weigh what each weighs. *)
LEMMA BytesAdd ==
    ASSUME NEW S \in SUBSET Span, IsFiniteSet(S), NEW T \in SUBSET Span, IsFiniteSet(T),
           S \cap T = {}
    PROVE  Bytes(S \cup T) = Bytes(S) + Bytes(T)
  <1>1. BytesOf(S \cup T) = BytesOf(S) \cup BytesOf(T)
    BY DEF BytesOf
  <1>2. BytesOf(S) \cap BytesOf(T) = {}
    BY DEF BytesOf
  <1>3. IsFiniteSet(BytesOf(S)) /\ IsFiniteSet(BytesOf(T))
    BY BytesFinite
  <1>4. Cardinality(BytesOf(S) \cup BytesOf(T))
            = Cardinality(BytesOf(S)) + Cardinality(BytesOf(T))
              - Cardinality(BytesOf(S) \cap BytesOf(T))
    BY <1>3, FS_Union
  <1>5. Cardinality(BytesOf(S) \cap BytesOf(T)) = 0
    BY <1>2, FS_EmptySet
  <1>6. Bytes(S) \in Nat /\ Bytes(T) \in Nat
    BY BytesFinite
  <1>7. /\ Cardinality(BytesOf(S)) \in Nat /\ Cardinality(BytesOf(T)) \in Nat
        /\ Bytes(S \cup T) = Cardinality(BytesOf(S) \cup BytesOf(T))
    BY <1>1, <1>6 DEF Bytes
  <1>8. Cardinality(BytesOf(S) \cup BytesOf(T)) = Cardinality(BytesOf(S)) + Cardinality(BytesOf(T))
    BY <1>4, <1>5, <1>7
  <1>9. QED
    BY <1>7, <1>8 DEF Bytes

(* A part of some spans weighs no more, and with the rest as much. *)
LEMMA BytesPart ==
    ASSUME NEW S \in SUBSET Span, IsFiniteSet(S), NEW T \in SUBSET S
    PROVE  /\ IsFiniteSet(T) /\ IsFiniteSet(S \ T)
           /\ Bytes(S) = Bytes(T) + Bytes(S \ T) /\ Bytes(T) <= Bytes(S)
  <1>1. /\ IsFiniteSet(T) /\ IsFiniteSet(S \ T) /\ T \in SUBSET Span /\ S \ T \in SUBSET Span
        /\ T \cap (S \ T) = {} /\ T \cup (S \ T) = S
    BY FS_Subset
  <1>2. Bytes(T \cup (S \ T)) = Bytes(T) + Bytes(S \ T)
    BY <1>1, BytesAdd
  <1>3. Bytes(T) \in Nat /\ Bytes(S \ T) \in Nat
    BY <1>1, BytesFinite
  <1>4. Bytes(S) = Bytes(T) + Bytes(S \ T)
    BY <1>1, <1>2
  <1>5. Bytes(T) <= Bytes(T) + Bytes(S \ T)
    BY <1>3
  <1>6. QED
    BY <1>1, <1>4, <1>5

-----------------------------------------------------------------------------
(* What an area's tiles are cut into: segments of those tiles. *)

Tiles == [tile : Nat, span : Span]

LEMMA PackType ==
    ASSUME NEW T, NEW segments \in Seq(Seq(T)), NEW tile \in T
    PROVE  Pack(segments, tile) \in Seq(Seq(T))
  <1>1. CASE segments # <<>>
    <2>1. Len(segments) \in DOMAIN segments /\ Last(segments) \in Seq(T)
      BY <1>1 DEF Last
    <2>2. Append(Last(segments), tile) \in Seq(T)
      BY <2>1
    <2>3. ReplaceAt(segments, Len(segments), Append(Last(segments), tile)) \in Seq(Seq(T))
      BY <2>1, <2>2 DEF ReplaceAt
    <2>4. Append(segments, <<tile>>) \in Seq(Seq(T))
      OBVIOUS
    <2>5. QED
      BY <2>3, <2>4 DEF Pack
  <1>2. CASE segments = <<>>
    <2>1. Pack(segments, tile) = Append(segments, <<tile>>)
      BY <1>2 DEF Pack
    <2>2. QED
      BY <2>1
  <1>3. QED
    BY <1>1, <1>2

(* How far the packing is after its first n tiles. *)
Packs(tiles, n, f) ==
    /\ f = [i \in 0..n |-> f[i]] /\ f[0] = <<>>
    /\ \A i \in 1..n : f[i] = Pack(f[i - 1], tiles[i])

LEMMA PacksOn ==
    ASSUME NEW tiles, NEW n \in Nat, NEW f, Packs(tiles, n, f)
    PROVE  \E g : Packs(tiles, n + 1, g)
  <1> DEFINE g == [i \in 0..(n + 1) |-> IF i = n + 1 THEN Pack(f[n], tiles[n + 1]) ELSE f[i]]
  <1>1. DOMAIN g = 0..(n + 1) /\ g[0] = <<>>
    BY DEF Packs
  <1>2. ASSUME NEW i \in 1..(n + 1) PROVE g[i] = Pack(g[i - 1], tiles[i])
    <2>1. CASE i = n + 1
      <3>1. g[i] = Pack(f[n], tiles[i]) /\ g[i - 1] = f[n]
        BY <2>1
      <3>2. QED
        BY <3>1
    <2>2. CASE i # n + 1
      <3>1. i \in 1..n /\ g[i] = f[i] /\ g[i - 1] = f[i - 1]
        BY <2>2
      <3>2. QED
        BY <3>1 DEF Packs
    <2>3. QED
      BY <2>1, <2>2
  <1>3. QED
    BY <1>1, <1>2 DEF Packs

LEMMA PacksExist == ASSUME NEW tiles, NEW n \in Nat PROVE \E f : Packs(tiles, n, f)
  <1> DEFINE B == {k \in Nat : ~\E f : Packs(tiles, k, f)}
  <1>1. SUFFICES ASSUME n \in B PROVE FALSE
    OBVIOUS
  <1>2. PICK k \in B : \A m \in B : k <= m
    BY <1>1, LeastOf
  <1>3. k # 0
    <2>1. Packs(tiles, 0, [i \in 0..0 |-> <<>>])
      BY DEF Packs
    <2>2. QED
      BY <2>1
  <1>4. k - 1 \in Nat /\ k - 1 \notin B /\ (k - 1) + 1 = k
    BY <1>2, <1>3
  <1>5. PICK f : Packs(tiles, k - 1, f)
    BY <1>4
  <1>6. \E g : Packs(tiles, k, g)
    BY <1>4, <1>5, PacksOn
  <1>7. QED
    BY <1>2, <1>6

LEMMA PlanSteps ==
    ASSUME NEW T, NEW tiles \in Seq(T)
    PROVE  \E plan : /\ PlanArea(tiles) = plan[Len(tiles)] /\ plan[0] = <<>>
                     /\ \A n \in 1..Len(tiles) : plan[n] = Pack(plan[n - 1], tiles[n])
  <1> DEFINE F(f) == [n \in 0..Len(tiles) |-> IF n = 0 THEN <<>> ELSE Pack(f[n - 1], tiles[n])]
             plan == CHOOSE f : f = F(f)
  <1>1. Len(tiles) \in Nat
    OBVIOUS
  <1>2. PICK f : Packs(tiles, Len(tiles), f)
    BY <1>1, PacksExist
  <1>3. f = F(f)
    <2>1. \A n \in 0..Len(tiles) : f[n] = IF n = 0 THEN <<>> ELSE Pack(f[n - 1], tiles[n])
      BY <1>1, <1>2 DEF Packs
    <2>2. f = [n \in 0..Len(tiles) |-> f[n]]
      BY <1>2 DEF Packs
    <2>3. QED
      BY <2>1, <2>2
  <1>4. plan = F(plan)
    <2> HIDE DEF F
    <2>1. QED
      BY <1>3
  <1>5. PlanArea(tiles) = plan[Len(tiles)]
    BY DEF PlanArea
  <1> HIDE DEF plan
  <1>6. plan[0] = <<>> /\ \A n \in 1..Len(tiles) : plan[n] = Pack(plan[n - 1], tiles[n])
    BY <1>1, <1>4
  <1>7. QED
    BY <1>5, <1>6

(* What holds of nothing and is kept by every tile's packing holds of the plan: good[n] is  *)
(* the set of what the first n tiles may come to.                                           *)
LEMMA PlanKeeps ==
    ASSUME NEW T, NEW tiles \in Seq(T), NEW good, <<>> \in good[0],
           \A n \in 1..Len(tiles) : \A p \in good[n - 1] : Pack(p, tiles[n]) \in good[n]
    PROVE  PlanArea(tiles) \in good[Len(tiles)]
  <1>1. PICK plan : /\ PlanArea(tiles) = plan[Len(tiles)] /\ plan[0] = <<>>
                    /\ \A n \in 1..Len(tiles) : plan[n] = Pack(plan[n - 1], tiles[n])
    BY PlanSteps
  <1>2. Len(tiles) \in Nat
    OBVIOUS
  <1> DEFINE B == {n \in 0..Len(tiles) : plan[n] \notin good[n]}
  <1>3. SUFFICES ASSUME B # {} PROVE FALSE
    BY <1>1, <1>2
  <1>4. PICK n \in B : \A m \in B : n <= m
    <2>1. B \in SUBSET Nat
      OBVIOUS
    <2> HIDE DEF B
    <2>2. QED
      BY <1>3, <2>1, LeastOf
  <1>5. n # 0
    BY <1>1, <1>4
  <1>6. n \in 1..Len(tiles) /\ n - 1 \in 0..Len(tiles) /\ ~(n <= n - 1)
    BY <1>2, <1>4, <1>5
  <1>7. plan[n - 1] \in good[n - 1]
    BY <1>4, <1>6
  <1>8. QED
    BY <1>1, <1>4, <1>6, <1>7

LEMMA PlanType ==
    ASSUME NEW T, NEW tiles \in Seq(T)
    PROVE  PlanArea(tiles) \in Seq(Seq(T))
  <1> DEFINE good == [n \in 0..Len(tiles) |-> Seq(Seq(T))]
  <1>1. Len(tiles) \in Nat /\ \A n \in 0..Len(tiles) : good[n] = Seq(Seq(T))
    OBVIOUS
  <1>2. <<>> \in Seq(Seq(T))
    OBVIOUS
  <1>3. \A n \in 1..Len(tiles) : n - 1 \in 0..Len(tiles) /\ n \in 0..Len(tiles) /\ tiles[n] \in T
    BY <1>1
  <1> HIDE DEF good
  <1>4. \A n \in 1..Len(tiles) : \A p \in good[n - 1] : Pack(p, tiles[n]) \in good[n]
    BY <1>1, <1>3, PackType
  <1>5. <<>> \in good[0] /\ Len(tiles) \in 0..Len(tiles)
    <2>1. 0 \in 0..Len(tiles) /\ Len(tiles) \in 0..Len(tiles)
      BY <1>1
    <2>2. good[0] = Seq(Seq(T))
      BY <1>1, <2>1
    <2>3. QED
      BY <1>2, <2>1, <2>2
  <1>6. PlanArea(tiles) \in good[Len(tiles)]
    BY <1>4, <1>5, PlanKeeps
  <1>7. QED
    BY <1>1, <1>5, <1>6

(* p cuts the first n tiles: each segment is a stretch of them in their order, ends[s] the  *)
(* last tile of s; it keeps to the cap unless it is one tile; and it was closed by a tile   *)
(* that would not have kept to the cap.                                                     *)
Stretches(tiles, p, n, ends) ==
    /\ ends \in [0..Len(p) -> 0..n] /\ ends[0] = 0 /\ ends[Len(p)] = n
    /\ \A s \in 1..Len(p) :
        /\ ends[s - 1] < ends[s] /\ Len(p[s]) = ends[s] - ends[s - 1]
        /\ \A i \in 1..Len(p[s]) : p[s][i] = tiles[ends[s - 1] + i]
        /\ Bytes(SpansOf(p[s])) <= SegmentBytes \/ Len(p[s]) = 1
        /\ s < Len(p) => ~(Bytes(SpansOf(p[s]) \cup {tiles[ends[s] + 1].span}) <= SegmentBytes)

LEMMA SpansAppend ==
    ASSUME NEW T, NEW segment \in Seq(T), NEW tile \in T
    PROVE  /\ SpansOf(Append(segment, tile)) = SpansOf(segment) \cup {tile.span}
           /\ Len(Append(segment, tile)) = Len(segment) + 1 /\ Len(segment) \in Nat
           /\ \A i \in 1..Len(segment) : Append(segment, tile)[i] = segment[i]
           /\ Append(segment, tile)[Len(segment) + 1] = tile
  <1> DEFINE more == Append(segment, tile)
  <1>1. /\ Len(segment) \in Nat /\ DOMAIN segment = 1..Len(segment)
        /\ DOMAIN more = 1..(Len(segment) + 1) /\ Len(more) = Len(segment) + 1
        /\ \A i \in 1..Len(segment) : more[i] = segment[i]
        /\ more[Len(segment) + 1] = tile
    OBVIOUS
  <1> HIDE DEF more
  <1>2. SpansOf(more) = SpansOf(segment) \cup {tile.span}
    <2>1. ASSUME NEW x \in SpansOf(more) PROVE x \in SpansOf(segment) \cup {tile.span}
      BY <1>1, <2>1 DEF SpansOf
    <2>2. ASSUME NEW x \in SpansOf(segment) \cup {tile.span} PROVE x \in SpansOf(more)
      <3>1. Len(segment) + 1 \in DOMAIN more /\ \A i \in DOMAIN segment : i \in DOMAIN more
        BY <1>1
      <3>2. QED
        BY <1>1, <2>2, <3>1 DEF SpansOf
    <2>3. QED
      BY <2>1, <2>2
  <1>3. QED
    BY <1>1, <1>2 DEF more

LEMMA StretchesOn ==
    ASSUME NEW T, NEW tiles \in Seq(T), NEW n \in 1..Len(tiles), NEW p \in Seq(Seq(T)),
           NEW ends, Stretches(tiles, p, n - 1, ends)
    PROVE  \E more : Stretches(tiles, Pack(p, tiles[n]), n, more)
  <1> DEFINE tile == tiles[n]
             k == Len(p)
  <1>0. /\ tile \in T /\ n \in Nat /\ n - 1 \in Nat /\ n - 1 < n
        /\ k \in Nat /\ k = Len(p) /\ DOMAIN p = 1..k
        /\ \A s \in 1..k : p[s] \in Seq(T) /\ Len(p[s]) \in Nat
    OBVIOUS
  <1>e. ends \in [0..k -> 0..(n - 1)] /\ ends[0] = 0 /\ ends[k] = n - 1
    BY DEF Stretches
  <1>s. ASSUME NEW s \in 1..k
        PROVE  /\ ends[s - 1] < ends[s] /\ Len(p[s]) = ends[s] - ends[s - 1]
               /\ \A i \in 1..Len(p[s]) : p[s][i] = tiles[ends[s - 1] + i]
               /\ Bytes(SpansOf(p[s])) <= SegmentBytes \/ Len(p[s]) = 1
               /\ s < k => ~(Bytes(SpansOf(p[s]) \cup {tiles[ends[s] + 1].span}) <= SegmentBytes)
    BY DEF Stretches
  <1>l. \A s \in 1..k : s - 1 \in 0..k /\ s \in 0..k
    BY <1>0
  <1> HIDE DEF tile, k
  <1>1. CASE p # <<>> /\ Bytes(SpansOf(Last(p)) \cup {tile.span}) <= SegmentBytes
    <2> DEFINE q == Pack(p, tile)
               last == p[k]
               more == [ends EXCEPT ![k] = n]
    <2>1. k # 0 /\ k \in 1..k /\ Last(p) = last /\ last \in Seq(T)
      BY <1>0, <1>1 DEF Last
    <2>2. q = [p EXCEPT ![k] = Append(last, tile)]
      BY <1>0, <1>1, <2>1 DEF Pack, ReplaceAt
    <2>3. Len(q) = k /\ q[k] = Append(last, tile) /\ \A s \in 1..k : s # k => q[s] = p[s]
      <3> DEFINE r == [p EXCEPT ![k] = Append(last, tile)]
      <3>1. q \in Seq(Seq(T))
        BY <1>0, PackType
      <3>2. q = r
        BY <2>2
      <3>3. DOMAIN r = 1..k /\ r[k] = Append(last, tile) /\ \A s \in 1..k : s # k => r[s] = p[s]
        BY <1>0, <2>1
      <3> HIDE DEF q, r
      <3>4. Len(q) = k
        BY <1>0, <3>1, <3>2, <3>3
      <3>5. QED
        BY <3>2, <3>3, <3>4
    <2>4. /\ ends[k] = n - 1 /\ ends[k - 1] < n - 1 /\ Len(last) = n - 1 - ends[k - 1]
          /\ k - 1 \in 0..k /\ ends[k - 1] \in Nat
          /\ \A i \in 1..Len(last) : last[i] = tiles[ends[k - 1] + i]
      <3> HIDE DEF q, more
      <3>1. k - 1 \in 0..k
        BY <1>l, <2>1
      <3>2. /\ ends[k - 1] < ends[k] /\ Len(last) = ends[k] - ends[k - 1]
            /\ \A i \in 1..Len(last) : last[i] = tiles[ends[k - 1] + i]
        BY <1>s, <2>1
      <3>3. ends[k - 1] \in 0..(n - 1)
        BY <1>e, <3>1
      <3>4. ends[k - 1] \in Nat
        BY <1>0, <3>3
      <3>5. QED
        BY <1>e, <3>1, <3>2, <3>4
    <2>5. /\ more \in [0..k -> 0..n] /\ more[k] = n /\ \A s \in 0..k : s # k => more[s] = ends[s]
      <3> HIDE DEF q, last
      <3>1. k \in 0..k /\ n \in 0..n /\ \A i \in 0..(n - 1) : i \in 0..n
        BY <1>0
      <3>2. ends \in [0..k -> 0..n]
        BY <1>e, <3>1
      <3> HIDE DEF more
      <3>3. more = [ends EXCEPT ![k] = n]
        BY DEF more
      <3>4. QED
        BY <3>1, <3>2, <3>3
    <2>6. /\ SpansOf(q[k]) = SpansOf(last) \cup {tile.span} /\ Len(q[k]) = Len(last) + 1
          /\ Len(last) \in Nat
          /\ \A i \in 1..Len(last) : q[k][i] = last[i]
          /\ q[k][Len(last) + 1] = tile
      <3> HIDE DEF q, more, last
      <3>1. q[k] = Append(last, tile) /\ last \in Seq(T) /\ tile \in T
        BY <1>0, <2>1, <2>3
      <3>2. QED
        BY <3>1, SpansAppend
    <2> HIDE DEF more, q, last
    <2>7. ASSUME NEW s \in 1..k
          PROVE  /\ more[s - 1] < more[s] /\ Len(q[s]) = more[s] - more[s - 1]
                 /\ \A i \in 1..Len(q[s]) : q[s][i] = tiles[more[s - 1] + i]
                 /\ Bytes(SpansOf(q[s])) <= SegmentBytes \/ Len(q[s]) = 1
                 /\ s < k => ~(Bytes(SpansOf(q[s]) \cup {tiles[more[s] + 1].span}) <= SegmentBytes)
      <3>1. CASE s = k
        <4>1. more[s] = n /\ more[s - 1] = ends[k - 1]
          BY <2>4, <2>5, <3>1
        <4>2. Len(q[s]) = n - ends[k - 1] /\ ends[k - 1] < n
          BY <1>0, <2>4, <2>6, <3>1
        <4>3. \A i \in 1..Len(q[s]) : q[s][i] = tiles[ends[k - 1] + i]
          <5>1. ASSUME NEW i \in 1..Len(q[s]) PROVE q[s][i] = tiles[ends[k - 1] + i]
            <6>1. CASE i \in 1..Len(last)
              BY <2>4, <2>6, <3>1, <6>1
            <6>2. CASE i \notin 1..Len(last)
              <7>1. i = Len(last) + 1 /\ ends[k - 1] + i = n
                BY <1>0, <2>4, <2>6, <3>1, <4>2, <6>2
              <7>2. QED
                BY <2>6, <3>1, <7>1 DEF tile
            <6>3. QED
              BY <6>1, <6>2
          <5>2. QED
            BY <5>1
        <4>4. Bytes(SpansOf(q[s])) <= SegmentBytes
          BY <1>1, <2>1, <2>6, <3>1
        <4>5. QED
          BY <1>0, <3>1, <4>1, <4>2, <4>3, <4>4
      <3>2. CASE s # k
        <4>1. more[s] = ends[s] /\ more[s - 1] = ends[s - 1] /\ q[s] = p[s]
          <5>1. s - 1 \in 0..k /\ s \in 0..k /\ s - 1 # k
            BY <1>0
          <5>2. QED
            BY <2>3, <2>5, <3>2, <5>1
        <4>2. QED
          BY <1>s, <4>1
      <3>3. QED
        BY <3>1, <3>2
    <2>8. more[0] = 0
      <3>1. 0 \in 0..k /\ 0 # k
        BY <1>0, <2>1
      <3>2. QED
        BY <1>e, <2>5, <3>1
    <2>9. Stretches(tiles, q, n, more)
      BY <2>3, <2>5, <2>7, <2>8 DEF Stretches
    <2>10. QED
      BY <2>9 DEF q, tile
  <1>2. CASE ~(p # <<>> /\ Bytes(SpansOf(Last(p)) \cup {tile.span}) <= SegmentBytes)
    <2> DEFINE q == Pack(p, tile)
               one == <<tile>>
               more == [s \in 0..(k + 1) |-> IF s = k + 1 THEN n ELSE ends[s]]
    <2>1. q = Append(p, one)
      BY <1>2 DEF Pack
    <2>2. one \in Seq(T) /\ Len(one) = 1 /\ one[1] = tile
      BY <1>0
    <2> HIDE DEF one
    <2>3. Len(q) = k + 1 /\ q[k + 1] = one /\ \A s \in 1..k : q[s] = p[s]
      BY <1>0, <2>1, <2>2
    <2>4. ends \in [0..k -> 0..(n - 1)] /\ ends[0] = 0 /\ ends[k] = n - 1
      BY <1>e
    <2>5. /\ more \in [0..(k + 1) -> 0..n] /\ more[k + 1] = n /\ \A s \in 0..k : more[s] = ends[s]
      <3>1. \A s \in 0..(k + 1) : s # k + 1 => s \in 0..k
        BY <1>0
      <3>2. \A s \in 0..k : ends[s] \in 0..n /\ s # k + 1 /\ s \in 0..(k + 1)
        BY <1>0, <2>4
      <3>3. n \in 0..n /\ k + 1 \in 0..(k + 1)
        BY <1>0
      <3>4. QED
        BY <3>1, <3>2, <3>3
    <2> HIDE DEF more, q
    <2>6. ASSUME NEW s \in 1..(k + 1)
          PROVE  /\ more[s - 1] < more[s] /\ Len(q[s]) = more[s] - more[s - 1]
                 /\ \A i \in 1..Len(q[s]) : q[s][i] = tiles[more[s - 1] + i]
                 /\ Bytes(SpansOf(q[s])) <= SegmentBytes \/ Len(q[s]) = 1
                 /\ s < k + 1 => ~(Bytes(SpansOf(q[s]) \cup {tiles[more[s] + 1].span}) <= SegmentBytes)
      <3>1. CASE s = k + 1
        <4>1. more[s] = n /\ more[s - 1] = n - 1 /\ q[s] = one
          BY <1>0, <2>3, <2>4, <2>5, <3>1
        <4>2. \A i \in 1..1 : q[s][i] = tiles[n - 1 + i]
          <5>1. \A i \in 1..1 : i = 1 /\ n - 1 + i = n
            BY <1>0
          <5>2. q[s][1] = tiles[n]
            BY <2>2, <4>1 DEF tile
          <5>3. QED
            BY <5>1, <5>2
        <4>3. more[s - 1] < more[s] /\ Len(q[s]) = 1 /\ Len(q[s]) = more[s] - more[s - 1]
          BY <1>0, <2>2, <4>1
        <4>4. ~(s < k + 1)
          BY <1>0, <3>1
        <4>5. \A i \in 1..Len(q[s]) : q[s][i] = tiles[more[s - 1] + i]
          BY <4>1, <4>2, <4>3
        <4>6. QED
          BY <4>3, <4>4, <4>5
      <3>2. CASE s # k + 1
        <4>1. s \in 1..k /\ s - 1 \in 0..k
          BY <1>0, <3>2
        <4>2. more[s] = ends[s] /\ more[s - 1] = ends[s - 1] /\ q[s] = p[s]
          <5>1. s \in 0..k
            BY <1>0, <4>1
          <5>2. QED
            BY <2>3, <2>5, <4>1, <5>1
        <4>3. /\ more[s - 1] < more[s] /\ Len(q[s]) = more[s] - more[s - 1]
              /\ \A i \in 1..Len(q[s]) : q[s][i] = tiles[more[s - 1] + i]
              /\ Bytes(SpansOf(q[s])) <= SegmentBytes \/ Len(q[s]) = 1
          BY <1>s, <4>1, <4>2
        <4>4. ~(Bytes(SpansOf(q[s]) \cup {tiles[more[s] + 1].span}) <= SegmentBytes)
          <5>1. CASE s = k
            <6>1. p # <<>> /\ Last(p) = q[s] /\ more[s] + 1 = n
              BY <1>0, <2>4, <4>1, <4>2, <5>1 DEF Last
            <6>2. QED
              BY <1>2, <6>1 DEF tile
          <5>2. CASE s # k
            <6>1. s < k
              <7>1. s \in Nat /\ k \in Nat /\ s <= k
                BY <1>0, <4>1
              <7>2. QED
                BY <5>2, <7>1
            <6>2. QED
              BY <1>s, <4>1, <4>2, <6>1
          <5>3. QED
            BY <5>1, <5>2
        <4>5. QED
          BY <4>3, <4>4
      <3>3. QED
        BY <3>1, <3>2
    <2>7. more[0] = 0
      BY <1>0, <2>4, <2>5
    <2>8. Stretches(tiles, q, n, more)
      BY <2>3, <2>5, <2>6, <2>7 DEF Stretches
    <2>9. QED
      BY <2>8 DEF q, tile
  <1>3. QED
    BY <1>1, <1>2

(* plan_area (basemap_download.rs) leaves no tile out, plans none twice and keeps their    *)
(* order; no segment is over the cap but one of a single tile; and none is closed while    *)
(* the next tile would still have fitted.                                                  *)
THEOREM PlanCutsTheArea ==
    ASSUME NEW T, NEW tiles \in Seq(T)
    PROVE  /\ PlanArea(tiles) \in Seq(Seq(T))
           /\ \E ends : Stretches(tiles, PlanArea(tiles), Len(tiles), ends)
  <1> DEFINE good == [n \in 0..Len(tiles) |->
                        {p \in Seq(Seq(T)) : \E ends : Stretches(tiles, p, n, ends)}]
  <1>1. Len(tiles) \in Nat /\ \A n \in 0..Len(tiles) :
            good[n] = {p \in Seq(Seq(T)) : \E ends : Stretches(tiles, p, n, ends)}
    OBVIOUS
  <1> HIDE DEF good
  <1>2. <<>> \in good[0]
    <2>1. <<>> \in Seq(Seq(T)) /\ Len(<<>>) = 0
      OBVIOUS
    <2>2. Stretches(tiles, <<>>, 0, [s \in 0..0 |-> 0])
      BY <2>1 DEF Stretches
    <2>3. good[0] = {p \in Seq(Seq(T)) : \E ends : Stretches(tiles, p, 0, ends)}
      <3>1. 0 \in 0..Len(tiles)
        BY <1>1
      <3>2. QED
        BY <1>1, <3>1
    <2>4. <<>> \in {p \in Seq(Seq(T)) : \E ends : Stretches(tiles, p, 0, ends)}
      BY <2>1, <2>2
    <2>5. QED
      BY <2>3, <2>4
  <1>3. \A n \in 1..Len(tiles) : \A p \in good[n - 1] : Pack(p, tiles[n]) \in good[n]
    <2>1. SUFFICES ASSUME NEW n \in 1..Len(tiles), NEW p \in good[n - 1]
                   PROVE  Pack(p, tiles[n]) \in good[n]
      OBVIOUS
    <2>2. n \in 0..Len(tiles) /\ n - 1 \in 0..Len(tiles) /\ tiles[n] \in T
      BY <1>1
    <2>3. p \in Seq(Seq(T)) /\ \E ends : Stretches(tiles, p, n - 1, ends)
      BY <1>1, <2>2
    <2>4. \E more : Stretches(tiles, Pack(p, tiles[n]), n, more)
      BY <2>3, StretchesOn
    <2>5. Pack(p, tiles[n]) \in Seq(Seq(T))
      BY <2>2, <2>3, PackType
    <2>6. QED
      BY <1>1, <2>2, <2>4, <2>5
  <1>4. PlanArea(tiles) \in good[Len(tiles)] /\ Len(tiles) \in 0..Len(tiles)
    BY <1>1, <1>2, <1>3, PlanKeeps
  <1>5. QED
    BY <1>1, <1>4

(* The spans of some segments of a cut. *)
Over(g, h, S) == UNION {SpansOf(Cuts[g][h][s]) : s \in S}

LEMMA CutType ==
    ASSUME NEW g \in Generations, NEW h \in Halves
    PROVE  /\ Cuts[g][h] \in Seq(Seq({tile \in Tiles : tile.span \in SpansOf(Archive[g][h])}))
           /\ Len(Cuts[g][h]) \in Nat /\ DOMAIN Cuts[g][h] = 1..Len(Cuts[g][h])
           /\ IsFiniteSet(DOMAIN Cuts[g][h]) /\ DOMAIN Cuts[g][h] \in SUBSET (Nat \ {0})
           /\ DOMAIN Cuts[g][h] \in SUBSET Segments
  <1> DEFINE T == {tile \in Tiles : tile.span \in SpansOf(Archive[g][h])}
             cut == PlanArea(Archive[g][h])
  <1>1. Archive[g][h] \in Seq(Tiles)
    BY ArchiveAssumption DEF Tiles
  <1>2. Archive[g][h] \in Seq(T)
    <2> DEFINE a == Archive[g][h]
    <2>1. \A i \in 1..Len(a) : a[i] \in T
      BY <1>1 DEF SpansOf
    <2> HIDE DEF T
    <2>2. Len(a) \in Nat /\ a = [i \in 1..Len(a) |-> a[i]]
      BY <1>1
    <2> HIDE DEF a
    <2>3. a \in Seq(T)
      BY <2>1, <2>2
    <2>4. QED
      BY <2>3 DEF a
  <1>3. cut \in Seq(Seq(T))
    <2> HIDE DEF T
    <2>1. QED
      BY <1>2, PlanType
  <1>4. Cuts[g][h] = cut
    BY DEF Cuts
  <1> HIDE DEF cut, T
  <1>5. Len(cut) \in Nat /\ DOMAIN cut = 1..Len(cut)
    BY <1>3
  <1>6. IsFiniteSet(DOMAIN cut) /\ DOMAIN cut \in SUBSET (Nat \ {0})
    <2>1. 1 \in Int /\ Len(cut) \in Int
      BY <1>5
    <2>2. IsFiniteSet(1..Len(cut))
      BY <2>1, FS_Interval
    <2>3. QED
      BY <1>5, <2>2
  <1>7. DOMAIN Cuts[g][h] \in SUBSET Segments
    <2>1. ASSUME NEW n \in DOMAIN Cuts[g][h] PROVE n \in Segments
      <3>1. DOMAIN Cuts[g][h] \in {DOMAIN Cuts[i][k] : i \in Generations, k \in Halves}
        OBVIOUS
      <3>2. QED
        BY <2>1, <3>1 DEF Segments
    <2>2. QED
      BY <2>1
  <1>8. QED
    BY <1>3, <1>4, <1>5, <1>6, <1>7 DEF T

LEMMA SegmentNumbers == Segments \in SUBSET (Nat \ {0})
  <1>1. ASSUME NEW n \in Segments PROVE n \in Nat \ {0}
    <2>1. \E g \in Generations, h \in Halves : n \in DOMAIN Cuts[g][h]
      BY DEF Segments
    <2>2. QED
      BY <2>1, CutType, Zenon
  <1>2. QED
    BY <1>1

LEMMA SegmentSpans ==
    ASSUME NEW g \in Generations, NEW h \in Halves, NEW s \in DOMAIN Cuts[g][h]
    PROVE  /\ IsFiniteSet(SpansOf(Cuts[g][h][s])) /\ SpansOf(Cuts[g][h][s]) \in SUBSET Span
           /\ SpansOf(Cuts[g][h][s]) \in SUBSET AllSpans
  <1> DEFINE T == {tile \in Tiles : tile.span \in SpansOf(Archive[g][h])}
             segment == Cuts[g][h][s]
             span == [i \in DOMAIN segment |-> segment[i].span]
  <1>1. Cuts[g][h] \in Seq(Seq(T))
    BY CutType
  <1>2. segment \in Seq(T)
    <2> HIDE DEF T
    <2>1. QED
      BY <1>1
  <1>3. Len(segment) \in Nat /\ DOMAIN segment = 1..Len(segment)
        /\ \A i \in DOMAIN segment : segment[i] \in T
    <2> HIDE DEF T, segment
    <2>1. QED
      BY <1>2
  <1> HIDE DEF segment
  <1>4. IsFiniteSet(DOMAIN segment)
    <2>1. 1 \in Int /\ Len(segment) \in Int
      BY <1>3
    <2>2. QED
      BY <1>3, <2>1, FS_Interval
  <1>5. SpansOf(segment) = {span[i] : i \in DOMAIN segment}
    BY DEF SpansOf
  <1>6. span \in Surjection(DOMAIN segment, SpansOf(segment))
    BY <1>5 DEF Surjection
  <1>7. IsFiniteSet(SpansOf(segment))
    BY <1>4, <1>6, FS_Surjection
  <1>8. SpansOf(segment) \in SUBSET Span
    BY <1>3 DEF SpansOf, Tiles
  <1>9. SpansOf(segment) \in SUBSET SpansOf(Archive[g][h])
    <2>1. \A i \in DOMAIN segment : segment[i].span \in SpansOf(Archive[g][h])
      BY <1>3
    <2>2. SpansOf(segment) = {segment[i].span : i \in DOMAIN segment}
      BY DEF SpansOf
    <2>3. QED
      BY <2>1, <2>2
  <1>10. SpansOf(Archive[g][h]) \in SUBSET AllSpans
    <2>1. SpansOf(Archive[g][h]) \in {SpansOf(Archive[i][k]) : i \in Generations, k \in Halves}
      OBVIOUS
    <2>2. QED
      BY <2>1 DEF AllSpans
  <1>11. QED
    BY <1>7, <1>8, <1>9, <1>10 DEF segment

LEMMA OverFinite ==
    ASSUME NEW g \in Generations, NEW h \in Halves, NEW S \in SUBSET DOMAIN Cuts[g][h]
    PROVE  /\ IsFiniteSet(Over(g, h, S)) /\ Over(g, h, S) \in SUBSET Span
           /\ Over(g, h, S) \in SUBSET AllSpans /\ Bytes(Over(g, h, S)) \in Nat
  <1> DEFINE of == [s \in S |-> SpansOf(Cuts[g][h][s])]
             T == {of[s] : s \in S}
  <1>1. IsFiniteSet(S)
    BY CutType, FS_Subset
  <1>2. of \in Surjection(S, T)
    BY DEF Surjection
  <1>3. \A s \in S : /\ of[s] = SpansOf(Cuts[g][h][s])
                     /\ IsFiniteSet(of[s]) /\ of[s] \in SUBSET Span /\ of[s] \in SUBSET AllSpans
    BY SegmentSpans
  <1>4. Over(g, h, S) = UNION T
    BY DEF Over
  <1> HIDE DEF of
  <1>5. /\ IsFiniteSet(T) /\ \A B \in T : IsFiniteSet(B)
        /\ UNION T \in SUBSET Span /\ UNION T \in SUBSET AllSpans
    BY <1>1, <1>2, <1>3, FS_Surjection
  <1> HIDE DEF T
  <1>6. IsFiniteSet(UNION T)
    BY <1>5, FS_UNION
  <1>7. QED
    BY <1>4, <1>5, <1>6, BytesFinite
-----------------------------------------------------------------------------
(* What a run transfers. *)

Typed(r) ==
    /\ r \in Run
    /\ \A h \in Halves : r.missing[h] \in SUBSET DOMAIN Cuts[r.gen][h]
    /\ r.half = "Terrain" => r.missing["Basemap"] = {}

Moved(r) == r.moved["Basemap"] + r.moved["Terrain"]

(* What it has still to transfer: of the archive it builds, and of the other. *)
Rest(r) == Spans(r, r.missing[r.half]) \ r.held
Later(r) == IF r.half = "Basemap" THEN RunBytes(r, "Terrain") ELSE 0

(* The bytes moved and the bytes to come are what was quoted; no more, after a failure. *)
Balance(r) ==
    /\ Moved(r) + (Bytes(Rest(r)) + Later(r)) <= r.due
    /\ ~r.failed => Moved(r) + (Bytes(Rest(r)) + Later(r)) = r.due

(* Nothing is transferred before both archives are planned. *)
Unquoted(r) ==
    /\ r.half = "Basemap" /\ r.held = {} /\ r.due = 0
    /\ r.moved["Basemap"] = 0 /\ r.moved["Terrain"] = 0

Quoted(r) ==
    /\ r.pc # "ended" => r.outcome = "running"
    /\ r.pc \in {"basemap", "terrain"} => Unquoted(r)
    /\ r.pc \in {"fetch", "write", "rename"} => Balance(r) /\ r.missing[r.half] # {}
    /\ r.pc \in {"write", "rename"} => Needed(r) = {}
    /\ r.pc = "ended" => Moved(r) <= r.due /\ (r.outcome = "Complete" => Moved(r) = r.due)

Good(r) == Typed(r) /\ Quoted(r)

LEMMA MovedType == ASSUME NEW r \in Run PROVE Moved(r) \in Nat /\ r.due \in Nat
  BY DEF Run, Moved, Halves

LEMMA RestFinite ==
    ASSUME NEW r, Typed(r)
    PROVE  /\ \A S \in SUBSET r.missing[r.half] :
                 /\ Spans(r, S) \in SUBSET Span /\ IsFiniteSet(Spans(r, S))
                 /\ Spans(r, S) \in SUBSET AllSpans
           /\ Rest(r) \in SUBSET Span /\ IsFiniteSet(Rest(r)) /\ Bytes(Rest(r)) \in Nat
           /\ Rest(r) \in SUBSET AllSpans
           /\ \A h \in Halves : RunBytes(r, h) \in Nat
           /\ Later(r) \in Nat
  <1>1. r.gen \in Generations /\ r.half \in Halves /\ "Terrain" \in Halves
    BY DEF Typed, Run, Halves
  <1>2. ASSUME NEW S \in SUBSET r.missing[r.half]
        PROVE  /\ Spans(r, S) \in SUBSET Span /\ IsFiniteSet(Spans(r, S))
               /\ Spans(r, S) \in SUBSET AllSpans
    <2>1. S \in SUBSET DOMAIN Cuts[r.gen][r.half]
      BY <1>1 DEF Typed
    <2>2. Spans(r, S) = Over(r.gen, r.half, S)
      BY DEF Spans, Over
    <2>3. QED
      BY <1>1, <2>1, <2>2, OverFinite
  <1>3. /\ Spans(r, r.missing[r.half]) \in SUBSET Span /\ IsFiniteSet(Spans(r, r.missing[r.half]))
        /\ Spans(r, r.missing[r.half]) \in SUBSET AllSpans
    BY <1>2
  <1>4. /\ Rest(r) \in SUBSET Span /\ IsFiniteSet(Rest(r)) /\ Rest(r) \in SUBSET AllSpans
    BY <1>3, FS_Difference DEF Rest
  <1>5. Bytes(Rest(r)) \in Nat
    BY <1>4, BytesFinite
  <1>6. ASSUME NEW h \in Halves PROVE RunBytes(r, h) \in Nat
    <2>1. r.missing[h] \in SUBSET DOMAIN Cuts[r.gen][h]
      BY DEF Typed
    <2>2. RunBytes(r, h) = Bytes(Over(r.gen, h, r.missing[h]))
      BY DEF RunBytes, Over
    <2>3. QED
      BY <1>1, <2>1, <2>2, OverFinite
  <1>7. Later(r) \in Nat
    BY <1>1, <1>6 DEF Later
  <1>8. QED
    BY <1>2, <1>4, <1>5, <1>6, <1>7

(* The segment a run is on is one it is missing. *)
LEMMA CurrentMissing ==
    ASSUME NEW r, Typed(r), r.missing[r.half] # {}
    PROVE  /\ Current(r) \in r.missing[r.half]
           /\ Current(r) \in DOMAIN Cuts[r.gen][r.half] /\ Current(r) \in Segments
  <1> DEFINE S == r.missing[r.half]
  <1>1. r.gen \in Generations /\ r.half \in Halves
    BY DEF Typed, Run
  <1>2. S \in SUBSET DOMAIN Cuts[r.gen][r.half]
    BY <1>1 DEF Typed
  <1>3. S \in SUBSET Nat /\ DOMAIN Cuts[r.gen][r.half] \in SUBSET Segments
    BY <1>1, <1>2, CutType
  <1>4. Current(r) = Min(S)
    BY DEF Current
  <1> HIDE DEF S
  <1>5. S # {}
    BY DEF S
  <1>6. \E n \in S : \A m \in S : n <= m
    BY <1>3, <1>5, LeastOf
  <1>7. Min(S) \in S
    BY <1>6 DEF Min
  <1>8. QED
    BY <1>2, <1>3, <1>4, <1>7 DEF S

(* To the next segment, or to the end, with the balance it had. *)
LEMMA ProceedGood ==
    ASSUME NEW r, Typed(r), Balance(r), r.outcome = "running"
    PROVE  Good(Proceed(r))
  <1>0. r \in Run /\ r.gen \in Generations /\ r.half \in Halves /\ r.failed \in BOOLEAN
    BY DEF Typed, Run
  <1>a. /\ Moved(r) \in Nat /\ r.due \in Nat /\ Bytes(Rest(r)) \in Nat /\ Later(r) \in Nat
        /\ RunBytes(r, "Terrain") \in Nat
    BY <1>0, MovedType, RestFinite DEF Halves
  <1>1. CASE r.missing[r.half] # {}
    <2> DEFINE s == [r EXCEPT !.pc = "fetch"]
    <2>1. Proceed(r) = s
      BY <1>1 DEF Proceed
    <2>2. s \in Run
      BY <1>0 DEF Run
    <2>3. /\ s.pc = "fetch" /\ s.half = r.half /\ s.missing = r.missing /\ s.gen = r.gen
          /\ s.held = r.held /\ s.moved = r.moved /\ s.due = r.due /\ s.failed = r.failed
          /\ s.outcome = r.outcome
      BY <1>0 DEF Run
    <2> HIDE DEF s
    <2>4. Typed(s)
      BY <2>2, <2>3, Zenon DEF Typed
    <2>5. Moved(s) = Moved(r) /\ Rest(s) = Rest(r) /\ Later(s) = Later(r)
      BY <2>3, Zenon DEF Moved, Rest, Later, Spans, RunBytes
    <2>6. Quoted(s)
      BY <1>1, <2>3, <2>5 DEF Quoted, Balance
    <2>7. QED
      BY <2>1, <2>4, <2>6 DEF Good
  <1>2. CASE r.missing[r.half] = {} /\ r.missing["Terrain"] # {}
    <2> DEFINE s == [r EXCEPT !.half = "Terrain", !.held = {}, !.pc = "fetch"]
    <2>1. Proceed(r) = s
      BY <1>2 DEF Proceed
    <2>2. s \in Run
      BY <1>0 DEF Run, Halves
    <2>3. /\ s.pc = "fetch" /\ s.half = "Terrain" /\ s.missing = r.missing /\ s.gen = r.gen
          /\ s.held = {} /\ s.moved = r.moved /\ s.due = r.due /\ s.failed = r.failed
          /\ s.outcome = r.outcome
      BY <1>0 DEF Run
    <2> HIDE DEF s
    <2>4. r.half = "Basemap" /\ r.missing["Basemap"] = {}
      BY <1>0, <1>2 DEF Halves
    <2>5. Typed(s)
      BY <2>2, <2>3, <2>4, Zenon DEF Typed
    <2>6. Moved(s) = Moved(r) /\ Later(s) = 0 /\ Bytes(Rest(s)) = RunBytes(r, "Terrain")
      <3>1. Rest(s) = UNION {SpansOf(Cuts[r.gen]["Terrain"][x]) : x \in r.missing["Terrain"]}
        BY <2>3 DEF Rest, Spans
      <3>2. QED
        BY <2>3, <3>1 DEF Moved, Later, RunBytes
    <2>7. Bytes(Rest(r)) = 0 /\ Later(r) = RunBytes(r, "Terrain")
      <3>1. Rest(r) = {}
        BY <1>2 DEF Rest, Spans
      <3>2. QED
        BY <2>4, <3>1, NoBytes DEF Later
    <2>8. Balance(s)
      BY <1>a, <2>3, <2>6, <2>7 DEF Balance
    <2>9. Quoted(s)
      BY <1>2, <2>3, <2>8 DEF Quoted
    <2>10. QED
      BY <2>1, <2>5, <2>9 DEF Good
  <1>3. CASE r.missing[r.half] = {} /\ r.missing["Terrain"] = {}
    <2> DEFINE s == [r EXCEPT !.pc = "ended", !.held = {}, !.outcome = Verdict(r)]
    <2>1. Proceed(r) = s
      BY <1>3 DEF Proceed, Ended
    <2>2. Verdict(r) \in Outcome /\ (Verdict(r) = "Complete" => ~r.failed)
      BY DEF Verdict, Outcome
    <2>3. s \in Run
      BY <1>0, <2>2 DEF Run
    <2>4. /\ s.pc = "ended" /\ s.half = r.half /\ s.missing = r.missing /\ s.gen = r.gen
          /\ s.moved = r.moved /\ s.due = r.due /\ s.outcome = Verdict(r)
      BY <1>0 DEF Run
    <2> HIDE DEF s
    <2>5. Typed(s)
      BY <2>3, <2>4, Zenon DEF Typed
    <2>6. Bytes(Rest(r)) = 0 /\ Later(r) = 0
      <3>1. Rest(r) = {}
        BY <1>3 DEF Rest, Spans
      <3>2. RunBytes(r, "Terrain") = Bytes({})
        BY <1>3 DEF RunBytes
      <3>3. QED
        BY <3>1, <3>2, NoBytes DEF Later
    <2>7. Moved(s) = Moved(r)
      BY <2>4 DEF Moved
    <2>8. Quoted(s)
      BY <1>a, <2>2, <2>4, <2>6, <2>7 DEF Quoted, Balance
    <2>9. QED
      BY <2>1, <2>5, <2>8 DEF Good
  <1>4. QED
    BY <1>1, <1>2, <1>3

(* A segment ends: what it had still to read is no longer to come, and when it ends well *)
(* it had nothing.                                                                       *)
LEMMA SegmentEndsGood ==
    ASSUME NEW r, NEW ok \in BOOLEAN, Good(r), r.pc \in {"fetch", "write", "rename"},
           ok => Needed(r) = {}
    PROVE  Good(SegmentEnds(r, ok))
  <1> DEFINE d == IF ok THEN r.done + 1 ELSE r.done
             s == [r EXCEPT !.done = d, !.failed = r.failed \/ ~ok, !.held = Carried(r),
                            !.missing = Past(r)]
  <1>1. SegmentEnds(r, ok) = Proceed(s)
    BY Zenon DEF SegmentEnds
  <1>2. /\ r \in Run /\ Typed(r) /\ r.outcome = "running" /\ Balance(r) /\ r.missing[r.half] # {}
        /\ r.gen \in Generations /\ r.half \in Halves /\ r.failed \in BOOLEAN
        /\ r.missing \in [Halves -> SUBSET Segments] /\ r.held \in SUBSET AllSpans
        /\ r.done \in Nat
    BY DEF Good, Quoted, Typed, Run
  <1>3. d \in Nat /\ (r.failed \/ ~ok) \in BOOLEAN /\ Carried(r) \in SUBSET AllSpans
    BY <1>2 DEF Carried
  <1>4. /\ Past(r) \in [Halves -> SUBSET Segments]
        /\ Past(r)[r.half] = r.missing[r.half] \ {Current(r)}
        /\ \A h \in Halves : h # r.half => Past(r)[h] = r.missing[h]
    BY <1>2 DEF Past
  <1> HIDE DEF d
  <1>5. s \in Run
    BY <1>2, <1>3, <1>4 DEF Run
  <1>6. /\ s.half = r.half /\ s.missing = Past(r) /\ s.gen = r.gen /\ s.held = Carried(r)
        /\ s.moved = r.moved /\ s.due = r.due /\ s.failed = (r.failed \/ ~ok)
        /\ s.outcome = r.outcome
    BY <1>2 DEF Run
  <1> HIDE DEF s
  <1>7. Typed(s)
    <2>1. \A h \in Halves : Past(r)[h] \in SUBSET r.missing[h]
      BY <1>2, <1>4
    <2>2. \A h \in Halves : s.missing[h] \in SUBSET DOMAIN Cuts[s.gen][h]
      BY <1>2, <1>6, <2>1 DEF Typed
    <2>3. s.half = "Terrain" => s.missing["Basemap"] = {}
      BY <1>2, <1>6, <2>1 DEF Typed, Halves
    <2>4. QED
      BY <1>5, <2>2, <2>3 DEF Typed
  <1>8. Rest(s) \in SUBSET Rest(r) /\ (ok => Rest(s) = Rest(r))
    <2> DEFINE c == Current(r)
               M == r.missing[r.half]
               of == [x \in M |-> SpansOf(Cuts[r.gen][r.half][x])]
    <2>1. c \in M
      BY <1>2, CurrentMissing
    <2>2. /\ Spans(r, M) = UNION {of[x] : x \in M} /\ Spans(r, {c}) = of[c]
          /\ Spans(r, M \ {c}) = UNION {of[x] : x \in M \ {c}}
      BY <2>1 DEF Spans
    <2>3. Spans(s, M \ {c}) = Spans(r, M \ {c})
      BY <1>6 DEF Spans
    <2>4. Rest(s) = Spans(r, M \ {c}) \ (r.held \cap Spans(r, M \ {c}))
      <3>1. s.missing[s.half] = M \ {c}
        BY <1>4, <1>6
      <3>2. s.held = r.held \cap Spans(r, M \ {c})
        BY <1>6 DEF Carried
      <3>3. QED
        BY <2>3, <3>1, <3>2 DEF Rest
    <2>5. Rest(r) = Spans(r, M) \ r.held /\ Needed(r) = Spans(r, {c}) \ r.held
      BY DEF Rest, Needed
    <2> HIDE DEF c, M, of
    <2>6. QED
      BY <2>1, <2>2, <2>4, <2>5
  <1>9. Moved(s) = Moved(r) /\ Later(s) = Later(r)
    <2>1. RunBytes(s, "Terrain") = RunBytes(r, "Terrain") \/ r.half # "Basemap"
      <3>1. r.half = "Basemap" => s.missing["Terrain"] = r.missing["Terrain"]
        BY <1>4, <1>6 DEF Halves
      <3>2. QED
        BY <1>6, <3>1 DEF RunBytes
    <2>2. QED
      BY <1>6, <2>1 DEF Moved, Later
  <1>10. Balance(s)
    <2>1. /\ Rest(r) \in SUBSET Span /\ IsFiniteSet(Rest(r)) /\ Bytes(Rest(r)) \in Nat
          /\ Later(r) \in Nat /\ Moved(r) \in Nat /\ r.due \in Nat
      BY <1>2, RestFinite, MovedType
    <2>2. Bytes(Rest(s)) <= Bytes(Rest(r)) /\ Bytes(Rest(s)) \in Nat
      <3>1. Bytes(Rest(s)) <= Bytes(Rest(r))
        BY <1>8, <2>1, BytesPart
      <3>2. QED
        BY <1>7, <3>1, RestFinite
    <2>3. ok => Bytes(Rest(s)) = Bytes(Rest(r))
      BY <1>8
    <2>4. ~s.failed => ~r.failed /\ ok
      BY <1>6, Zenon
    <2>5. Moved(s) + (Bytes(Rest(s)) + Later(s)) <= Moved(r) + (Bytes(Rest(r)) + Later(r))
      BY <1>9, <2>1, <2>2
    <2>6. /\ Moved(r) + (Bytes(Rest(r)) + Later(r)) <= r.due
          /\ ~r.failed => Moved(r) + (Bytes(Rest(r)) + Later(r)) = r.due
      BY <1>2 DEF Balance
    <2>7. Moved(s) + (Bytes(Rest(s)) + Later(s)) <= s.due
      BY <1>6, <1>9, <2>1, <2>2, <2>5, <2>6
    <2>8. ~s.failed => Moved(s) + (Bytes(Rest(s)) + Later(s)) = s.due
      BY <1>6, <1>9, <2>3, <2>4, <2>6, Zenon
    <2>9. QED
      BY <2>7, <2>8 DEF Balance
  <1>11. QED
    BY <1>1, <1>2, <1>6, <1>7, <1>10, ProceedGood

(* Half h is planned: the first planning is of the base map. *)
LEMMA PlannedGood ==
    ASSUME NEW r, NEW h \in Halves, NEW existing, Good(r), r.pc \in {"basemap", "terrain"}
    PROVE  /\ Typed(Planned(r, h, existing)) /\ Unquoted(Planned(r, h, existing))
           /\ Planned(r, h, existing).pc = r.pc
           /\ Planned(r, h, existing).outcome = "running"
           /\ Planned(r, h, existing).failed = r.failed
           /\ Planned(r, h, existing).terrain = r.terrain
  <1> DEFINE m == [r.missing EXCEPT ![h] = DOMAIN Cuts[r.gen][h] \ existing]
             n == r.done + Cardinality(DOMAIN Cuts[r.gen][h] \cap existing)
             p == r.planned \cup {h}
             s == [r EXCEPT !.planned = p, !.missing = m, !.done = n]
  <1>1. Planned(r, h, existing) = s
    BY Zenon DEF Planned
  <1>2. /\ r \in Run /\ Typed(r) /\ r.outcome = "running" /\ Unquoted(r)
        /\ r.gen \in Generations /\ r.missing \in [Halves -> SUBSET Segments]
        /\ r.done \in Nat /\ r.planned \in SUBSET Halves
    BY DEF Good, Quoted, Typed, Run
  <1>3. /\ DOMAIN Cuts[r.gen][h] \in SUBSET Segments /\ IsFiniteSet(DOMAIN Cuts[r.gen][h])
    BY <1>2, CutType
  <1>4. n \in Nat
    <2>1. Cardinality(DOMAIN Cuts[r.gen][h] \cap existing) \in Nat
      BY <1>3, FS_Intersection, FS_CardinalityType
    <2>2. QED
      BY <1>2, <2>1
  <1>5. /\ m \in [Halves -> SUBSET Segments] /\ p \in SUBSET Halves
        /\ \A g \in Halves : m[g] \in SUBSET DOMAIN Cuts[r.gen][g]
    BY <1>2, <1>3 DEF Typed
  <1> HIDE DEF m, n, p
  <1>6. s \in Run
    BY <1>2, <1>4, <1>5 DEF Run
  <1>7. /\ s.half = r.half /\ s.missing = m /\ s.gen = r.gen /\ s.held = r.held
        /\ s.moved = r.moved /\ s.due = r.due /\ s.failed = r.failed /\ s.pc = r.pc
        /\ s.outcome = r.outcome /\ s.terrain = r.terrain
    BY <1>2 DEF Run
  <1> HIDE DEF s
  <1>8. Typed(s) /\ Unquoted(s)
    BY <1>2, <1>5, <1>6, <1>7 DEF Typed, Unquoted
  <1>9. QED
    BY <1>1, <1>2, <1>7, <1>8

(* Both halves are planned: what they are to transfer is what is quoted. *)
LEMMA BuildingGood ==
    ASSUME NEW r, Typed(r), Unquoted(r), r.outcome = "running"
    PROVE  Good(Building(r))
  <1> DEFINE due == RunBytes(r, "Basemap") + RunBytes(r, "Terrain")
             total == Len(Cuts[r.gen]["Basemap"])
                      + IF "Terrain" \in r.planned THEN Len(Cuts[r.gen]["Terrain"]) ELSE 0
             s == [r EXCEPT !.due = due, !.total = total]
  <1>1. Building(r) = Proceed(s)
    BY Zenon DEF Building
  <1>2. r \in Run /\ r.gen \in Generations /\ "Basemap" \in Halves /\ "Terrain" \in Halves
    BY DEF Typed, Run, Halves
  <1>3. RunBytes(r, "Basemap") \in Nat /\ RunBytes(r, "Terrain") \in Nat
    BY <1>2, RestFinite
  <1>4. Len(Cuts[r.gen]["Basemap"]) \in Nat /\ Len(Cuts[r.gen]["Terrain"]) \in Nat
    BY <1>2, CutType
  <1>5. due \in Nat /\ total \in Nat
    <2> DEFINE base == Len(Cuts[r.gen]["Basemap"])
               shade == Len(Cuts[r.gen]["Terrain"])
               more == IF "Terrain" \in r.planned THEN shade ELSE 0
    <2>1. base \in Nat /\ shade \in Nat
      BY <1>4
    <2>2. total = base + more /\ due \in Nat
      BY <1>3
    <2> HIDE DEF base, shade
    <2>3. more \in Nat
      BY <2>1
    <2> HIDE DEF more, total, due
    <2>4. QED
      BY <2>1, <2>2, <2>3
  <1>6. due = RunBytes(r, "Basemap") + RunBytes(r, "Terrain")
    OBVIOUS
  <1> HIDE DEF due, total
  <1>7. s \in Run
    BY <1>2, <1>5 DEF Run
  <1>8. /\ s.half = r.half /\ s.missing = r.missing /\ s.gen = r.gen /\ s.held = r.held
        /\ s.moved = r.moved /\ s.due = due /\ s.outcome = r.outcome
    BY <1>2 DEF Run
  <1> HIDE DEF s
  <1>9. Typed(s)
    BY <1>7, <1>8 DEF Typed
  <1>10. Bytes(Rest(s)) = RunBytes(r, "Basemap") /\ Later(s) = RunBytes(r, "Terrain")
    <2>1. Rest(s) = UNION {SpansOf(Cuts[r.gen]["Basemap"][x]) : x \in r.missing["Basemap"]}
      BY <1>8 DEF Rest, Spans, Unquoted
    <2>2. QED
      BY <1>8, <2>1 DEF Later, RunBytes, Unquoted
  <1>11. Moved(s) = 0
    BY <1>8 DEF Moved, Unquoted
  <1>12. Balance(s)
    BY <1>3, <1>6, <1>8, <1>10, <1>11 DEF Balance
  <1>13. QED
    BY <1>1, <1>8, <1>9, <1>12, ProceedGood

(* A read is of spans the segment needs: what is moved is no longer to come. *)
LEMMA FetchGood ==
    ASSUME NEW r, NEW spans \in SUBSET Needed(r), Good(r), r.pc = "fetch"
    PROVE  Good([r EXCEPT !.held = @ \cup spans, !.moved[r.half] = @ + Bytes(spans)])
  <1> DEFINE moved == [r.moved EXCEPT ![r.half] = @ + Bytes(spans)]
             held == r.held \cup spans
             s == [r EXCEPT !.held = held, !.moved = moved]
  <1>1. [r EXCEPT !.held = @ \cup spans, !.moved[r.half] = @ + Bytes(spans)] = s
    OBVIOUS
  <1>2. /\ r \in Run /\ Typed(r) /\ r.outcome = "running" /\ Balance(r) /\ r.missing[r.half] # {}
        /\ r.half \in Halves /\ r.moved \in [Halves -> Nat] /\ r.held \in SUBSET AllSpans
        /\ r.failed \in BOOLEAN
    BY DEF Good, Quoted, Typed, Run
  <1>3. /\ Rest(r) \in SUBSET Span /\ IsFiniteSet(Rest(r)) /\ Bytes(Rest(r)) \in Nat
        /\ Rest(r) \in SUBSET AllSpans
        /\ Later(r) \in Nat /\ Moved(r) \in Nat /\ r.due \in Nat
    BY <1>2, RestFinite, MovedType
  <1>4. spans \in SUBSET Rest(r)
    <2>1. Current(r) \in r.missing[r.half]
      BY <1>2, CurrentMissing
    <2>2. Spans(r, {Current(r)}) \in SUBSET Spans(r, r.missing[r.half])
      BY <2>1 DEF Spans
    <2>3. QED
      BY <2>2 DEF Rest, Needed
  <1>5. /\ Bytes(Rest(r)) = Bytes(spans) + Bytes(Rest(r) \ spans)
        /\ Bytes(spans) \in Nat /\ Bytes(Rest(r) \ spans) \in Nat
    <2>1. /\ IsFiniteSet(spans) /\ IsFiniteSet(Rest(r) \ spans)
          /\ Bytes(Rest(r)) = Bytes(spans) + Bytes(Rest(r) \ spans)
      BY <1>3, <1>4, BytesPart
    <2>2. spans \in SUBSET Span /\ Rest(r) \ spans \in SUBSET Span
      BY <1>3, <1>4
    <2>3. QED
      BY <2>1, <2>2, BytesFinite
  <1>6. /\ moved \in [Halves -> Nat] /\ held \in SUBSET AllSpans
        /\ moved["Basemap"] + moved["Terrain"] = Moved(r) + Bytes(spans)
    <2>1. moved \in [Halves -> Nat] /\ held \in SUBSET AllSpans
      BY <1>2, <1>3, <1>4, <1>5
    <2>2. r.moved["Basemap"] \in Nat /\ r.moved["Terrain"] \in Nat
      BY <1>2 DEF Halves
    <2>3. CASE r.half = "Basemap"
      <3>1. moved["Basemap"] = r.moved["Basemap"] + Bytes(spans) /\ moved["Terrain"] = r.moved["Terrain"]
        BY <1>2, <2>3 DEF Halves
      <3>2. QED
        BY <1>5, <2>1, <2>2, <3>1 DEF Moved
    <2>4. CASE r.half = "Terrain"
      <3>1. moved["Terrain"] = r.moved["Terrain"] + Bytes(spans) /\ moved["Basemap"] = r.moved["Basemap"]
        BY <1>2, <2>4 DEF Halves
      <3>2. QED
        BY <1>5, <2>1, <2>2, <3>1 DEF Moved
    <2>5. QED
      BY <1>2, <2>3, <2>4 DEF Halves
  <1>7. held = r.held \cup spans
    OBVIOUS
  <1> HIDE DEF moved, held
  <1>8. s \in Run
    BY <1>2, <1>6 DEF Run
  <1>9. /\ s.half = r.half /\ s.missing = r.missing /\ s.gen = r.gen /\ s.held = held
        /\ s.moved = moved /\ s.due = r.due /\ s.outcome = r.outcome /\ s.pc = r.pc
        /\ s.failed = r.failed
    BY <1>2 DEF Run
  <1> HIDE DEF s
  <1>10. Typed(s)
    BY <1>2, <1>8, <1>9 DEF Typed
  <1>11. Rest(s) = Rest(r) \ spans /\ Later(s) = Later(r) /\ Moved(s) = Moved(r) + Bytes(spans)
    <2>1. Rest(s) = Rest(r) \ spans
      BY <1>7, <1>9 DEF Rest, Spans
    <2>2. Later(s) = Later(r)
      BY <1>9 DEF Later, RunBytes
    <2>3. QED
      BY <1>6, <1>9, <2>1, <2>2 DEF Moved
  <1>12. Balance(s)
    BY <1>2, <1>3, <1>5, <1>9, <1>11 DEF Balance
  <1>13. Quoted(s)
    BY <1>2, <1>9, <1>12 DEF Quoted
  <1>14. QED
    BY <1>1, <1>10, <1>13 DEF Good

(* A run goes on to another step of publishing a segment it has all of. *)
LEMMA PcGood ==
    ASSUME NEW r, NEW v \in {"write", "rename"}, Good(r), r.pc \in {"fetch", "write"},
           Needed(r) = {}
    PROVE  Good([r EXCEPT !.pc = v])
  <1> DEFINE s == [r EXCEPT !.pc = v]
  <1>1. r \in Run
    BY DEF Good, Typed
  <1>2. s \in Run
    BY <1>1 DEF Run
  <1>3. /\ s.half = r.half /\ s.missing = r.missing /\ s.gen = r.gen /\ s.held = r.held
        /\ s.moved = r.moved /\ s.due = r.due /\ s.outcome = r.outcome /\ s.pc = v
        /\ s.failed = r.failed
    BY <1>1 DEF Run
  <1> HIDE DEF s
  <1>4. Typed(s)
    BY <1>2, <1>3 DEF Good, Typed
  <1>5. /\ Rest(s) = Rest(r) /\ Later(s) = Later(r) /\ Moved(s) = Moved(r)
        /\ Needed(s) = Needed(r)
    BY <1>3, Zenon DEF Rest, Spans, Later, RunBytes, Moved, Needed, Current
  <1>6. Quoted(s)
    BY <1>3, <1>5 DEF Good, Quoted, Balance
  <1>7. QED
    BY <1>4, <1>6 DEF Good, s

-----------------------------------------------------------------------------
(* The directory and the runs, typed. *)

Filed(files) == DOMAIN files \in SUBSET Name /\ \A n \in DOMAIN files : files[n] \in File

RunsGood(runs) == DOMAIN runs = Slots /\ \A e \in Slots : runs[e] # None => Good(runs[e])

LEMMA PartName ==
    ASSUME NEW r, Good(r), r.pc \in {"fetch", "write", "rename"}
    PROVE  PartOf(r) \in Name /\ Published(PartOf(r)) \in Name
  <1>1. r.area \in Areas /\ r.half \in Halves /\ Typed(r) /\ r.missing[r.half] # {}
    BY DEF Good, Quoted, Typed, Run
  <1>2. Current(r) \in Segments
    BY <1>1, CurrentMissing
  <1>3. PartOf(r) \in Name
    BY <1>1, <1>2 DEF PartOf, NameOf, Name
  <1>4. QED
    BY <1>3 DEF Published, Name

LEMMA OpenedFiled ==
    ASSUME NEW files, Filed(files), NEW n \in Name, NEW e \in Slots, NEW g \in Generations
    PROVE  Filed(Opened(files, n, e, g))
  <1> DEFINE before == IF n \in DOMAIN files THEN files[n].writing ELSE {}
             f == [gen |-> g, torn |-> FALSE, writing |-> {e} \cup before]
             more == With(files, n, f)
  <1>1. Opened(files, n, e, g) = more
    BY DEF Opened
  <1>2. before \in SUBSET Slots
    BY DEF Filed, File
  <1> HIDE DEF before
  <1>3. f \in File
    BY <1>2 DEF File
  <1> HIDE DEF f
  <1>4. /\ DOMAIN more = DOMAIN files \cup {n}
        /\ \A m \in DOMAIN more : more[m] = IF m = n THEN f ELSE files[m]
    BY DEF With
  <1> HIDE DEF more
  <1>5. QED
    BY <1>1, <1>3, <1>4 DEF Filed

LEMMA ClosedFiled ==
    ASSUME NEW e, NEW torn \in BOOLEAN, Filed(disk)
    PROVE  Filed(Closed(e, torn))
  <1>1. /\ DOMAIN Closed(e, torn) = DOMAIN disk
        /\ \A n \in DOMAIN disk : Closed(e, torn)[n] =
              IF e \in disk[n].writing
              THEN [disk[n] EXCEPT !.writing = @ \ {e}, !.torn = @ \/ torn] ELSE disk[n]
    BY DEF Closed
  <1>2. ASSUME NEW n \in DOMAIN disk PROVE Closed(e, torn)[n] \in File
    <2> DEFINE f == disk[n]
               w == f.writing \ {e}
               t == f.torn \/ torn
    <2>1. f \in File
      BY DEF Filed
    <2>2. w \in SUBSET Slots /\ t \in BOOLEAN
      BY <2>1 DEF File
    <2>3. Closed(e, torn)[n] = IF e \in f.writing THEN [f EXCEPT !.writing = w, !.torn = t] ELSE f
      BY <1>1
    <2> HIDE DEF w, t, f
    <2>4. QED
      BY <2>1, <2>2, <2>3 DEF File
  <1>3. QED
    BY <1>1, <1>2 DEF Filed

LEMMA WithoutFiled ==
    ASSUME NEW files, Filed(files), NEW n
    PROVE  Filed(Without(files, n))
  BY DEF Filed, Without

LEMMA WithFiled ==
    ASSUME NEW files, Filed(files), NEW n \in Name, NEW f \in File
    PROVE  Filed(With(files, n, f))
  BY DEF Filed, With

(* A run's step leaves a run that is good, and files that are. *)
LEMMA GoodStep ==
    ASSUME NEW e \in Slots, RunsGood(engines), Filed(disk), RunStep(e)
    PROVE  /\ Filed(disk') /\ engines[e] # None
           /\ \E s : Good(s) /\ Moves(engines, e, s, engines')
  <1> DEFINE r == engines[e]
  <1>0. engines[e] # None /\ Good(r)
    BY DEF RunsGood, RunStep, PrepareBasemap, BasemapWillNotPlan, PrepareTerrain,
       TerrainWillNotPlan, Fetch, SegmentFails, OpenPart, WriteEnds, WriteFails, Rename,
       RenameFails, At
  <1>a. r \in Run /\ Typed(r) /\ Quoted(r) /\ r.gen \in Generations
    BY <1>0 DEF Good, Typed, Run
  <1>1. CASE PrepareBasemap(e)
    <2> DEFINE p == Planned(r, "Basemap", Listed(r.area, "Basemap"))
               s == IF p.terrain THEN [p EXCEPT !.pc = "terrain"] ELSE Building(p)
    <2>1. r.pc = "basemap" /\ disk' = disk /\ Moves(engines, e, s, engines')
      BY <1>1 DEF PrepareBasemap, At, Becomes, Moves
    <2>2. Typed(p) /\ Unquoted(p) /\ p.outcome = "running"
      BY <1>0, <2>1, PlannedGood DEF Halves
    <2> HIDE DEF p
    <2>3. Good(Building(p))
      BY <2>2, BuildingGood
    <2>4. Good([p EXCEPT !.pc = "terrain"])
      <3> DEFINE q == [p EXCEPT !.pc = "terrain"]
      <3>1. q \in Run
        BY <2>2 DEF Typed, Run
      <3>2. /\ q.half = p.half /\ q.missing = p.missing /\ q.gen = p.gen /\ q.held = p.held
            /\ q.moved = p.moved /\ q.due = p.due /\ q.outcome = p.outcome /\ q.pc = "terrain"
        BY <2>2 DEF Typed, Run
      <3> HIDE DEF q
      <3>3. Typed(q) /\ Quoted(q)
        BY <2>2, <3>1, <3>2 DEF Typed, Quoted, Unquoted
      <3>4. QED
        BY <3>3 DEF Good, q
    <2>5. QED
      BY <1>0, <2>1, <2>3, <2>4
  <1>2. CASE BasemapWillNotPlan(e)
    <2> DEFINE s == [r EXCEPT !.pc = "ended", !.failed = TRUE, !.outcome = "Failed"]
    <2>1. r.pc = "basemap" /\ disk' = disk /\ Moves(engines, e, s, engines')
      BY <1>2 DEF BasemapWillNotPlan, At, Becomes, Moves
    <2>2. s \in Run
      BY <1>a DEF Run, Outcome
    <2>3. /\ s.half = r.half /\ s.missing = r.missing /\ s.gen = r.gen
          /\ s.moved = r.moved /\ s.due = r.due /\ s.outcome = "Failed" /\ s.pc = "ended"
      BY <1>a DEF Run
    <2>4. Typed(s)
      BY <1>a, <2>2, <2>3 DEF Typed
    <2>5. Quoted(s)
      BY <1>a, <2>1, <2>3 DEF Quoted, Unquoted, Moved
    <2>6. QED
      BY <1>0, <2>1, <2>4, <2>5 DEF Good
  <1>3. CASE PrepareTerrain(e)
    <2> DEFINE p == Planned(r, "Terrain", Listed(r.area, "Terrain"))
    <2>1. r.pc = "terrain" /\ disk' = disk /\ Moves(engines, e, Building(p), engines')
      BY <1>3 DEF PrepareTerrain, At, Becomes, Moves
    <2>2. Typed(p) /\ Unquoted(p) /\ p.outcome = "running"
      BY <1>0, <2>1, PlannedGood DEF Halves
    <2>3. Good(Building(p))
      BY <2>2, BuildingGood
    <2>4. QED
      BY <1>0, <2>1, <2>3
  <1>4. CASE TerrainWillNotPlan(e)
    <2> DEFINE p == [r EXCEPT !.failed = TRUE]
    <2>1. r.pc = "terrain" /\ disk' = disk /\ Moves(engines, e, Building(p), engines')
      BY <1>4 DEF TerrainWillNotPlan, At, Becomes, Moves
    <2>2. p \in Run
      BY <1>a DEF Run
    <2>3. /\ p.half = r.half /\ p.missing = r.missing /\ p.gen = r.gen /\ p.held = r.held
          /\ p.moved = r.moved /\ p.due = r.due /\ p.outcome = r.outcome
      BY <1>a DEF Run
    <2> HIDE DEF p
    <2>4. Typed(p) /\ Unquoted(p) /\ p.outcome = "running"
      BY <1>a, <2>1, <2>2, <2>3 DEF Typed, Quoted, Unquoted
    <2>5. Good(Building(p))
      BY <2>4, BuildingGood
    <2>6. QED
      BY <1>0, <2>1, <2>5
  <1>5. CASE Fetch(e)
    <2> DEFINE spans == FirstRead(Needed(r))
               s == [r EXCEPT !.held = @ \cup spans, !.moved[r.half] = @ + Bytes(spans)]
    <2>1. r.pc = "fetch" /\ disk' = disk /\ Moves(engines, e, s, engines')
      BY <1>5 DEF Fetch, At, Becomes, Moves
    <2>2. spans \in SUBSET Needed(r)
      BY DEF FirstRead
    <2> HIDE DEF spans
    <2>3. Good(s)
      BY <1>0, <2>1, <2>2, FetchGood
    <2>4. QED
      BY <1>0, <2>1, <2>3
  <1>6. CASE SegmentFails(e)
    <2>1. r.pc = "fetch" /\ disk' = disk /\ Moves(engines, e, SegmentEnds(r, FALSE), engines')
      BY <1>6 DEF SegmentFails, At, Becomes, Moves
    <2>2. Good(SegmentEnds(r, FALSE))
      BY <1>0, <2>1, SegmentEndsGood
    <2>3. QED
      BY <1>0, <2>1, <2>2
  <1>7. CASE OpenPart(e)
    <2>1. /\ r.pc = "fetch" /\ Needed(r) = {} /\ disk' = Opened(disk, PartOf(r), e, r.gen)
          /\ Moves(engines, e, [r EXCEPT !.pc = "write"], engines')
      BY <1>7 DEF OpenPart, At, Becomes, Moves
    <2>2. Good([r EXCEPT !.pc = "write"])
      BY <1>0, <2>1, PcGood
    <2>3. PartOf(r) \in Name
      BY <1>0, <2>1, PartName
    <2>4. Filed(disk')
      BY <1>a, <2>1, <2>3, OpenedFiled
    <2>5. QED
      BY <1>0, <2>1, <2>2, <2>4
  <1>8. CASE WriteEnds(e)
    <2>1. /\ r.pc = "write" /\ disk' = Closed(e, FALSE)
          /\ Moves(engines, e, [r EXCEPT !.pc = "rename"], engines')
      BY <1>8 DEF WriteEnds, At, Becomes, Moves
    <2>2. Good([r EXCEPT !.pc = "rename"])
      BY <1>0, <1>a, <2>1, PcGood DEF Quoted
    <2>3. Filed(disk')
      BY <2>1, ClosedFiled
    <2>4. QED
      BY <1>0, <2>1, <2>2, <2>3
  <1>9. CASE WriteFails(e)
    <2>1. /\ r.pc = "write" /\ disk' = Closed(e, TRUE)
          /\ Moves(engines, e, SegmentEnds(r, FALSE), engines')
      BY <1>9 DEF WriteFails, At, Becomes, Moves
    <2>2. Good(SegmentEnds(r, FALSE))
      BY <1>0, <2>1, SegmentEndsGood
    <2>3. Filed(disk')
      BY <2>1, ClosedFiled
    <2>4. QED
      BY <1>0, <2>1, <2>2, <2>3
  <1>10. CASE Rename(e)
    <2> DEFINE part == PartOf(r)
               ok == part \in DOMAIN disk
    <2>1. /\ r.pc = "rename" /\ Moves(engines, e, SegmentEnds(r, ok), engines')
          /\ IF ok THEN disk' = With(Without(disk, part), Published(part), disk[part])
             ELSE disk' = disk
      BY <1>10 DEF Rename, At, Becomes, Moves
    <2>2. Good(SegmentEnds(r, ok))
      <3>1. ok \in BOOLEAN /\ Needed(r) = {}
        BY <1>a, <2>1 DEF Quoted
      <3> HIDE DEF ok, r
      <3>2. QED
        BY <1>0, <2>1, <3>1, SegmentEndsGood
    <2>3. Filed(disk')
      <3>1. CASE ok
        <4>1. Filed(Without(disk, part)) /\ Published(part) \in Name /\ disk[part] \in File
          BY <1>0, <2>1, <3>1, PartName, WithoutFiled DEF Filed
        <4>2. QED
          BY <2>1, <3>1, <4>1, WithFiled
      <3>2. CASE ~ok
        BY <2>1, <3>2
      <3>3. QED
        BY <3>1, <3>2
    <2>4. QED
      BY <1>0, <2>1, <2>2, <2>3
  <1>11. CASE RenameFails(e)
    <2>1. /\ r.pc = "rename" /\ disk' = Without(disk, PartOf(r))
          /\ Moves(engines, e, SegmentEnds(r, FALSE), engines')
      BY <1>11 DEF RenameFails, At, Becomes, Moves
    <2>2. Good(SegmentEnds(r, FALSE))
      BY <1>0, <2>1, SegmentEndsGood
    <2>3. Filed(disk')
      BY <2>1, WithoutFiled
    <2>4. QED
      BY <1>0, <2>1, <2>2, <2>3
  <1>12. QED
    BY <1>1, <1>2, <1>3, <1>4, <1>5, <1>6, <1>7, <1>8, <1>9, <1>10, <1>11 DEF RunStep

-----------------------------------------------------------------------------
(* The frame thread's state and the worker's, typed. *)

Todo == UNION {[S -> Record] : S \in SUBSET Areas}
Job == [job : {"remove"}, area : Areas] \cup [job : {"reconcile"}, todo : Todo]
Removal == [job : {"remove"}, area : Areas, names : SUBSET Name]
Reconcile == [job : {"reconcile"}, todo : Todo, at : Areas \cup {None}, present : Nat]

Recorded ==
    /\ records \in [Areas -> Record \cup {None}] /\ saved \in [Areas -> Record \cup {None}]
    /\ facts \in [Areas -> Fact \cup {None}]
    /\ generation \in Generations /\ asked \in SUBSET Areas

(* The frame thread holds one run and joins another; no slot else has one. *)
HeldRuns ==
    /\ active \in Slots \cup {None} /\ dropping \in (Slots \ {active}) \cup {None}
    /\ \A e \in Slots : engines[e] # None <=> e \in {active, dropping}

Working == jobs \in Seq(Job) /\ worker \in Removal \cup Reconcile \cup {None}

AreasInv == Filed(disk) /\ RunsGood(engines) /\ Recorded /\ HeldRuns /\ Working

(* Of a step that is of a run's thread, or of the worker's. *)
LEMMA EngineAreas ==
    ASSUME NoneIsNoRun, AreasInv, NEW e \in Slots, EngineStep(e)
    PROVE  AreasInv'
  <1>1. Filed(disk) /\ RunsGood(engines) /\ RunStep(e)
    BY DEF AreasInv, EngineStep
  <1>2. engines[e] # None /\ Filed(disk')
    BY <1>1, GoodStep
  <1>3. PICK s : Good(s) /\ Moves(engines, e, s, engines')
    BY <1>1, GoodStep
  <1>4. s # None
    <2>1. s \in Run
      BY <1>3 DEF Good, Typed
    <2>2. DOMAIN s = Fields
      BY <2>1 DEF Run, Fields
    <2>3. QED
      BY <2>2 DEF NoneIsNoRun
  <1>5. DOMAIN engines' = Slots /\ engines'[e] = s /\ \A f \in Slots : f # e => engines'[f] = engines[f]
    BY <1>1, <1>3 DEF RunsGood, Moves
  <1>6. RunsGood(engines')
    BY <1>1, <1>3, <1>5 DEF RunsGood
  <1>7. HeldRuns'
    <2>1. active' = active /\ dropping' = dropping
      BY DEF EngineStep
    <2>2. \A f \in Slots : engines'[f] # None <=> engines[f] # None
      BY <1>2, <1>4, <1>5
    <2>3. QED
      BY <2>1, <2>2 DEF AreasInv, HeldRuns
  <1>8. Recorded' /\ Working'
    BY DEF EngineStep, recordVars, workerVars, AreasInv, Recorded, Working
  <1>9. QED
    BY <1>2, <1>6, <1>7, <1>8 DEF AreasInv

LEMMA NewRunGood ==
    ASSUME NEW a \in Areas, NEW g \in Generations, NEW terrain \in BOOLEAN
    PROVE  Good(NewRun(a, g, terrain)) /\ DOMAIN NewRun(a, g, terrain) = Fields
  <1> DEFINE s == NewRun(a, g, terrain)
  <1>1. s \in Run /\ DOMAIN s = Fields
    BY DEF NewRun, Run, Outcome, Halves, Fields
  <1>2. /\ s.pc = "basemap" /\ s.half = "Basemap" /\ s.missing = [h \in Halves |-> {}]
        /\ s.held = {} /\ s.moved = [h \in Halves |-> 0] /\ s.due = 0 /\ s.outcome = "running"
    BY DEF NewRun
  <1> HIDE DEF s
  <1>3. Typed(s)
    BY <1>1, <1>2 DEF Typed
  <1>4. Quoted(s)
    BY <1>2 DEF Quoted, Unquoted, Halves
  <1>5. QED
    BY <1>1, <1>3, <1>4 DEF Good, s

LEMMA StartAreas ==
    ASSUME NoneIsNoRun, AreasInv, NEW a \in Areas, NEW terrain \in BOOLEAN, Start(a, terrain)
    PROVE  AreasInv'
  <1>1. PICK e \in Slots : /\ engines[e] = None
                           /\ Moves(engines, e, NewRun(a, generation, terrain), engines')
                           /\ active' = e
    BY DEF Start, Moves
  <1>2. /\ generation \in Generations /\ dropping = None /\ dropping' = active
        /\ DOMAIN engines = Slots
    BY DEF Start, Idle, AreasInv, Recorded, RunsGood
  <1> DEFINE s == NewRun(a, generation, terrain)
  <1>3. Good(s) /\ s # None
    BY <1>2, NewRunGood DEF NoneIsNoRun
  <1> HIDE DEF s
  <1>4. DOMAIN engines' = Slots /\ engines'[e] = s /\ \A f \in Slots : f # e => engines'[f] = engines[f]
    BY <1>1, <1>2 DEF Moves, s
  <1>5. RunsGood(engines')
    BY <1>3, <1>4 DEF AreasInv, RunsGood
  <1>6. HeldRuns'
    <2>1. active # e
      BY <1>1 DEF AreasInv, HeldRuns
    <2>2. \A f \in Slots : engines[f] # None <=> f = active
      BY <1>2, SlotsAssumption DEF AreasInv, HeldRuns
    <2>3. \A f \in Slots : engines'[f] # None <=> f \in {e, active}
      BY <1>3, <1>4, <2>2
    <2>4. QED
      BY <1>1, <1>2, <2>1, <2>3 DEF AreasInv, HeldRuns
  <1>7. Filed(disk') /\ Recorded' /\ Working'
    BY DEF Start, recordVars, workerVars, AreasInv, Recorded, Working
  <1>8. QED
    BY <1>5, <1>6, <1>7 DEF AreasInv

(* The frame thread lets go of a run that it held or joined. *)
LEMMA LeavesAreas ==
    ASSUME NEW x \in Slots, AreasInv, Moves(engines, x, None, engines')
    PROVE  /\ RunsGood(engines')
           /\ \A f \in Slots : engines'[f] # None <=> engines[f] # None /\ f # x
  BY DEF AreasInv, RunsGood, Moves

LEMMA SettleAreas == ASSUME AreasInv, Settle PROVE AreasInv'
  <1> DEFINE r == engines[active]
  <1>1. active \in Slots /\ dropping = None /\ active' = None /\ dropping' = dropping
    BY DEF Settle, Idle, AreasInv, HeldRuns
  <1>2. Good(r) /\ r.area \in Areas
    BY <1>1 DEF AreasInv, HeldRuns, RunsGood, Good, Typed, Run
  <1>3. FromRun(r) \in Record
    <2>1. /\ r.gen \in Generations /\ r.terrain \in BOOLEAN
          /\ r.moved["Basemap"] \in Nat /\ r.moved["Terrain"] \in Nat
      BY <1>2 DEF Good, Typed, Run, Halves
    <2>2. \A h \in Halves : Len(Cuts[r.gen][h]) \in Nat
      BY <2>1, CutType
    <2> DEFINE x == [h \in Halves |-> IF h \in r.planned THEN Len(Cuts[r.gen][h]) ELSE 0]
               b == r.moved["Basemap"] + r.moved["Terrain"]
    <2>3. x \in [Halves -> Nat] /\ b \in Nat
      BY <2>1, <2>2
    <2>4. FromRun(r) = [gen |-> r.gen, terrain |-> r.terrain, expected |-> x, bytes |-> b]
      BY DEF FromRun
    <2> HIDE DEF x, b
    <2>5. QED
      BY <2>1, <2>3, <2>4 DEF Record
  <1>4. /\ records' = IF r.outcome = "Complete" THEN [records EXCEPT ![r.area] = FromRun(r)]
                      ELSE records
        /\ asked' = asked \ {r.area} /\ facts' = [facts EXCEPT ![r.area] = None]
        /\ Moves(engines, active, None, engines')
        /\ disk' = disk /\ saved' = saved /\ jobs' = jobs /\ worker' = worker
        /\ generation' = generation
    BY DEF Settle, Moves
  <1>5. Recorded'
    BY <1>2, <1>3, <1>4 DEF AreasInv, Recorded
  <1>6. RunsGood(engines') /\ HeldRuns'
    <2>1. RunsGood(engines') /\ \A f \in Slots : engines'[f] # None <=> engines[f] # None /\ f # active
      BY <1>1, <1>4, LeavesAreas
    <2>2. QED
      BY <1>1, <2>1, SlotsAssumption DEF AreasInv, HeldRuns
  <1>7. Filed(disk') /\ Working'
    BY <1>4 DEF AreasInv, Working
  <1>8. QED
    BY <1>5, <1>6, <1>7 DEF AreasInv

(* What the frame thread does, the run it holds aside. *)
LEMMA FrameAreas ==
    ASSUME AreasInv, Cancel \/ Dropped \/ AskUnknown \/ Save \/ \E a \in Areas : Delete(a)
    PROVE  AreasInv'
  <1>1. CASE Cancel
    <2>1. HeldRuns'
      BY <1>1, SlotsAssumption DEF Cancel, Idle, AreasInv, HeldRuns
    <2>2. QED
      BY <1>1, <2>1 DEF Cancel, recordVars, workerVars, AreasInv, Recorded, Working
  <1>2. CASE Dropped
    <2>1. dropping \in Slots /\ Moves(engines, dropping, None, engines')
      BY <1>2 DEF Dropped, Moves, AreasInv, HeldRuns
    <2>2. /\ RunsGood(engines')
          /\ \A f \in Slots : engines'[f] # None <=> engines[f] # None /\ f # dropping
      BY <2>1, LeavesAreas
    <2>3. HeldRuns'
      BY <1>2, <2>2, SlotsAssumption DEF Dropped, AreasInv, HeldRuns
    <2>4. QED
      BY <1>2, <2>2, <2>3 DEF Dropped, recordVars, workerVars, AreasInv, Recorded, Working
  <1>3. CASE AskUnknown
    <2> DEFINE todo == [a \in Unknown |-> records[a]]
    <2>1. Unknown \in SUBSET Areas /\ \A a \in Unknown : records[a] \in Record
      BY DEF Unknown, AreasInv, Recorded
    <2>2. todo \in Todo
      BY <2>1 DEF Todo
    <2>3. jobs' = Append(jobs, [job |-> "reconcile", todo |-> todo]) /\ asked' = asked \cup Unknown
      BY <1>3 DEF AskUnknown
    <2> HIDE DEF todo
    <2>4. [job |-> "reconcile", todo |-> todo] \in Job
      BY <2>2 DEF Job
    <2>5. jobs' \in Seq(Job)
      <3> DEFINE j == [job |-> "reconcile", todo |-> todo]
      <3> HIDE DEF j
      <3>1. QED
        BY <2>3, <2>4 DEF AreasInv, Working, j
    <2>6. QED
      BY <1>3, <2>1, <2>3, <2>5 DEF AskUnknown, recordVars, AreasInv, Recorded, HeldRuns, Working
  <1>4. CASE Save
    BY <1>4 DEF Save, workerVars, AreasInv, Recorded, HeldRuns, Working
  <1>5. ASSUME NEW a \in Areas, Delete(a) PROVE AreasInv'
    <2>1. [job |-> "remove", area |-> a] \in Job
      BY DEF Job
    <2>2. jobs' \in Seq(Job)
      <3> DEFINE j == [job |-> "remove", area |-> a]
      <3>1. jobs' = Append(jobs, j)
        BY <1>5 DEF Delete
      <3> HIDE DEF j
      <3>2. QED
        BY <2>1, <3>1 DEF AreasInv, Working, j
    <2>3. HeldRuns'
      BY <1>5, SlotsAssumption DEF Delete, Idle, AreasInv, HeldRuns
    <2>4. Recorded'
      BY <1>5 DEF Delete, AreasInv, Recorded
    <2>5. QED
      BY <1>5, <2>2, <2>3, <2>4 DEF Delete, AreasInv, Working
  <1>6. QED
    BY <1>1, <1>2, <1>3, <1>4, <1>5

LEMMA PresentType ==
    ASSUME Filed(disk), NEW a, NEW h \in Halves, NEW rec \in Record
    PROVE  /\ Present(a, h, rec) \in Nat /\ rec.expected[h] \in Nat
           /\ Present(a, h, rec) <= rec.expected[h]
           /\ Present(a, h, rec) = rec.expected[h] =>
                \A s \in 1..rec.expected[h] : s \in Listed(a, h)
  <1> DEFINE k == rec.expected[h]
             S == {s \in Listed(a, h) : s <= k}
  <1>1. k \in Nat
    BY DEF Record
  <1>2. S \in SUBSET (1..k)
    <2>1. \A s \in Listed(a, h) : s \in Nat \ {0}
      BY SegmentNumbers DEF Listed, Filed, Name
    <2>2. QED
      BY <1>1, <2>1
  <1>3. IsFiniteSet(1..k) /\ Cardinality(1..k) = k
    <2>1. 1 \in Int /\ k \in Int /\ (k < 1 => k = 0)
      BY <1>1
    <2>2. IsFiniteSet(1..k) /\ Cardinality(1..k) = IF 1 > k THEN 0 ELSE k - 1 + 1
      BY <2>1, FS_Interval
    <2>3. QED
      BY <1>1, <2>2
  <1>4. Present(a, h, rec) = Cardinality(S)
    BY DEF Present
  <1>5. \A s \in S : s \in Listed(a, h)
    OBVIOUS
  <1> HIDE DEF S, k
  <1>6. /\ Cardinality(S) \in Nat /\ Cardinality(S) <= k
        /\ Cardinality(S) = k => S = 1..k
    BY <1>2, <1>3, FS_Subset, FS_CardinalityType
  <1>7. QED
    BY <1>1, <1>4, <1>5, <1>6 DEF k

(* The rest of a job is a job. *)
LEMMA DoneWork ==
    ASSUME NEW a, worker \in Reconcile
    PROVE  Done(a) \in Reconcile \cup {None}
  <1> DEFINE rest == DOMAIN worker.todo \ {a}
             todo == [b \in rest |-> worker.todo[b]]
             w == [worker EXCEPT !.todo = todo, !.at = None, !.present = 0]
  <1>1. PICK S \in SUBSET Areas : worker.todo \in [S -> Record]
    BY DEF Reconcile, Todo
  <1>2. rest \in SUBSET Areas /\ todo \in [rest -> Record]
    BY <1>1
  <1>3. todo \in Todo
    <2> HIDE DEF todo, rest
    <2>1. QED
      BY <1>2 DEF Todo
  <1>4. Done(a) = IF rest = {} THEN None ELSE w
    BY DEF Done
  <1> HIDE DEF todo, rest
  <1>5. w \in Reconcile
    BY <1>3 DEF Reconcile
  <1>6. QED
    BY <1>4, <1>5

LEMMA TodoOf ==
    ASSUME NEW todo \in Todo
    PROVE  DOMAIN todo \in SUBSET Areas /\ \A a \in DOMAIN todo : todo[a] \in Record
  BY DEF Todo

LEMMA AnswerType ==
    ASSUME NEW a \in Areas, NEW rec \in Record, NEW present \in Nat,
           worker \in Reconcile, facts \in [Areas -> Fact \cup {None}], Answer(a, rec, present)
    PROVE  /\ facts' \in [Areas -> Fact \cup {None}] /\ worker' \in Reconcile \cup {None}
           /\ facts'[a] = [present |-> present,
                           expected |-> rec.expected["Basemap"] + rec.expected["Terrain"]]
           /\ \A b \in Areas : b # a => facts'[b] = facts[b]
  <1> DEFINE n == rec.expected["Basemap"] + rec.expected["Terrain"]
             f == [present |-> present, expected |-> n]
  <1>1. n \in Nat
    <2>1. rec.expected["Basemap"] \in Nat /\ rec.expected["Terrain"] \in Nat
      BY DEF Record, Halves
    <2>2. QED
      BY <2>1
  <1>2. facts' = [facts EXCEPT ![a] = f] /\ worker' = Done(a)
    BY DEF Answer
  <1> HIDE DEF n
  <1>3. f \in Fact
    BY <1>1 DEF Fact
  <1>4. f = [present |-> present, expected |-> n]
    OBVIOUS
  <1> HIDE DEF f
  <1>5. worker' \in Reconcile \cup {None}
    BY <1>2, DoneWork
  <1>6. QED
    BY <1>2, <1>3, <1>4, <1>5 DEF n

(* Of the jobs the worker can be on. *)
LEMMA OnRemove ==
    ASSUME Working, On("remove")
    PROVE  worker \in Removal /\ worker # None
  BY DEF Working, On, Removal, Reconcile

LEMMA OnReconcile ==
    ASSUME Working, On("reconcile")
    PROVE  worker \in Reconcile /\ worker # None /\ worker.todo \in Todo
  BY DEF Working, On, Removal, Reconcile

LEMMA EndsType ==
    ASSUME worker \in Removal, facts \in [Areas -> Fact \cup {None}], RemovalEnds
    PROVE  /\ worker' = None /\ facts' \in [Areas -> Fact \cup {None}]
           /\ facts'[worker.area] = None /\ worker.area \in Areas
           /\ \A b \in Areas : b # worker.area => facts'[b] = facts[b]
  BY DEF RemovalEnds, Removal

LEMMA RemoveAreas ==
    ASSUME NoneIsNoRun, AreasInv, NEW n \in Name, RemoveFile(n)
    PROVE  AreasInv'
  <1>0. worker \in Removal /\ n \in worker.names
    BY OnRemove DEF RemoveFile, AreasInv
  <1>a. /\ jobs' = jobs /\ recordVars' = recordVars /\ asked' = asked /\ generation' = generation
        /\ active' = active /\ dropping' = dropping
    BY DEF RemoveFile, Took
  <1>1. CASE n \in DOMAIN disk
    <2>1. /\ disk' = Without(disk, n) /\ worker' = [worker EXCEPT !.names = @ \ {n}]
          /\ facts' = facts
          /\ engines' = [e \in Slots |-> IF e \in Alive(n.area)
                                         THEN [engines[e] EXCEPT !.swept = TRUE] ELSE engines[e]]
      BY <1>1 DEF RemoveFile
    <2>2. Filed(disk')
      BY <2>1, WithoutFiled DEF AreasInv
    <2>3. worker' \in Removal
      BY <1>0, <2>1 DEF Removal
    <2>4. ASSUME NEW e \in Slots
          PROVE  (engines'[e] # None <=> engines[e] # None) /\ (engines'[e] # None => Good(engines'[e]))
      <3>1. CASE e \in Alive(n.area)
        <4> DEFINE r == engines[e]
                   s == [r EXCEPT !.swept = TRUE]
        <4>1. engines'[e] = s /\ r # None /\ Good(r)
          BY <2>1, <3>1 DEF Alive, AreasInv, RunsGood
        <4>2. r \in Run /\ Typed(r) /\ Quoted(r)
          BY <4>1 DEF Good, Typed
        <4> HIDE DEF r
        <4>3. s \in Run /\ DOMAIN s = Fields
          BY <4>2 DEF Run, Fields
        <4>4. /\ s.half = r.half /\ s.missing = r.missing /\ s.gen = r.gen /\ s.held = r.held
              /\ s.moved = r.moved /\ s.due = r.due /\ s.outcome = r.outcome /\ s.pc = r.pc
              /\ s.failed = r.failed
          BY <4>2 DEF Run
        <4> HIDE DEF s
        <4>5. Typed(s)
          BY <4>2, <4>3, <4>4 DEF Typed
        <4>6. /\ Rest(s) = Rest(r) /\ Later(s) = Later(r) /\ Moved(s) = Moved(r)
              /\ Needed(s) = Needed(r)
          BY <4>4, Zenon DEF Rest, Spans, Later, RunBytes, Moved, Needed, Current
        <4>7. Quoted(s)
          BY <4>2, <4>4, <4>6 DEF Quoted, Balance, Unquoted
        <4>8. s # None
          BY <4>3 DEF NoneIsNoRun
        <4>9. QED
          BY <4>1, <4>5, <4>7, <4>8 DEF Good, r
      <3>2. CASE e \notin Alive(n.area)
        BY <2>1, <3>2 DEF AreasInv, RunsGood
      <3>3. QED
        BY <3>1, <3>2
    <2>5. RunsGood(engines') /\ HeldRuns'
      <3>1. DOMAIN engines' = Slots
        BY <2>1
      <3>2. RunsGood(engines')
        BY <2>4, <3>1 DEF RunsGood
      <3>3. HeldRuns'
        BY <1>a, <2>4 DEF AreasInv, HeldRuns
      <3>4. QED
        BY <3>2, <3>3
    <2>6. QED
      BY <1>a, <2>1, <2>2, <2>3, <2>5 DEF AreasInv, recordVars, Recorded, Working
  <1>2. CASE n \notin DOMAIN disk
    <2>1. RemovalEnds /\ disk' = disk /\ engines' = engines
      BY <1>2 DEF RemoveFile
    <2>2. worker' = None /\ facts' \in [Areas -> Fact \cup {None}]
      BY <1>0, <2>1, EndsType DEF AreasInv, Recorded
    <2>3. QED
      BY <1>a, <2>1, <2>2 DEF AreasInv, recordVars, Recorded, Working, HeldRuns
  <1>3. QED
    BY <1>1, <1>2

(* The worker lists the halves of an area it was asked of. *)
AtListed == On("reconcile") => worker.at \in DOMAIN worker.todo \cup {None}

LEMMA WorkerAreas ==
    ASSUME NoneIsNoRun, AreasInv, AtListed, WorkerStep
    PROVE  AreasInv'
  <1>1. CASE TakeJob
    <2>1. /\ jobs # <<>> /\ jobs' = Tail(jobs) /\ facts' = facts
          /\ worker' = IF Head(jobs).job = "remove"
                 THEN [job |-> "remove", area |-> Head(jobs).area,
                       names |-> {n \in DOMAIN disk : n.area = Head(jobs).area}]
                 ELSE [job |-> "reconcile", todo |-> Head(jobs).todo, at |-> None, present |-> 0]
      BY <1>1 DEF TakeJob
    <2>2. Head(jobs) \in Job /\ jobs' \in Seq(Job)
      <3>1. jobs \in Seq(Job)
        BY DEF AreasInv, Working
      <3>2. QED
        BY <2>1, <3>1
    <2>3. worker' \in Removal \cup Reconcile
      <3>1. CASE Head(jobs).job = "remove"
        <4>1. Head(jobs).area \in Areas
          BY <2>2, <3>1 DEF Job
        <4>2. {n \in DOMAIN disk : n.area = Head(jobs).area} \in SUBSET Name
          BY DEF AreasInv, Filed
        <4>3. QED
          BY <2>1, <3>1, <4>1, <4>2 DEF Removal
      <3>2. CASE Head(jobs).job # "remove"
        <4>1. Head(jobs).todo \in Todo
          BY <2>2, <3>2 DEF Job
        <4>2. QED
          BY <2>1, <3>2, <4>1 DEF Reconcile
      <3>3. QED
        BY <3>1, <3>2
    <2>4. QED
      BY <1>1, <2>1, <2>2, <2>3 DEF TakeJob, Took, recordVars, AreasInv, Recorded, HeldRuns, Working
  <1>2. ASSUME NEW a \in Areas, ListBasemap(a) PROVE AreasInv'
    <2>1. worker \in Reconcile /\ a \in DOMAIN worker.todo /\ worker.todo \in Todo
      BY <1>2, OnReconcile DEF ListBasemap, AreasInv
    <2> DEFINE rec == worker.todo[a]
               present == Present(a, "Basemap", rec)
    <2>2. rec \in Record
      BY <2>1, TodoOf
    <2>3. present \in Nat
      BY <2>2, PresentType DEF AreasInv, Halves
    <2>4. IF rec.terrain
          THEN worker' = [worker EXCEPT !.at = a, !.present = present] /\ facts' = facts
          ELSE Answer(a, rec, present)
      BY <1>2 DEF ListBasemap
    <2> HIDE DEF present, rec
    <2>5. facts' \in [Areas -> Fact \cup {None}] /\ worker' \in Reconcile \cup {None}
      <3>1. CASE rec.terrain
        BY <2>1, <2>3, <2>4, <3>1 DEF Reconcile, AreasInv, Recorded
      <3>2. CASE ~rec.terrain
        BY <2>1, <2>2, <2>3, <2>4, <3>2, AnswerType DEF AreasInv, Recorded
      <3>3. QED
        BY <3>1, <3>2
    <2>6. QED
      BY <1>2, <2>5 DEF ListBasemap, Took, recordVars, AreasInv, Recorded, HeldRuns, Working
  <1>3. ASSUME NEW a \in Areas, ListFails(a) PROVE AreasInv'
    <2>1. worker \in Reconcile
      BY <1>3, OnReconcile DEF ListFails, AreasInv
    <2>2. worker' \in Reconcile \cup {None}
      BY <1>3, <2>1, DoneWork DEF ListFails
    <2>3. QED
      BY <1>3, <2>2 DEF ListFails, Took, recordVars, AreasInv, Recorded, HeldRuns, Working
  <1>4. CASE ListTerrain
    <2> DEFINE a == worker.at
               rec == worker.todo[a]
               present == worker.present + Present(a, "Terrain", rec)
    <2>1. worker \in Reconcile /\ worker.todo \in Todo /\ a # None /\ Answer(a, rec, present)
      BY <1>4, OnReconcile DEF ListTerrain, AreasInv
    <2>2. a \in DOMAIN worker.todo /\ worker.present \in Nat
      BY <1>4, <2>1 DEF ListTerrain, AtListed, Reconcile
    <2>3. rec \in Record /\ a \in Areas
      BY <2>1, <2>2, TodoOf
    <2>4. present \in Nat
      <3>1. Present(a, "Terrain", rec) \in Nat
        BY <2>3, PresentType DEF AreasInv, Halves
      <3>2. QED
        BY <2>2, <3>1
    <2> HIDE DEF present, rec, a
    <2>5. facts' \in [Areas -> Fact \cup {None}] /\ worker' \in Reconcile \cup {None}
      BY <2>1, <2>3, <2>4, AnswerType DEF AreasInv, Recorded
    <2>6. QED
      BY <1>4, <2>5 DEF ListTerrain, Took, recordVars, AreasInv, Recorded, HeldRuns, Working
  <1>5. ASSUME NEW n \in Name, RemoveFile(n) PROVE AreasInv'
    BY <1>5, RemoveAreas
  <1>6. CASE RemoveFails \/ Removed
    <2>1. worker \in Removal /\ RemovalEnds
      BY <1>6, OnRemove DEF RemoveFails, Removed, AreasInv
    <2>2. worker' = None /\ facts' \in [Areas -> Fact \cup {None}]
      BY <2>1, EndsType DEF AreasInv, Recorded
    <2>3. QED
      BY <1>6, <2>2 DEF RemoveFails, Removed, Took, recordVars, AreasInv, Recorded, HeldRuns, Working
  <1>7. QED
    BY <1>1, <1>2, <1>3, <1>4, <1>5, <1>6 DEF WorkerStep

LEMMA DoneAt ==
    ASSUME NEW a, worker \in Reconcile, worker' = Done(a)
    PROVE  On("reconcile")' => worker'.at = None
  BY DEF Done, On, Reconcile

LEMMA AtStep ==
    ASSUME AreasInv, AtListed, [Next]_vars
    PROVE  AtListed'
  <1>1. CASE worker' = worker
    BY <1>1 DEF AtListed, On
  <1>2. CASE TakeJob
    BY <1>2 DEF TakeJob, AtListed, On
  <1>3. ASSUME NEW a \in Areas, ListBasemap(a) \/ ListFails(a) PROVE AtListed'
    <2>1. worker \in Reconcile /\ a \in DOMAIN worker.todo
      BY <1>3, OnReconcile DEF ListBasemap, ListFails, AreasInv
    <2>2. \/ worker' = Done(a)
          \/ \E n : worker' = [worker EXCEPT !.at = a, !.present = n]
      BY <1>3 DEF ListBasemap, ListFails, Answer
    <2>3. CASE worker' = Done(a)
      BY <2>1, <2>3, DoneAt DEF AtListed
    <2>4. ASSUME NEW n, worker' = [worker EXCEPT !.at = a, !.present = n] PROVE AtListed'
      <3>1. worker'.at = a /\ worker'.todo = worker.todo
        BY <2>1, <2>4 DEF Reconcile
      <3>2. QED
        BY <2>1, <3>1 DEF AtListed
    <2>5. QED
      BY <2>2, <2>3, <2>4
  <1>4. CASE ListTerrain
    <2>1. worker \in Reconcile /\ worker' = Done(worker.at)
      BY <1>4, OnReconcile DEF ListTerrain, Answer, AreasInv
    <2>2. QED
      BY <2>1, DoneAt DEF AtListed
  <1>5. ASSUME NEW n \in Name, RemoveFile(n) PROVE AtListed'
    <2>1. worker \in Removal
      BY <1>5, OnRemove DEF RemoveFile, AreasInv
    <2>2. worker' = None \/ worker' = [worker EXCEPT !.names = @ \ {n}]
      BY <1>5 DEF RemoveFile, RemovalEnds
    <2>3. worker' = None \/ worker'.job = "remove"
      BY <2>1, <2>2 DEF Removal
    <2>4. QED
      BY <2>3 DEF AtListed, On
  <1>6. CASE RemoveFails \/ Removed
    BY <1>6 DEF RemoveFails, Removed, RemovalEnds, AtListed, On
  <1>7. CASE Relaunch
    BY <1>7 DEF Relaunch, AtListed, On
  <1>8. ASSUME NEW e \in Slots, EngineStep(e) PROVE AtListed'
    BY <1>1, <1>8 DEF EngineStep, workerVars
  <1>9. CASE User \/ Save \/ Dropped \/ Settle \/ AskUnknown
    BY <1>1, <1>9 DEF User, Save, Dropped, Settle, AskUnknown, Start, Cancel, Delete, workerVars
  <1>10. CASE UNCHANGED vars
    BY <1>1, <1>10 DEF vars, workerVars
  <1>11. QED
    BY <1>2, <1>3, <1>4, <1>5, <1>6, <1>7, <1>8, <1>9, <1>10 DEF Next, Work, WorkerStep

LEMMA RelaunchAreas ==
    ASSUME AreasInv, Relaunch
    PROVE  AreasInv'
  <1>1. Filed(disk')
    <2>1. DOMAIN disk' = DOMAIN disk
          /\ \A n \in DOMAIN disk : disk'[n] =
                [disk[n] EXCEPT !.torn = @ \/ disk[n].writing # {}, !.writing = {}]
      BY DEF Relaunch
    <2>2. ASSUME NEW n \in DOMAIN disk PROVE disk'[n] \in File
      <3> DEFINE f == disk[n]
                 t == f.torn \/ f.writing # {}
      <3>1. f \in File
        BY DEF AreasInv, Filed
      <3>2. t \in BOOLEAN
        BY <3>1 DEF File
      <3>3. disk'[n] = [f EXCEPT !.torn = t, !.writing = {}]
        BY <2>1
      <3> HIDE DEF f, t
      <3>4. QED
        BY <3>1, <3>2, <3>3 DEF File
    <2>3. QED
      BY <2>1, <2>2 DEF AreasInv, Filed
  <1>2. RunsGood(engines') /\ HeldRuns'
    BY SlotsAssumption DEF Relaunch, RunsGood, HeldRuns
  <1>3. Recorded'
    <2>1. ASSUME NEW a \in Areas PROVE Restored(saved[a]) \in Record \cup {None}
      <3>1. saved[a] \in Record \cup {None}
        BY DEF AreasInv, Recorded
      <3> DEFINE rec == saved[a]
                 t == rec.terrain /\ rec.expected["Terrain"] > 0
      <3>2. t \in BOOLEAN
        OBVIOUS
      <3>3. /\ Restored(rec) \in {None, [rec EXCEPT !.terrain = t]}
            /\ rec = None => Restored(rec) = None
        BY DEF Restored
      <3> HIDE DEF rec, t
      <3>4. QED
        BY <3>1, <3>2, <3>3 DEF Record, rec
    <2>2. records' = [a \in Areas |-> Restored(saved[a])]
      BY DEF Relaunch
    <2>3. records' \in [Areas -> Record \cup {None}]
      BY <2>1, <2>2
    <2>4. generation' \in Generations /\ asked' = {} /\ facts' = [a \in Areas |-> None]
          /\ saved' = saved
      BY DEF Relaunch
    <2>5. QED
      BY <2>3, <2>4 DEF AreasInv, Recorded
  <1>4. Working'
    <2>1. <<>> \in Seq(Job)
      OBVIOUS
    <2>2. QED
      BY <2>1 DEF Relaunch, Working
  <1>5. QED
    BY <1>1, <1>2, <1>3, <1>4 DEF AreasInv

LEMMA AreasStep ==
    ASSUME NoneIsNoRun, AreasInv, AtListed, [Next]_vars
    PROVE  AreasInv' /\ AtListed'
  <1>1. AtListed'
    BY AtStep
  <1>2. CASE User
    <2>1. ASSUME NEW a \in Areas, NEW terrain \in BOOLEAN, Start(a, terrain) PROVE AreasInv'
      BY <2>1, StartAreas
    <2>2. QED
      BY <1>1, <1>2, <2>1, FrameAreas DEF User
  <1>3. CASE Work
    <2>1. ASSUME NEW e \in Slots, EngineStep(e) PROVE AreasInv'
      BY <2>1, EngineAreas
    <2>2. QED
      BY <1>1, <1>3, <2>1, FrameAreas, SettleAreas, WorkerAreas DEF Work
  <1>4. CASE UNCHANGED vars
    BY <1>1, <1>4 DEF vars, recordVars, workerVars, AreasInv, Recorded, HeldRuns, Working
  <1>5. QED
    BY <1>1, <1>2, <1>3, <1>4, FrameAreas, RelaunchAreas DEF Next

LEMMA AreasInit ==
    ASSUME Init
    PROVE  AreasInv /\ AtListed
  <1>1. Filed(disk) /\ RunsGood(engines) /\ HeldRuns
    BY SlotsAssumption DEF Init, DownloadInit, Filed, RunsGood, HeldRuns
  <1>2. Recorded
    BY GenerationAssumption DEF Init, Recorded
  <1>3. Working /\ AtListed
    <2>1. <<>> \in Seq(Job)
      OBVIOUS
    <2>2. QED
      BY <2>1 DEF Init, Working, AtListed, On
  <1>4. QED
    BY <1>1, <1>2, <1>3 DEF AreasInv

LEMMA AreasAlways == NoneIsNoRun => (Spec => [](AreasInv /\ AtListed))
  <1>1. ASSUME NoneIsNoRun
        PROVE  Spec => [](AreasInv /\ AtListed)
    <2>1. Init => AreasInv /\ AtListed
      BY AreasInit
    <2>2. (AreasInv /\ AtListed) /\ [Next]_vars => (AreasInv /\ AtListed)'
      BY <1>1, AreasStep
    <2>3. QED
      BY <2>1, <2>2, PTL DEF Spec
  <1>2. QED
    BY <1>1

(* The types of the directory, the runs and the records; a slot has a run exactly while *)
(* the frame thread holds it (start_area_download, ui_offline_areas.rs:222) or joins it *)
(* (Runtime::drop), and it never joins the run it shows.                                *)
THEOREM AreasTypeCorrect == NoneIsNoRun => (Spec => []TypeOK)
  <1>1. AreasInv => TypeOK
    BY DEF AreasInv, Filed, RunsGood, Good, Typed, Recorded, HeldRuns, TypeOK
  <1>2. QED
    BY <1>1, AreasAlways, PTL

(* A run transfers what drive (basemap_download.rs) quoted: no more, whatever segments  *)
(* share, carry and fail, and all of it when it is Complete. What is moved and what is  *)
(* still to come are the quote, and are less after a failure.                           *)
THEOREM QuoteIsTransferred == NoneIsNoRun => (Spec => []TransfersTheQuote)
  <1>1. ASSUME AreasInv
        PROVE  TransfersTheQuote
    <2>1. SUFFICES ASSUME NEW e \in Slots, engines[e] # None
                   PROVE  LET r == engines[e]
                          IN  /\ r.moved["Basemap"] + r.moved["Terrain"] <= r.due
                              /\ r.outcome = "Complete" =>
                                    r.moved["Basemap"] + r.moved["Terrain"] = r.due
      BY Zenon DEF TransfersTheQuote
    <2> DEFINE r == engines[e]
    <2>2. Good(r)
      BY <1>1, <2>1 DEF AreasInv, RunsGood
    <2> HIDE DEF r
    <2>3. /\ Typed(r) /\ Quoted(r) /\ Moved(r) \in Nat /\ r.due \in Nat
          /\ Bytes(Rest(r)) \in Nat /\ Later(r) \in Nat
          /\ r.pc \in {"basemap", "terrain", "fetch", "write", "rename", "ended"}
      BY <2>2, MovedType, RestFinite DEF Good, Typed, Run
    <2>4. Moved(r) <= r.due /\ (r.outcome = "Complete" => Moved(r) = r.due)
      <3>1. CASE r.pc \in {"basemap", "terrain"}
        BY <2>3, <3>1 DEF Quoted, Unquoted, Moved
      <3>2. CASE r.pc \in {"fetch", "write", "rename"}
        BY <2>3, <3>2 DEF Quoted, Balance
      <3>3. CASE r.pc = "ended"
        BY <2>3, <3>3 DEF Quoted
      <3>4. QED
        BY <2>3, <3>1, <3>2, <3>3
    <2>5. QED
      BY <2>4 DEF Moved, r
  <1>2. QED
    BY <1>1, AreasAlways, PTL

-----------------------------------------------------------------------------
(* What a row draws, and what the worker is asked. *)

Asks(job, a) == job.job = "reconcile" /\ a \in DOMAIN job.todo
Removes(job, a) == job.job = "remove" /\ job.area = a

(* a is asked about after the job at i. *)
Follows(queue, i, a) == \E j \in DOMAIN queue : j > i /\ Asks(queue[j], a)

(* The last the worker is asked of a is of the record a has, and after every removal. *)
InOrder(queue, rec, a) ==
    \A i \in DOMAIN queue :
        /\ Removes(queue[i], a) => Follows(queue, i, a)
        /\ Asks(queue[i], a) => queue[i].todo[a] = rec \/ Follows(queue, i, a)

(* So it is of the job the worker is on. *)
InHand(queue, rec, a) ==
    /\ On("remove") /\ worker.area = a => Follows(queue, 0, a)
    /\ On("reconcile") /\ a \in DOMAIN worker.todo =>
            worker.todo[a] = rec \/ Follows(queue, 0, a)

AskedInOrder(a) ==
    a \in asked => records[a] # None /\ InOrder(jobs, records[a], a) /\ InHand(jobs, records[a], a)

(* The half of an area that is listed is counted, and its segments stay. *)
HalfListed ==
    On("reconcile") /\ worker.at # None =>
        LET n == worker.todo[worker.at].expected["Basemap"]
        IN  /\ worker.present <= n
            /\ worker.present = n => \A s \in 1..n : s \in Listed(worker.at, "Basemap")

RemovesItsOwn == On("remove") => \A n \in worker.names : n.area = worker.area

Row(a) == records[a] # None /\ facts[a] # None /\ Answered(a) /\ IsComplete(facts[a]) => AllHeld(a)

RowInv == HalfListed /\ RemovesItsOwn /\ \A a \in Areas : AskedInOrder(a) /\ Row(a)

(* None is no work of the worker's either: it is a model value of its own. *)
NoneIsNoWork ==
    \A w : DOMAIN w \in {{"job", "area", "names"}, {"job", "todo", "at", "present"}} => w # None

LEMMA AskingIs ==
    ASSUME NEW a
    PROVE  /\ Working =>
                (Asking(a) <=> (On("reconcile") /\ a \in DOMAIN worker.todo) \/ Follows(jobs, 0, a))
           /\ Working' =>
                (Asking(a)' <=> (On("reconcile")' /\ a \in DOMAIN worker'.todo) \/ Follows(jobs', 0, a))
  BY DEF Working, Asking, Follows, Asks

LEMMA Queued ==
    ASSUME NEW queue \in Seq(Job), NEW job \in Job, NEW a
    PROVE  /\ \A i \in Nat : Follows(queue, i, a) => Follows(Append(queue, job), i, a)
           /\ \A i \in 0..Len(queue) : Asks(job, a) => Follows(Append(queue, job), i, a)
           /\ \A i \in Nat : ~Asks(job, a) /\ Follows(Append(queue, job), i, a) => Follows(queue, i, a)
  <1> DEFINE more == Append(queue, job)
  <1>1. /\ Len(queue) \in Nat /\ DOMAIN queue = 1..Len(queue) /\ DOMAIN more = 1..(Len(queue) + 1)
        /\ more[Len(queue) + 1] = job /\ \A i \in DOMAIN queue : more[i] = queue[i]
    OBVIOUS
  <1> HIDE DEF more
  <1>2. QED
    BY <1>1 DEF Follows, more

LEMMA Taken ==
    ASSUME NEW queue \in Seq(Job), queue # <<>>, NEW a, NEW i \in Nat
    PROVE  Follows(queue, i + 1, a) => Follows(Tail(queue), i, a)
  <1>1. /\ Len(queue) \in Nat \ {0} /\ DOMAIN queue = 1..Len(queue)
        /\ DOMAIN Tail(queue) = 1..(Len(queue) - 1)
        /\ \A j \in DOMAIN Tail(queue) : Tail(queue)[j] = queue[j + 1]
    OBVIOUS
  <1>2. ASSUME NEW j \in DOMAIN queue, j > i + 1, Asks(queue[j], a)
        PROVE  Follows(Tail(queue), i, a)
    <2>1. j - 1 \in DOMAIN Tail(queue) /\ j - 1 > i /\ Tail(queue)[j - 1] = queue[j]
      BY <1>1, <1>2
    <2>2. QED
      BY <1>2, <2>1 DEF Follows
  <1>3. QED
    BY <1>2 DEF Follows

(* What is queued at the end keeps the order, if it asks of the record there is. *)
LEMMA OrderQueued ==
    ASSUME NEW queue \in Seq(Job), NEW job \in Job, NEW a, NEW rec, InOrder(queue, rec, a),
           ~Removes(job, a), Asks(job, a) => job.todo[a] = rec
    PROVE  InOrder(Append(queue, job), rec, a)
  <1> DEFINE more == Append(queue, job)
  <1>1. /\ Len(queue) \in Nat /\ DOMAIN queue = 1..Len(queue) /\ DOMAIN more = 1..(Len(queue) + 1)
        /\ more[Len(queue) + 1] = job /\ \A i \in DOMAIN queue : more[i] = queue[i]
    OBVIOUS
  <1>2. \A i \in DOMAIN queue : Follows(queue, i, a) => Follows(more, i, a)
    BY <1>1, Queued
  <1> HIDE DEF more
  <1>3. ASSUME NEW i \in DOMAIN more
        PROVE  /\ Removes(more[i], a) => Follows(more, i, a)
               /\ Asks(more[i], a) => more[i].todo[a] = rec \/ Follows(more, i, a)
    <2>1. CASE i \in DOMAIN queue
      BY <1>1, <1>2, <2>1 DEF InOrder
    <2>2. CASE i \notin DOMAIN queue
      <3>1. more[i] = job
        BY <1>1, <2>2
      <3>2. QED
        BY <3>1
    <2>3. QED
      BY <2>1, <2>2
  <1>4. QED
    BY <1>3 DEF InOrder, more

(* To ask of the record there is puts everything before it in order. *)
LEMMA OrderAsked ==
    ASSUME NEW queue \in Seq(Job), NEW job \in Job, NEW a, NEW rec,
           Asks(job, a), job.todo[a] = rec
    PROVE  InOrder(Append(queue, job), rec, a) /\ Follows(Append(queue, job), 0, a)
  <1> DEFINE more == Append(queue, job)
  <1>1. /\ Len(queue) \in Nat /\ DOMAIN queue = 1..Len(queue) /\ DOMAIN more = 1..(Len(queue) + 1)
        /\ more[Len(queue) + 1] = job
    OBVIOUS
  <1>2. \A i \in 0..Len(queue) : Follows(more, i, a)
    BY Queued
  <1>3. job.job # "remove"
    BY DEF Asks
  <1> HIDE DEF more
  <1>4. ASSUME NEW i \in DOMAIN more
        PROVE  /\ Removes(more[i], a) => Follows(more, i, a)
               /\ Asks(more[i], a) => more[i].todo[a] = rec \/ Follows(more, i, a)
    <2>1. CASE i \in DOMAIN queue
      BY <1>1, <1>2, <2>1
    <2>2. CASE i \notin DOMAIN queue
      <3>1. more[i] = job
        BY <1>1, <2>2
      <3>2. QED
        BY <1>3, <3>1 DEF Removes
    <2>3. QED
      BY <2>1, <2>2
  <1>5. 0 \in 0..Len(queue)
    BY <1>1
  <1>6. QED
    BY <1>2, <1>4, <1>5 DEF InOrder, more

LEMMA OrderTaken ==
    ASSUME NEW queue \in Seq(Job), queue # <<>>, NEW a, NEW rec, InOrder(queue, rec, a)
    PROVE  /\ InOrder(Tail(queue), rec, a)
           /\ Removes(Head(queue), a) => Follows(Tail(queue), 0, a)
           /\ Asks(Head(queue), a) => Head(queue).todo[a] = rec \/ Follows(Tail(queue), 0, a)
  <1> DEFINE rest == Tail(queue)
  <1>1. /\ Len(queue) \in Nat \ {0} /\ DOMAIN queue = 1..Len(queue) /\ Head(queue) = queue[1]
        /\ DOMAIN rest = 1..(Len(queue) - 1)
        /\ \A j \in DOMAIN rest : rest[j] = queue[j + 1]
    OBVIOUS
  <1>2. \A i \in Nat : Follows(queue, i + 1, a) => Follows(rest, i, a)
    BY Taken
  <1> HIDE DEF rest
  <1>3. ASSUME NEW i \in DOMAIN rest
        PROVE  /\ Removes(rest[i], a) => Follows(rest, i, a)
               /\ Asks(rest[i], a) => rest[i].todo[a] = rec \/ Follows(rest, i, a)
    <2>1. i \in Nat /\ i + 1 \in DOMAIN queue /\ rest[i] = queue[i + 1]
      BY <1>1
    <2>2. QED
      BY <1>2, <2>1 DEF InOrder
  <1>4. /\ Removes(Head(queue), a) => Follows(rest, 0, a)
        /\ Asks(Head(queue), a) => Head(queue).todo[a] = rec \/ Follows(rest, 0, a)
    <2>1. 1 \in DOMAIN queue /\ 0 \in Nat /\ 0 + 1 = 1
      BY <1>1
    <2>2. Follows(queue, 1, a) => Follows(rest, 0, a)
      BY <1>2, <2>1
    <2>3. QED
      BY <1>1, <2>1, <2>2 DEF InOrder
  <1>5. QED
    BY <1>3, <1>4 DEF InOrder, rest

(* A row stays right while what it draws stays and the store only grows under it. *)
LEMMA RowKept ==
    ASSUME NEW a \in Areas, Row(a), records'[a] = records[a], facts'[a] = facts[a],
           Answered(a)' => Answered(a), \A h : Listed(a, h) \subseteq Listed(a, h)'
    PROVE  Row(a)'
  BY DEF Row, AllHeld, IsComplete

LEMMA Grows ==
    ASSUME NEW a, \A n \in DOMAIN disk : n.kind = "pmtiles" /\ n.area = a => n \in DOMAIN disk'
    PROVE  \A h : Listed(a, h) \subseteq Listed(a, h)'
  BY DEF Listed

(* No run takes a published name away. *)
LEMMA RunsPublish ==
    ASSUME NEW e \in Slots, RunStep(e)
    PROVE  \A n \in DOMAIN disk : n.kind = "pmtiles" => n \in DOMAIN disk'
  <1>1. PartOf(engines[e]).kind = "part"
    BY DEF PartOf, NameOf
  <1>2. CASE disk' = disk
    BY <1>2
  <1>3. CASE OpenPart(e)
    BY <1>3 DEF OpenPart, Opened, With
  <1>4. CASE WriteEnds(e) \/ WriteFails(e)
    BY <1>4 DEF WriteEnds, WriteFails, Closed
  <1>5. CASE Rename(e)
    <2> DEFINE part == PartOf(engines[e])
    <2>1. CASE part \in DOMAIN disk
      <3>1. disk' = With(Without(disk, part), Published(part), disk[part])
        BY <1>5, <2>1 DEF Rename
      <3> HIDE DEF part
      <3>2. DOMAIN disk' = (DOMAIN disk \ {part}) \cup {Published(part)}
        BY <3>1 DEF With, Without
      <3>3. part.kind = "part"
        BY <1>1 DEF part
      <3>4. QED
        BY <3>2, <3>3
    <2>2. CASE part \notin DOMAIN disk
      BY <1>2, <1>5, <2>2 DEF Rename
    <2>3. QED
      BY <2>1, <2>2
  <1>6. CASE RenameFails(e)
    BY <1>1, <1>6 DEF RenameFails, Without
  <1>7. QED
    BY <1>2, <1>3, <1>4, <1>5, <1>6
       DEF RunStep, PrepareBasemap, BasemapWillNotPlan, PrepareTerrain, TerrainWillNotPlan,
           Fetch, SegmentFails

(* Of a step that asks nothing of the worker and takes nothing from the store. *)
LEMMA SameWork ==
    ASSUME AreasInv, RowInv, worker' = worker, jobs' = jobs, unlisted' = unlisted,
           asked' \subseteq asked,
           \A a \in asked' : records'[a] = records[a] /\ facts'[a] = facts[a],
           \A n \in DOMAIN disk : n.kind = "pmtiles" => n \in DOMAIN disk'
    PROVE  RowInv'
  <1>1. \A a, h : Listed(a, h) \subseteq Listed(a, h)'
    BY Grows
  <1>2. HalfListed' /\ RemovesItsOwn'
    BY <1>1 DEF RowInv, HalfListed, RemovesItsOwn, On
  <1>3. ASSUME NEW a \in Areas
        PROVE  AskedInOrder(a)' /\ Row(a)'
    <2>1. Asking(a)' <=> Asking(a)
      BY DEF Asking, On
    <2>2. CASE a \in asked'
      <3>1. records'[a] = records[a] /\ facts'[a] = facts[a] /\ a \in asked
        BY <2>2
      <3>2. AskedInOrder(a)'
        BY <3>1 DEF RowInv, AskedInOrder, InHand, On
      <3>3. Row(a) /\ (Answered(a)' => Answered(a))
        BY <2>1, <3>1 DEF Answered, RowInv
      <3>4. QED
        BY <1>1, <3>1, <3>2, <3>3, RowKept
    <2>3. CASE a \notin asked'
      BY <2>3 DEF AskedInOrder, Row, Answered
    <2>4. QED
      BY <2>2, <2>3
  <1>4. QED
    BY <1>2, <1>3 DEF RowInv

(* Of a job queued for other areas. *)
LEMMA QueuedForOthers ==
    ASSUME AreasInv, AreasInv', RowInv, NEW job \in Job, jobs' = Append(jobs, job),
           worker' = worker, disk' = disk, facts' = facts,
           NEW b \in Areas, b \in asked, records'[b] = records[b], ~Removes(job, b), ~Asks(job, b),
           b \in unlisted' <=> b \in unlisted
    PROVE  AskedInOrder(b)' /\ Row(b)'
  <1>1. Working /\ Working' /\ jobs \in Seq(Job) /\ 0 \in Nat
    BY DEF AreasInv, Working
  <1>2. Follows(jobs, 0, b) => Follows(jobs', 0, b)
    BY <1>1, Queued
  <1>3. Asking(b) => Asking(b)'
    BY <1>1, <1>2, AskingIs DEF On
  <1>4. Row(b)'
    <2>1. Answered(b)' => Answered(b)
      BY <1>3 DEF Answered
    <2>2. \A h : Listed(b, h) \subseteq Listed(b, h)'
      BY Grows
    <2>3. QED
      BY <2>1, <2>2, RowKept DEF RowInv
  <1>5. records[b] # None /\ InOrder(jobs, records[b], b) /\ InHand(jobs, records[b], b)
    BY DEF RowInv, AskedInOrder
  <1>6. InOrder(jobs', records'[b], b)
    BY <1>1, <1>5, OrderQueued
  <1>7. InHand(jobs, records[b], b)'
    BY <1>2, <1>5 DEF InHand, On
  <1>8. QED
    BY <1>4, <1>5, <1>6, <1>7 DEF AskedInOrder

LEMMA DeleteRows ==
    ASSUME AreasInv, AreasInv', RowInv, NEW a \in Areas, Delete(a)
    PROVE  RowInv'
  <1> DEFINE job == [job |-> "remove", area |-> a]
  <1>1. /\ jobs' = Append(jobs, job) /\ worker' = worker /\ disk' = disk /\ facts' = facts
        /\ unlisted' = unlisted /\ asked' = asked \ {a} /\ records' = [records EXCEPT ![a] = None]
    BY DEF Delete
  <1>2. job \in Job /\ \A b : ~Asks(job, b) /\ (Removes(job, b) => b = a)
    BY DEF Job, Asks, Removes
  <1> HIDE DEF job
  <1>3. HalfListed' /\ RemovesItsOwn'
    BY <1>1 DEF RowInv, HalfListed, RemovesItsOwn, On, Listed
  <1>4. ASSUME NEW b \in Areas
        PROVE  AskedInOrder(b)' /\ Row(b)'
    <2>1. CASE b \in asked'
      <3>1. b \in asked /\ b # a /\ records'[b] = records[b]
        BY <1>1, <2>1 DEF AreasInv, Recorded
      <3>2. QED
        BY <1>1, <1>2, <3>1, QueuedForOthers
    <2>2. CASE b \notin asked'
      BY <2>2 DEF AskedInOrder, Row, Answered
    <2>3. QED
      BY <2>1, <2>2
  <1>5. QED
    BY <1>3, <1>4 DEF RowInv

LEMMA AskRows ==
    ASSUME AreasInv, AreasInv', RowInv, AskUnknown
    PROVE  RowInv'
  <1> DEFINE todo == [a \in Unknown |-> records[a]]
             job == [job |-> "reconcile", todo |-> todo]
  <1>1. /\ jobs' = Append(jobs, job) /\ worker' = worker /\ disk' = disk /\ facts' = facts
        /\ unlisted' = unlisted \ Unknown /\ asked' = asked \cup Unknown /\ records' = records
    BY DEF AskUnknown, recordVars
  <1>2. /\ Unknown \in SUBSET Areas /\ \A a \in Unknown : a \notin asked /\ records[a] # None
        /\ \A a \in Unknown : records[a] \in Record
    BY DEF Unknown, AreasInv, Recorded
  <1>3. todo \in [Unknown -> Record] /\ \A a \in Unknown : todo[a] = records[a]
    BY <1>2
  <1>4. todo \in Todo /\ DOMAIN todo = Unknown
    <2> HIDE DEF todo
    <2>1. QED
      BY <1>2, <1>3 DEF Todo
  <1> HIDE DEF todo
  <1>5. job \in Job /\ \A b : ~Removes(job, b) /\ (Asks(job, b) <=> b \in Unknown)
    BY <1>4 DEF Job, Asks, Removes
  <1>6. job.todo = todo
    OBVIOUS
  <1> HIDE DEF job
  <1>7. HalfListed' /\ RemovesItsOwn'
    BY <1>1 DEF RowInv, HalfListed, RemovesItsOwn, On, Listed
  <1>8. ASSUME NEW b \in Areas
        PROVE  AskedInOrder(b)' /\ Row(b)'
    <2>1. CASE b \in Unknown
      <3>1. InOrder(jobs', records'[b], b) /\ Follows(jobs', 0, b) /\ records'[b] # None
        <4>1. Working /\ jobs \in Seq(Job)
          BY DEF AreasInv, Working
        <4>2. Asks(job, b) /\ job.todo[b] = records[b]
          BY <1>3, <1>5, <1>6, <2>1
        <4>3. QED
          BY <1>1, <1>2, <1>5, <2>1, <4>1, <4>2, OrderAsked
      <3>2. Asking(b)'
        BY <3>1, AskingIs DEF AreasInv
      <3>3. InHand(jobs, records[b], b)'
        BY <3>1 DEF InHand
      <3>4. QED
        BY <3>1, <3>2, <3>3 DEF AskedInOrder, Row, Answered
    <2>2. CASE b \in asked /\ b \notin Unknown
      BY <1>1, <1>5, <2>2, QueuedForOthers
    <2>3. CASE b \notin asked'
      BY <2>3 DEF AskedInOrder, Row, Answered
    <2>4. QED
      BY <1>1, <2>1, <2>2, <2>3
  <1>9. QED
    BY <1>7, <1>8 DEF RowInv

LEMMA TakeRows ==
    ASSUME NoneIsNoWork, AreasInv, AreasInv', RowInv, TakeJob
    PROVE  RowInv'
  <1> DEFINE job == Head(jobs)
             names == {n \in DOMAIN disk : n.area = job.area}
             removal == [job |-> "remove", area |-> job.area, names |-> names]
             reconcile == [job |-> "reconcile", todo |-> job.todo, at |-> None, present |-> 0]
  <1>1. /\ worker = None /\ jobs # <<>> /\ jobs' = Tail(jobs)
        /\ worker' = IF job.job = "remove" THEN removal ELSE reconcile
        /\ disk' = disk /\ facts' = facts /\ unlisted' = unlisted /\ records' = records /\ asked' = asked
    BY DEF TakeJob, Took, recordVars
  <1>2. job \in Job /\ jobs \in Seq(Job)
    <2>1. jobs \in Seq(Job)
      BY DEF AreasInv, Working
    <2>2. QED
      BY <1>1, <2>1
  <1>3. /\ removal # None /\ removal.job = "remove" /\ removal.area = job.area /\ removal.names = names
        /\ reconcile # None /\ reconcile.job = "reconcile" /\ reconcile.todo = job.todo
        /\ reconcile.at = None
    BY DEF NoneIsNoWork
  <1>4. \A n \in names : n.area = job.area
    OBVIOUS
  <1>5. job.job = "remove" \/ job.job = "reconcile"
    BY <1>2 DEF Job
  <1> HIDE DEF names, removal, reconcile
  <1>6. /\ On("remove")' <=> job.job = "remove"
        /\ On("reconcile")' <=> job.job = "reconcile"
    BY <1>1, <1>3, <1>5 DEF On
  <1>7. HalfListed' /\ RemovesItsOwn'
    BY <1>1, <1>3, <1>4, <1>6 DEF HalfListed, RemovesItsOwn
  <1>8. ASSUME NEW a \in Areas
        PROVE  AskedInOrder(a)' /\ Row(a)'
    <2>1. /\ worker'.area = job.area \/ job.job # "remove"
          /\ worker'.todo = job.todo \/ job.job # "reconcile"
      BY <1>1, <1>3
    <2>2. AskedInOrder(a)'
      <3>1. CASE a \in asked
        <4>1. records[a] # None /\ InOrder(jobs, records[a], a)
          BY <3>1 DEF RowInv, AskedInOrder
        <4>2. /\ InOrder(jobs', records[a], a)
              /\ Removes(job, a) => Follows(jobs', 0, a)
              /\ Asks(job, a) => job.todo[a] = records[a] \/ Follows(jobs', 0, a)
          BY <1>1, <1>2, <4>1, OrderTaken
        <4>3. InHand(jobs, records[a], a)'
          BY <1>1, <1>6, <2>1, <4>2 DEF InHand, Removes, Asks
        <4>4. QED
          BY <1>1, <4>1, <4>2, <4>3 DEF AskedInOrder
      <3>2. CASE a \notin asked
        BY <1>1, <3>2 DEF AskedInOrder
      <3>3. QED
        BY <3>1, <3>2
    <2>3. Asking(a) => Asking(a)'
      <3>1. Asking(a) <=> Follows(jobs, 0, a)
        BY <1>1, AskingIs DEF AreasInv, On
      <3>2. Follows(jobs, 0, a) => Asks(job, a) \/ Follows(jobs', 0, a)
        <4>1. /\ Len(jobs) \in Nat \ {0} /\ DOMAIN jobs = 1..Len(jobs) /\ jobs[1] = job
          BY <1>1, <1>2
        <4>2. Follows(jobs, 1, a) => Follows(jobs', 0, a)
          <5>1. 0 \in Nat /\ 0 + 1 = 1
            OBVIOUS
          <5>2. QED
            BY <1>1, <1>2, <5>1, Taken
        <4>3. QED
          BY <4>1, <4>2 DEF Follows
      <3>3. Asks(job, a) => On("reconcile")' /\ a \in DOMAIN worker'.todo
        BY <1>6, <2>1 DEF Asks
      <3>4. QED
        BY <3>1, <3>2, <3>3, AskingIs DEF AreasInv
    <2>4. Row(a)'
      <3>1. Answered(a)' => Answered(a)
        BY <1>1, <2>3 DEF Answered
      <3>2. \A h : Listed(a, h) \subseteq Listed(a, h)'
        BY <1>1, Grows
      <3>3. QED
        BY <1>1, <3>1, <3>2, RowKept DEF RowInv
    <2>5. QED
      BY <2>2, <2>4
  <1>9. QED
    BY <1>7, <1>8 DEF RowInv

(* Of what the worker is on once it is done with a. *)
LEMMA DoneIs ==
    ASSUME NoneIsNoWork, NEW a, worker \in Reconcile, worker' = Done(a)
    PROVE  /\ ~On("remove")' /\ (On("reconcile")' => worker'.at = None)
           /\ \A b : (On("reconcile")' /\ b \in DOMAIN worker'.todo) <=>
                        b \in DOMAIN worker.todo \ {a}
           /\ \A b \in DOMAIN worker.todo \ {a} : worker'.todo[b] = worker.todo[b]
  <1> DEFINE rest == DOMAIN worker.todo \ {a}
             todo == [b \in rest |-> worker.todo[b]]
             w == [worker EXCEPT !.todo = todo, !.at = None, !.present = 0]
  <1>1. worker' = IF rest = {} THEN None ELSE w
    BY DEF Done
  <1>2. DOMAIN todo = rest /\ \A b \in rest : todo[b] = worker.todo[b]
    OBVIOUS
  <1> HIDE DEF todo
  <1>3. w # None /\ w.job = "reconcile" /\ w.todo = todo /\ w.at = None
    <2>1. /\ DOMAIN w = {"job", "todo", "at", "present"}
          /\ w.job = "reconcile" /\ w.todo = todo /\ w.at = None
      BY DEF Reconcile
    <2> HIDE DEF w
    <2>2. QED
      BY <2>1 DEF NoneIsNoWork
  <1> HIDE DEF w, rest
  <1>4. CASE rest = {}
    BY <1>1, <1>4 DEF On, rest
  <1>5. CASE rest # {}
    <2>1. worker' = w
      BY <1>1, <1>5
    <2>2. On("reconcile")' /\ ~On("remove")'
      BY <1>3, <2>1 DEF On
    <2>3. QED
      BY <1>2, <1>3, <2>1, <2>2 DEF rest
  <1>6. QED
    BY <1>4, <1>5

(* Of a step that is done with a: the other areas are as they were, and a is as it was *)
(* asked, if nothing else is still asked of it.                                        *)
LEMMA DoneRows ==
    ASSUME NoneIsNoWork, AreasInv, AreasInv', RowInv,
           NEW a \in Areas, On("reconcile"), a \in DOMAIN worker.todo, worker' = Done(a),
           jobs' = jobs, records' = records, asked' = asked, disk' = disk,
           unlisted' \in {unlisted \cup {a}, unlisted \ {a}},
           \A b \in Areas : b # a => facts'[b] = facts[b],
           Answered(a)' /\ worker.todo[a] = records[a] => Row(a)'
    PROVE  RowInv'
  <1>1. worker \in Reconcile
    BY OnReconcile DEF AreasInv
  <1>2. /\ ~On("remove")' /\ (On("reconcile")' => worker'.at = None)
        /\ \A b : (On("reconcile")' /\ b \in DOMAIN worker'.todo) <=> b \in DOMAIN worker.todo \ {a}
        /\ \A b \in DOMAIN worker.todo \ {a} : worker'.todo[b] = worker.todo[b]
    BY <1>1, DoneIs
  <1>3. HalfListed' /\ RemovesItsOwn'
    BY <1>2 DEF HalfListed, RemovesItsOwn
  <1>4. ASSUME NEW b \in Areas
        PROVE  AskedInOrder(b)'
    BY <1>2 DEF RowInv, AskedInOrder, InHand
  <1>5. ASSUME NEW b \in Areas, b # a
        PROVE  Row(b)'
    <2>1. Asking(b)' <=> Asking(b)
      BY <1>2, <1>5, AskingIs DEF AreasInv
    <2>2. Answered(b)' => Answered(b)
      BY <1>5, <2>1 DEF Answered
    <2>3. \A h : Listed(b, h) \subseteq Listed(b, h)'
      BY Grows
    <2>4. QED
      BY <1>5, <2>2, <2>3, RowKept DEF RowInv
  <1>6. Row(a)'
    <2>1. CASE Answered(a)'
      <3>1. a \in asked /\ ~Follows(jobs, 0, a)
        BY <2>1, AskingIs DEF Answered, AreasInv
      <3>2. worker.todo[a] = records[a]
        BY <3>1 DEF RowInv, AskedInOrder, InHand
      <3>3. QED
        BY <2>1, <3>2
    <2>2. CASE ~Answered(a)'
      BY <2>2 DEF Row
    <2>3. QED
      BY <2>1, <2>2
  <1>7. QED
    BY <1>3, <1>4, <1>5, <1>6 DEF RowInv

(* What is counted of both halves is all that was asked for only if each half is. *)
LEMMA WholeAnswer ==
    ASSUME AreasInv, NEW a \in Areas, NEW rec \in Record, NEW m \in Nat,
           m <= rec.expected["Basemap"],
           m = rec.expected["Basemap"] =>
                \A s \in 1..rec.expected["Basemap"] : s \in Listed(a, "Basemap"),
           NEW t \in Nat, t <= rec.expected["Terrain"],
           t = rec.expected["Terrain"] =>
                \A s \in 1..rec.expected["Terrain"] : s \in Listed(a, "Terrain"),
           m + t >= rec.expected["Basemap"] + rec.expected["Terrain"]
    PROVE  \A h \in Halves : \A s \in 1..rec.expected[h] : s \in Listed(a, h)
  <1>1. rec.expected["Basemap"] \in Nat /\ rec.expected["Terrain"] \in Nat
    BY DEF Record, Halves
  <1>2. m = rec.expected["Basemap"] /\ t = rec.expected["Terrain"]
    BY <1>1
  <1>3. QED
    BY <1>2 DEF Halves

LEMMA BasemapRows ==
    ASSUME NoneIsNoWork, AreasInv, AreasInv', RowInv, NEW a \in Areas, ListBasemap(a)
    PROVE  RowInv'
  <1> DEFINE rec == worker.todo[a]
             m == Present(a, "Basemap", rec)
  <1>1. /\ On("reconcile") /\ a \in DOMAIN worker.todo /\ jobs' = jobs /\ records' = records
        /\ asked' = asked /\ disk' = disk
        /\ IF rec.terrain
           THEN worker' = [worker EXCEPT !.at = a, !.present = m] /\ facts' = facts /\ unlisted' = unlisted
           ELSE Answer(a, rec, m)
    BY DEF ListBasemap, Took, recordVars
  <1>2. worker \in Reconcile /\ worker # None /\ rec \in Record
    BY <1>1, OnReconcile, TodoOf DEF AreasInv
  <1>3. /\ m \in Nat /\ m <= rec.expected["Basemap"]
        /\ m = rec.expected["Basemap"] =>
                \A s \in 1..rec.expected["Basemap"] : s \in Listed(a, "Basemap")
    BY <1>2, PresentType DEF AreasInv, Halves
  <1> HIDE DEF m
  <1>4. CASE rec.terrain
    <2>1. /\ worker'.at = a /\ worker'.present = m /\ worker'.todo = worker.todo
          /\ worker'.job = "reconcile" /\ worker' # None
      <3> DEFINE w == [worker EXCEPT !.at = a, !.present = m]
      <3>1. /\ DOMAIN w = {"job", "todo", "at", "present"}
            /\ w.at = a /\ w.present = m /\ w.todo = worker.todo /\ w.job = "reconcile"
        BY <1>2 DEF Reconcile
      <3>2. worker' = w
        BY <1>1, <1>4
      <3> HIDE DEF w
      <3>3. QED
        BY <3>1, <3>2 DEF NoneIsNoWork
    <2>2. On("reconcile")' /\ ~On("remove")' /\ ~On("remove")
      BY <1>1, <2>1 DEF On
    <2>3. HalfListed' /\ RemovesItsOwn'
      <3>1. rec = worker'.todo[worker'.at]
        BY <2>1
      <3>2. \A h : Listed(a, h)' = Listed(a, h)
        BY <1>1 DEF Listed
      <3> HIDE DEF rec
      <3>3. QED
        BY <1>3, <2>1, <2>2, <3>1, <3>2 DEF HalfListed, RemovesItsOwn
    <2>4. ASSUME NEW b \in Areas
          PROVE  AskedInOrder(b)' /\ Row(b)'
      <3>1. Asking(b)' <=> Asking(b)
        BY <1>1, <2>1, <2>2 DEF Asking
      <3>2. Answered(b)' => Answered(b)
        BY <1>1, <1>4, <3>1 DEF Answered
      <3>3. Row(b)'
        <4>1. \A h : Listed(b, h) \subseteq Listed(b, h)'
          BY <1>1, Grows
        <4>2. QED
          BY <1>1, <1>4, <3>2, <4>1, RowKept DEF RowInv
      <3>4. AskedInOrder(b)'
        BY <1>1, <2>1, <2>2 DEF RowInv, AskedInOrder, InHand
      <3>5. QED
        BY <3>3, <3>4
    <2>5. QED
      BY <2>3, <2>4 DEF RowInv
  <1>5. CASE ~rec.terrain
    <2>1. Answer(a, rec, m)
      BY <1>1, <1>5
    <2>2. /\ facts'[a] = [present |-> m,
                          expected |-> rec.expected["Basemap"] + rec.expected["Terrain"]]
          /\ \A b \in Areas : b # a => facts'[b] = facts[b]
      BY <1>2, <1>3, <2>1, AnswerType DEF AreasInv, Recorded
    <2>3. ASSUME rec = records[a]
          PROVE  Row(a)'
      <3>1. ASSUME IsComplete(facts[a])'
            PROVE  AllHeld(a)'
        <4>1. m >= rec.expected["Basemap"] + rec.expected["Terrain"]
          BY <2>2, <3>1 DEF IsComplete
        <4>2. rec.expected["Basemap"] \in Nat /\ rec.expected["Terrain"] \in Nat
          BY <1>2 DEF Record, Halves
        <4>3. m = rec.expected["Basemap"] /\ rec.expected["Terrain"] = 0
          <5>1. m \in Nat /\ m <= rec.expected["Basemap"]
            BY <1>3
          <5> HIDE DEF rec
          <5>2. QED
            BY <4>1, <4>2, <5>1
        <4>4. \A h \in Halves : \A s \in 1..rec.expected[h] : s \in Listed(a, h)
          BY <1>3, <4>3 DEF Halves
        <4>5. records'[a] = rec /\ \A h : Listed(a, h)' = Listed(a, h)
          BY <1>1, <2>3 DEF Listed
        <4> HIDE DEF rec
        <4>6. QED
          BY <4>4, <4>5 DEF AllHeld
      <3>2. QED
        BY <3>1 DEF Row
    <2>4. worker' = Done(a) /\ unlisted' = unlisted \ {a}
      BY <2>1 DEF Answer
    <2>5. QED
      BY <1>1, <2>2, <2>3, <2>4, DoneRows
  <1>6. QED
    BY <1>4, <1>5

LEMMA TerrainRows ==
    ASSUME NoneIsNoWork, AreasInv, AreasInv', AtListed, RowInv, ListTerrain
    PROVE  RowInv'
  <1>0. worker.at \in Areas /\ worker.at \in DOMAIN worker.todo
    <2>1. worker \in Reconcile /\ worker.todo \in Todo
      BY OnReconcile DEF ListTerrain, AreasInv
    <2>2. QED
      BY <2>1, TodoOf DEF ListTerrain, AtListed
  <1>a. PICK a \in Areas : a = worker.at
    BY <1>0
  <1> DEFINE rec == worker.todo[a]
             m == worker.present
             t == Present(a, "Terrain", rec)
  <1>1. /\ On("reconcile") /\ worker.at # None /\ jobs' = jobs /\ records' = records
        /\ asked' = asked /\ disk' = disk /\ Answer(a, rec, m + t)
    BY <1>a DEF ListTerrain, Took, recordVars
  <1>2. worker \in Reconcile /\ a \in DOMAIN worker.todo /\ rec \in Record /\ m \in Nat
    <2>1. worker \in Reconcile /\ worker.todo \in Todo
      BY <1>1, OnReconcile DEF AreasInv
    <2>2. QED
      BY <1>0, <1>a, <2>1, TodoOf DEF Reconcile
  <1>3. /\ t \in Nat /\ t <= rec.expected["Terrain"]
        /\ t = rec.expected["Terrain"] =>
                \A s \in 1..rec.expected["Terrain"] : s \in Listed(a, "Terrain")
    BY <1>2, PresentType DEF AreasInv, Halves
  <1>4. /\ m <= rec.expected["Basemap"]
        /\ m = rec.expected["Basemap"] =>
                \A s \in 1..rec.expected["Basemap"] : s \in Listed(a, "Basemap")
    BY <1>1, <1>a DEF RowInv, HalfListed
  <1>5. worker' = Done(a) /\ unlisted' = unlisted \ {a}
    BY <1>1 DEF Answer
  <1>6. rec = worker.todo[a]
    OBVIOUS
  <1> HIDE DEF rec, m, t
  <1>7. /\ facts'[a] = [present |-> m + t,
                        expected |-> rec.expected["Basemap"] + rec.expected["Terrain"]]
        /\ \A b \in Areas : b # a => facts'[b] = facts[b]
    <2>1. m + t \in Nat
      BY <1>2, <1>3
    <2>2. QED
      BY <1>1, <1>2, <2>1, AnswerType DEF AreasInv, Recorded
  <1>8. ASSUME rec = records[a]
        PROVE  Row(a)'
    <2>1. ASSUME IsComplete(facts[a])'
          PROVE  AllHeld(a)'
      <3>1. m + t >= rec.expected["Basemap"] + rec.expected["Terrain"]
        BY <1>7, <2>1 DEF IsComplete
      <3>2. \A h \in Halves : \A s \in 1..rec.expected[h] : s \in Listed(a, h)
        BY <1>2, <1>3, <1>4, <3>1, WholeAnswer
      <3>3. records'[a] = rec /\ \A h : Listed(a, h)' = Listed(a, h)
        BY <1>1, <1>8 DEF Listed
      <3>4. QED
        BY <3>2, <3>3 DEF AllHeld
    <2>2. QED
      BY <2>1 DEF Row
  <1>9. QED
    BY <1>1, <1>2, <1>5, <1>6, <1>7, <1>8, DoneRows

LEMMA FailsRows ==
    ASSUME NoneIsNoWork, AreasInv, AreasInv', RowInv, NEW a \in Areas, ListFails(a)
    PROVE  RowInv'
  <1>1. /\ On("reconcile") /\ a \in DOMAIN worker.todo /\ worker' = Done(a) /\ jobs' = jobs
        /\ records' = records /\ asked' = asked /\ disk' = disk /\ facts' = facts
        /\ unlisted' = unlisted \cup {a}
    BY DEF ListFails, Took, recordVars
  <1>2. ~Answered(a)'
    BY <1>1 DEF Answered
  <1>3. QED
    BY <1>1, <1>2, DoneRows

(* A removal that is over leaves its area unknown. *)
LEMMA EndsRows ==
    ASSUME AreasInv, AreasInv', RowInv, On("remove"), RemovalEnds, Took,
           disk' = disk, jobs' = jobs, unlisted' = unlisted
    PROVE  RowInv'
  <1>1. worker \in Removal
    BY OnRemove DEF AreasInv
  <1>2. /\ worker' = None /\ facts'[worker.area] = None
        /\ \A b \in Areas : b # worker.area => facts'[b] = facts[b]
    BY <1>1, EndsType DEF AreasInv, Recorded
  <1>3. records' = records /\ asked' = asked
    BY DEF Took, recordVars
  <1>4. ~On("reconcile") /\ ~On("reconcile")' /\ ~On("remove")'
    BY <1>2 DEF On
  <1>5. HalfListed' /\ RemovesItsOwn'
    BY <1>4 DEF HalfListed, RemovesItsOwn
  <1>6. ASSUME NEW a \in Areas
        PROVE  AskedInOrder(a)' /\ Row(a)'
    <2>1. AskedInOrder(a)'
      BY <1>3, <1>4 DEF RowInv, AskedInOrder, InHand
    <2>2. Row(a)'
      <3>1. CASE a = worker.area
        BY <1>2, <3>1 DEF Row
      <3>2. CASE a # worker.area
        <4>1. Answered(a)' => Answered(a)
          BY <1>3, <1>4 DEF Answered, Asking
        <4>2. \A h : Listed(a, h) \subseteq Listed(a, h)'
          BY Grows
        <4>3. QED
          BY <1>2, <1>3, <3>2, <4>1, <4>2, RowKept DEF RowInv
      <3>3. QED
        BY <3>1, <3>2
    <2>3. QED
      BY <2>1, <2>2
  <1>7. QED
    BY <1>5, <1>6 DEF RowInv

(* A file that goes is of an area that is still asked about, or of none that is drawn. *)
LEMMA RemoveRows ==
    ASSUME NoneIsNoWork, AreasInv, AreasInv', RowInv, NEW n \in Name, RemoveFile(n)
    PROVE  RowInv'
  <1>1. worker \in Removal /\ On("remove") /\ n \in worker.names
    BY OnRemove DEF RemoveFile, AreasInv
  <1>2. jobs' = jobs /\ unlisted' = unlisted /\ records' = records /\ asked' = asked /\ Took
    BY DEF RemoveFile, Took, recordVars
  <1>3. CASE n \in DOMAIN disk
    <2>1. /\ disk' = Without(disk, n) /\ worker' = [worker EXCEPT !.names = @ \ {n}]
          /\ facts' = facts
      BY <1>3 DEF RemoveFile
    <2>2. /\ worker'.job = "remove" /\ worker'.area = worker.area
          /\ worker'.names = worker.names \ {n} /\ worker' # None
      <3> DEFINE names == worker.names \ {n}
                 w == [worker EXCEPT !.names = names]
      <3>1. /\ DOMAIN w = {"job", "area", "names"}
            /\ w.job = "remove" /\ w.area = worker.area /\ w.names = names
        BY <1>1 DEF Removal
      <3>2. worker' = w
        BY <2>1
      <3> HIDE DEF w
      <3>3. QED
        BY <3>1, <3>2 DEF NoneIsNoWork
    <2>3. On("remove")' /\ ~On("reconcile") /\ ~On("reconcile")'
      BY <1>1, <2>2 DEF On
    <2>4. HalfListed' /\ RemovesItsOwn'
      BY <1>1, <2>2, <2>3 DEF RowInv, HalfListed, RemovesItsOwn
    <2>5. n.area = worker.area
      BY <1>1 DEF RowInv, RemovesItsOwn
    <2>6. ASSUME NEW a \in Areas
          PROVE  AskedInOrder(a)' /\ Row(a)'
      <3>1. AskedInOrder(a)'
        BY <1>1, <1>2, <2>2, <2>3 DEF RowInv, AskedInOrder, InHand
      <3>2. Answered(a)' => Answered(a)
        BY <1>2, <2>3 DEF Answered, Asking
      <3>3. CASE a # worker.area
        <4>1. \A m \in DOMAIN disk : m.kind = "pmtiles" /\ m.area = a => m \in DOMAIN disk'
          BY <2>1, <2>5, <3>3 DEF Without
        <4>2. \A h : Listed(a, h) \subseteq Listed(a, h)'
          BY <4>1, Grows
        <4>3. QED
          BY <1>2, <2>1, <3>1, <3>2, <4>2, RowKept DEF RowInv
      <3>4. CASE a = worker.area
        <4>1. a \in asked => Follows(jobs, 0, a)
          BY <1>1, <3>4 DEF RowInv, AskedInOrder, InHand
        <4>2. a \in asked => Asking(a)
          BY <4>1, AskingIs DEF AreasInv
        <4>3. ~Answered(a)'
          BY <3>2, <4>2 DEF Answered
        <4>4. QED
          BY <3>1, <4>3 DEF Row
      <3>5. QED
        BY <3>3, <3>4
    <2>7. QED
      BY <2>4, <2>6 DEF RowInv
  <1>4. CASE n \notin DOMAIN disk
    <2>1. RemovalEnds /\ disk' = disk
      BY <1>4 DEF RemoveFile
    <2>2. QED
      BY <1>1, <1>2, <2>1, EndsRows
  <1>5. QED
    BY <1>3, <1>4

LEMMA SettleRows ==
    ASSUME AreasInv, RowInv, Settle
    PROVE  RowInv'
  <1> DEFINE r == engines[active]
  <1>1. /\ records' = IF r.outcome = "Complete" THEN [records EXCEPT ![r.area] = FromRun(r)]
                      ELSE records
        /\ asked' = asked \ {r.area} /\ facts' = [facts EXCEPT ![r.area] = None]
        /\ disk' = disk /\ jobs' = jobs /\ worker' = worker /\ unlisted' = unlisted
    BY DEF Settle
  <1>2. \A a \in asked' : a \in Areas /\ a # r.area
    BY <1>1 DEF AreasInv, Recorded
  <1> HIDE DEF r
  <1>3. \A a \in asked' : records'[a] = records[a] /\ facts'[a] = facts[a]
    BY <1>1, <1>2 DEF AreasInv, Recorded
  <1>4. QED
    BY <1>1, <1>3, SameWork

LEMMA RelaunchRows ==
    ASSUME Relaunch
    PROVE  RowInv'
  <1>1. worker' = None /\ asked' = {}
    BY DEF Relaunch
  <1>2. HalfListed' /\ RemovesItsOwn'
    BY <1>1 DEF HalfListed, RemovesItsOwn, On
  <1>3. \A a \in Areas : AskedInOrder(a)' /\ Row(a)'
    BY <1>1 DEF AskedInOrder, Row, Answered
  <1>4. QED
    BY <1>2, <1>3 DEF RowInv

(* Of the rest: the worker, the store and the rows that are asked for are let alone. *)
LEMMA OtherRows ==
    ASSUME AreasInv, RowInv,
           \/ \E a \in Areas, terrain \in BOOLEAN : Start(a, terrain)
           \/ Cancel \/ Dropped \/ Save \/ UNCHANGED vars
    PROVE  RowInv'
  <1>1. /\ worker' = worker /\ jobs' = jobs /\ unlisted' = unlisted /\ asked' = asked
        /\ records' = records /\ facts' = facts /\ disk' = disk
    BY DEF Start, Cancel, Dropped, Save, vars, recordVars, workerVars
  <1>2. QED
    BY <1>1, SameWork

LEMMA EngineRows ==
    ASSUME AreasInv, RowInv, NEW e \in Slots, EngineStep(e)
    PROVE  RowInv'
  <1>1. /\ worker' = worker /\ jobs' = jobs /\ unlisted' = unlisted /\ asked' = asked
        /\ records' = records /\ facts' = facts
    BY DEF EngineStep, recordVars, workerVars
  <1>2. \A n \in DOMAIN disk : n.kind = "pmtiles" => n \in DOMAIN disk'
    BY RunsPublish DEF EngineStep
  <1>3. QED
    BY <1>1, <1>2, SameWork

LEMMA RowStep ==
    ASSUME NoneIsNoWork, AreasInv, AreasInv', AtListed, RowInv, [Next]_vars
    PROVE  RowInv'
  <1>1. CASE User
    <2>1. ASSUME NEW a \in Areas, Delete(a) PROVE RowInv'
      BY <2>1, DeleteRows
    <2>2. QED
      BY <1>1, <2>1, OtherRows DEF User
  <1>2. CASE WorkerStep
    <2>1. ASSUME NEW a \in Areas, ListBasemap(a) PROVE RowInv'
      BY <2>1, BasemapRows
    <2>2. ASSUME NEW a \in Areas, ListFails(a) PROVE RowInv'
      BY <2>2, FailsRows
    <2>3. ASSUME NEW n \in Name, RemoveFile(n) PROVE RowInv'
      BY <2>3, RemoveRows
    <2>4. CASE RemoveFails \/ Removed
      BY <2>4, EndsRows DEF RemoveFails, Removed
    <2>5. QED
      BY <1>2, <2>1, <2>2, <2>3, <2>4, TakeRows, TerrainRows DEF WorkerStep
  <1>3. CASE \E e \in Slots : EngineStep(e)
    BY <1>3, EngineRows
  <1>4. QED
    BY <1>1, <1>2, <1>3, OtherRows, SettleRows, AskRows, RelaunchRows DEF Next, Work

LEMMA RowInit ==
    ASSUME Init
    PROVE  RowInv
  BY DEF Init, RowInv, HalfListed, RemovesItsOwn, AskedInOrder, Row, Answered, On

(* A row that ui_offline_areas.rs draws as whole is whole: what reconcile_all last       *)
(* answered for the area is of the record the row has, and since then the store has only *)
(* grown under it. The worker's inbox is in the order of the frame thread's requests, so *)
(* the last question is of the newest record and after every removal.                    *)
THEOREM RowsAreWhole == NoneIsNoRun /\ NoneIsNoWork => (Spec => []WholeRowIsWhole)
  <1>1. ASSUME NoneIsNoRun, NoneIsNoWork
        PROVE  Spec => []WholeRowIsWhole
    <2>1. Init => AreasInv /\ AtListed /\ RowInv
      BY AreasInit, RowInit
    <2>2. (AreasInv /\ AtListed /\ RowInv) /\ [Next]_vars => (AreasInv /\ AtListed /\ RowInv)'
      BY <1>1, AreasStep, RowStep
    <2>3. AreasInv /\ AtListed /\ RowInv => WholeRowIsWhole
      BY DEF RowInv, Row, WholeRowIsWhole
    <2>4. QED
      BY <2>1, <2>2, <2>3, PTL DEF Spec
  <1>2. QED
    BY <1>1
=============================================================================
