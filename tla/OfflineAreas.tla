----------------------------- MODULE OfflineAreas ----------------------------
(***************************************************************************)
(* The areas a device has made available offline: the frame thread of      *)
(* squallar-egui/src/ui_offline_areas.rs and ui_map.rs with its one        *)
(* download, the maintenance worker of basemap_areas.rs, and the records   *)
(* of ui_config.rs, over the engine and the store of AreaDownload.         *)
(*                                                                         *)
(* A record says what was asked for.  Whether the bytes are there is what  *)
(* the worker finds in the store, each launch again.  The process may die  *)
(* at any step and the next launch may be of a newer archive generation.   *)
(***************************************************************************)
EXTENDS AreaDownload

CONSTANTS MaxStarts, MaxDeletes, MaxLaunches  \* bounds on what the user does

\* The first launch is of the first archive.
ASSUME GenerationAssumption == Generations \subseteq Nat /\ 1 \in Generations

VARIABLES
    records,     \* downloaded_areas
    saved,       \* the records in the key-value store
    active,      \* active_download: the slot of its run, or None
    dropping,    \* the slot of the run the frame thread is joining, or None
    jobs,        \* the worker's inbox
    worker,      \* the job it is on, or None
    facts,       \* what the store last said of an area, or None
    asked,       \* the areas it has been asked about
    generation,  \* the archive generation this build reads
    presses,     \* how often the user started, deleted and launched
    unlisted,    \* auxiliary: areas the store would not list when it last was asked to
    doubled      \* auxiliary: areas two runs were alive on at once

recordVars == <<records, saved>>
workerVars == <<jobs, worker, facts, unlisted>>
vars == <<disk, engines, records, saved, active, dropping, jobs, worker, facts, asked,
          generation, presses, unlisted, doubled>>

\* DownloadedArea, less its AreaSpec. No terrain is expected without a terrain half.
Record == [gen : Generations, terrain : BOOLEAN, expected : [Halves -> Nat], bytes : Nat]

\* AreaStatus.
Fact == [present : Nat, expected : Nat]
IsComplete(f) == f.expected > 0 /\ f.present >= f.expected

Init ==
    /\ DownloadInit
    /\ records = [a \in Areas |-> None]
    /\ saved = records
    /\ active = None
    /\ dropping = None
    /\ jobs = <<>>
    /\ worker = None
    /\ facts = [a \in Areas |-> None]
    /\ asked = {}
    /\ generation = 1
    /\ presses = [starts |-> 0, deletes |-> 0, launches |-> 0]
    /\ unlisted = {}
    /\ doubled = {}

-----------------------------------------------------------------------------
(* The frame thread. While it joins a run it does dropping it does nothing else. *)

Idle == dropping = None
Alive(a) == {e \in Slots : engines[e] # None /\ engines[e].area = a}

\* render_area: a row offers Resume or Update.
Incomplete(a) == facts[a] # None /\ ~IsComplete(facts[a])
Updatable(a) == generation > records[a].gen
RowOffers(a, terrain) ==
    records[a] # None /\ terrain = records[a].terrain /\ (Incomplete(a) \/ Updatable(a))

\* The pick panel offers a start for any box but the one in flight.
PanelOffers(a) == active # None => engines[active].area # a

\* start_area_download: the new run is alive before the assignment drops the old one.
Start(a, terrain) ==
    /\ Idle
    /\ presses.starts < MaxStarts
    /\ RowOffers(a, terrain) \/ PanelOffers(a)
    /\ \E e \in Slots :
        /\ engines[e] = None
        /\ engines' = [engines EXCEPT ![e] = NewRun(a, generation, terrain)]
        /\ active' = e
    /\ dropping' = active
    /\ doubled' = IF Alive(a) = {} THEN doubled ELSE doubled \cup {a}
    /\ presses' = [presses EXCEPT !.starts = @ + 1]
    /\ UNCHANGED <<disk, recordVars, workerVars, asked, generation>>

\* The panel's Cancel: the drop, and nothing else.
Cancel ==
    /\ Idle
    /\ active # None
    /\ active' = None
    /\ dropping' = active
    /\ UNCHANGED <<disk, engines, recordVars, workerVars, asked, generation, presses, doubled>>

\* delete_downloaded_area: the record, the job, and then the run, if it is of this area.
Delete(a) ==
    /\ Idle
    /\ records[a] # None
    /\ presses.deletes < MaxDeletes
    /\ records' = [records EXCEPT ![a] = None]
    /\ asked' = asked \ {a}
    /\ jobs' = Append(jobs, [job |-> "remove", area |-> a])
    /\ IF active # None /\ engines[active].area = a
       THEN active' = None /\ dropping' = active
       ELSE UNCHANGED <<active, dropping>>
    /\ presses' = [presses EXCEPT !.deletes = @ + 1]
    /\ UNCHANGED <<disk, engines, saved, worker, facts, unlisted, generation, doubled>>

\* In the mutant the run's thread is let go of, and not joined.
DroppedUnjoined ==
    /\ dropping # None
    /\ dropping' = None
    /\ UNCHANGED <<disk, engines, recordVars, active, workerVars, asked, generation, presses, doubled>>

\* Runtime::drop has joined the run's thread.
Dropped ==
    /\ dropping # None
    /\ Droppable(dropping)
    /\ engines' = [engines EXCEPT ![dropping] = None]
    /\ dropping' = None
    /\ UNCHANGED <<disk, recordVars, active, workerVars, asked, generation, presses, doubled>>

\* DownloadedArea::from_run.
FromRun(r) ==
    [gen |-> r.gen, terrain |-> r.terrain,
     expected |-> [h \in Halves |-> IF h \in r.planned THEN Len(Cuts[r.gen][h]) ELSE 0],
     bytes |-> r.moved["Basemap"] + r.moved["Terrain"]]

\* In the mutant recheck forgets the fact and not that it was asked for.
SettleUnasked ==
    /\ Idle
    /\ active # None
    /\ engines[active].pc = "ended"
    /\ LET r == engines[active]
       IN  /\ records' = IF r.outcome = "Complete" THEN [records EXCEPT ![r.area] = FromRun(r)]
                         ELSE records
           /\ facts' = [facts EXCEPT ![r.area] = None]
    /\ engines' = [engines EXCEPT ![active] = None]
    /\ active' = None
    /\ UNCHANGED <<disk, saved, dropping, jobs, worker, asked, unlisted, generation, presses, doubled>>

\* settle_offline_download, with recheck at its foot.
Settle ==
    /\ Idle
    /\ active # None
    /\ engines[active].pc = "ended"
    /\ LET r == engines[active]
       IN  /\ records' = IF r.outcome = "Complete" THEN [records EXCEPT ![r.area] = FromRun(r)]
                         ELSE records
           /\ asked' = asked \ {r.area}
           /\ facts' = [facts EXCEPT ![r.area] = None]
    /\ engines' = [engines EXCEPT ![active] = None]
    /\ active' = None
    /\ UNCHANGED <<disk, saved, dropping, jobs, worker, unlisted, generation, presses, doubled>>

\* reconcile_unknown, on each frame the screen is drawn.
Unknown == {a \in Areas : records[a] # None} \ asked
AskUnknown ==
    /\ Idle
    /\ Unknown # {}
    /\ asked' = asked \cup Unknown
    /\ jobs' = Append(jobs, [job |-> "reconcile", todo |-> [a \in Unknown |-> records[a]]])
    /\ unlisted' = unlisted \ Unknown
    /\ UNCHANGED <<disk, engines, recordVars, active, dropping, worker, facts, generation,
                   presses, doubled>>

\* autosave_config, and the saves on suspension and exit.
Save ==
    /\ saved # records
    /\ saved' = records
    /\ UNCHANGED <<disk, engines, records, active, dropping, workerVars, asked, generation,
                   presses, doubled>>

-----------------------------------------------------------------------------
(* AreaMaintenance's task. *)

Took == UNCHANGED <<recordVars, active, dropping, asked, generation, presses, doubled>>

TakeJob ==
    /\ worker = None
    /\ jobs # <<>>
    /\ jobs' = Tail(jobs)
    /\ worker' = IF Head(jobs).job = "remove"
                 THEN [job |-> "remove", area |-> Head(jobs).area,
                       names |-> {n \in DOMAIN disk : n.area = Head(jobs).area}]
                 ELSE [job |-> "reconcile", todo |-> Head(jobs).todo, at |-> None, present |-> 0]
    /\ UNCHANGED <<disk, engines, facts, unlisted>>
    /\ Took

On(job) == worker # None /\ worker.job = job

\* DownloadedArea::against.
Present(a, h, rec) == Cardinality({s \in Listed(a, h) : s <= rec.expected[h]})

\* Done with a: on to the next area of the job.
Done(a) ==
    LET rest == DOMAIN worker.todo \ {a}
    IN  IF rest = {} THEN None
        ELSE [worker EXCEPT !.todo = [b \in rest |-> worker.todo[b]], !.at = None, !.present = 0]

\* In the mutant the terrain's segments are counted as there and not as asked for.
AnswerOfHalf(a, rec, present) ==
    /\ facts' = [facts EXCEPT ![a] = [present |-> present, expected |-> rec.expected["Basemap"]]]
    /\ unlisted' = unlisted \ {a}
    /\ worker' = Done(a)

\* reconcile_all's sum.
Answer(a, rec, present) ==
    /\ facts' = [facts EXCEPT ![a] = [present |-> present,
                                      expected |-> rec.expected["Basemap"] + rec.expected["Terrain"]]]
    /\ unlisted' = unlisted \ {a}
    /\ worker' = Done(a)

\* listed_halves: the base map's listing...
ListBasemap(a) ==
    /\ On("reconcile") /\ worker.at = None /\ a \in DOMAIN worker.todo
    /\ LET rec == worker.todo[a]
           present == Present(a, "Basemap", rec)
       IN  IF rec.terrain
           THEN /\ worker' = [worker EXCEPT !.at = a, !.present = present]
                /\ UNCHANGED <<facts, unlisted>>
           ELSE Answer(a, rec, present)
    /\ UNCHANGED <<disk, engines, jobs>>
    /\ Took

\* ...and the terrain's, of an area that has one.
ListTerrain ==
    /\ On("reconcile") /\ worker.at # None
    /\ LET a == worker.at
       IN  Answer(a, worker.todo[a], worker.present + Present(a, "Terrain", worker.todo[a]))
    /\ UNCHANGED <<disk, engines, jobs>>
    /\ Took

\* The area is left unknown.
ListFails(a) ==
    /\ On("reconcile") /\ a \in DOMAIN worker.todo /\ worker.at \in {None, a}
    /\ worker' = Done(a)
    /\ unlisted' = unlisted \cup {a}
    /\ UNCHANGED <<disk, engines, jobs, facts>>
    /\ Took

RemovalEnds ==
    /\ worker' = None
    /\ facts' = [facts EXCEPT ![worker.area] = None]

\* remove_area: what read_dir answered, file by file.
RemoveFile(n) ==
    /\ On("remove") /\ n \in worker.names
    /\ IF n \in DOMAIN disk
       THEN /\ disk' = Without(disk, n)
            /\ worker' = [worker EXCEPT !.names = @ \ {n}]
            /\ engines' = [e \in Slots |-> IF e \in Alive(n.area)
                                           THEN [engines[e] EXCEPT !.swept = TRUE] ELSE engines[e]]
            /\ UNCHANGED facts
       ELSE \* a run has renamed it: the error ends the sweep
            /\ RemovalEnds
            /\ UNCHANGED <<disk, engines>>
    /\ UNCHANGED <<jobs, unlisted>>
    /\ Took

\* A file will not be removed: the sweep ends, and what is left stays.
RemoveFails ==
    /\ On("remove") /\ worker.names # {}
    /\ RemovalEnds
    /\ UNCHANGED <<disk, engines, jobs, unlisted>>
    /\ Took

Removed ==
    /\ On("remove") /\ worker.names = {}
    /\ RemovalEnds
    /\ UNCHANGED <<disk, engines, jobs, unlisted>>
    /\ Took

WorkerStep ==
    \/ TakeJob
    \/ \E a \in Areas : ListBasemap(a) \/ ListFails(a)
    \/ ListTerrain
    \/ \E n \in Name : RemoveFile(n)
    \/ RemoveFails
    \/ Removed

-----------------------------------------------------------------------------
(* The process. *)

\* DownloadedAreaConfig::restore refuses a cut of no segments.
Restored(rec) ==
    IF rec = None THEN None
    ELSE IF rec.expected["Basemap"] = 0 THEN None
    ELSE [rec EXCEPT !.terrain = @ /\ rec.expected["Terrain"] > 0]

\* The process is gone, and another is launched, of this archive generation or the next.
Relaunch ==
    /\ presses.launches < MaxLaunches
    /\ \E g \in {generation, generation + 1} \cap Generations : generation' = g
    /\ disk' = [n \in DOMAIN disk |->
                  [disk[n] EXCEPT !.torn = @ \/ disk[n].writing # {}, !.writing = {}]]
    /\ engines' = [e \in Slots |-> None]
    /\ records' = [a \in Areas |-> Restored(saved[a])]
    /\ active' = None
    /\ dropping' = None
    /\ jobs' = <<>>
    /\ worker' = None
    /\ facts' = [a \in Areas |-> None]
    /\ asked' = {}
    /\ unlisted' = {}
    /\ presses' = [presses EXCEPT !.launches = @ + 1]
    /\ UNCHANGED <<saved, doubled>>

EngineStep(e) ==
    /\ RunStep(e)
    /\ UNCHANGED <<recordVars, active, dropping, workerVars, asked, generation, presses, doubled>>

User == \/ \E a \in Areas, terrain \in BOOLEAN : Start(a, terrain)
        \/ Cancel
        \/ \E a \in Areas : Delete(a)

\* Less than every thread's being scheduled: while a run, the worker or a frame has work,
\* one of them does some. A run and a job are finite, so none of them can be left out.
Work == Dropped \/ Settle \/ AskUnknown \/ WorkerStep \/ \E e \in Slots : EngineStep(e)
Next == User \/ Save \/ Relaunch \/ Work

Spec == Init /\ [][Next]_vars

Fairness == WF_vars(Work)
FairSpec == Spec /\ Fairness

-----------------------------------------------------------------------------
\* Types. An engine has a run exactly while the frame thread holds or joins it, and it
\* never joins the run it shows.
TypeOK ==
    /\ DOMAIN disk \subseteq Name /\ \A n \in DOMAIN disk : disk[n] \in File
    /\ \A e \in Slots : engines[e] = None \/ engines[e] \in Run
    /\ \A a \in Areas : records[a] \in Record \cup {None} /\ facts[a] \in Fact \cup {None}
    /\ active \in Slots \cup {None} /\ dropping \in (Slots \ {active}) \cup {None}
    /\ \A e \in Slots : engines[e] # None <=> e \in {active, dropping}
    /\ asked \subseteq Areas

\* A crash at any instant leaves a listed segment that is whole, or none: what is under
\* a published name was filled to its end before the rename. Two runs on one area share
\* their .part files, and are left out.
PublishedIsWhole ==
    \A n \in DOMAIN disk : n.kind = "pmtiles" /\ n.area \notin doubled => Whole(disk[n])

\* A run that says Complete has every segment of its cut in the store, of both archives,
\* unless a removal ran under it.
CompleteIsListed ==
    \A e \in Slots :
        LET r == engines[e]
        IN  r # None /\ r.outcome = "Complete" /\ ~r.swept =>
                \A h \in r.planned : \A s \in DOMAIN Cuts[r.gen][h] : s \in Listed(r.area, h)

\* The run transfers what it quoted: each distinct span once, whatever segments share
\* and whatever fails, and all of them when it is Complete.
TransfersTheQuote ==
    \A e \in Slots :
        LET r == engines[e]
            moved == r.moved["Basemap"] + r.moved["Terrain"]
        IN  r # None => moved <= r.due /\ (r.outcome = "Complete" => moved = r.due)

\* The store holds every segment the record asked for.
AllHeld(a) ==
    \A h \in Halves : \A s \in 1..records[a].expected[h] : s \in Listed(a, h)

\* The worker is asked of a, or has it still to list.
Asking(a) ==
    \/ On("reconcile") /\ a \in DOMAIN worker.todo
    \/ \E i \in DOMAIN jobs : jobs[i].job = "reconcile" /\ a \in DOMAIN jobs[i].todo
Answered(a) == a \in asked \ unlisted /\ ~Asking(a)

\* An area that was answered for is not drawn as whole when it is not, whatever was
\* cancelled, deleted, downloaded again or lost in a crash: the last answer is of the
\* record the row draws, and no removal is still to come under it.
WholeRowIsWhole ==
    \A a \in Areas :
        records[a] # None /\ facts[a] # None /\ Answered(a) /\ IsComplete(facts[a]) => AllHeld(a)

\* No row is left at "Checking storage...": an area is answered for, unless the store
\* would not list it.
RowsAreAnswered ==
    \A a \in Areas : records[a] # None ~> (records[a] = None \/ facts[a] # None \/ a \in unlisted)
=============================================================================
