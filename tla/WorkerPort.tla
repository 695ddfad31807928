----------------------------- MODULE WorkerPort -----------------------------
(***************************************************************************)
(* The browser's transport behind the funnel: the page's side of the       *)
(* rasterization worker (squallar-web/src/worker_port.rs), the worker and  *)
(* the tile lane nested in it (worker.rs), and the loans of linear memory  *)
(* that name a lent request or reply (shared_loan.rs).                     *)
(*                                                                         *)
(* The page is one thread.  Its event handlers run to completion, so a     *)
(* handler that makes several calls keeps the page busy (`turn`, the       *)
(* funnel's own `sending` and `todo`, an inline run in `here`) until the   *)
(* last of them.  The worker, the lane, timers and the clock interleave.   *)
(***************************************************************************)
EXTENDS JobFunnel, FiniteSets

CONSTANTS
    TileJobs,      \* the tile pump's batches: they go to the lane or not at all
    CanLend,       \* cross-origin isolated: messages carry views, not copies
    GenBound       \* model bound: how many workers the page ever starts

ASSUME PortAssumption ==
    /\ TileJobs \subseteq Jobs
    /\ CanLend \in BOOLEAN
    /\ GenBound \in Nat
    /\ ~Native

VARIABLES
    generation, \* GENERATION
    rung,       \* BACKOFF
    scheduled,  \* RESPAWN_SCHEDULED
    timers,     \* the windows whose flush timer has not fired
    turn,       \* what is left of `lose`, or "free"
    lanePort,   \* the generation whose port the installed lane posts to
    ports,      \* the generations whose lane port the page listens to
    lent,       \* the page's LoanBook: the sends whose loan is outstanding
    proc,       \* each process of the current worker: "none", "boot", "ready", "failed"
    inbox,      \* page to process
    outbox,     \* process to page, by the process's generation
    busy,       \* the job a process is running, or NoId
    owed,       \* each process's LoanBook
    errors      \* the generations with an `onerror` event on its way to the page

pageVars == <<generation, rung, scheduled, timers, turn, lanePort, ports, lent>>
procVars == <<proc, inbox, outbox, busy, owed, errors>>
vars == <<funnelVars, pageVars, procVars>>

NoId == 0
Processes == {"worker", "lane"}
Generations == 1..GenBound

Msg(kind, id) == [kind |-> kind, id |-> id]
Hello(same, withLane) == [kind |-> "hello", same |-> same, withLane |-> withLane]
Done(id, outcome) == [kind |-> "done", id |-> id, outcome |-> outcome]

\* What a message lends: nothing on the copying wire.
Loans(ids) == IF CanLend THEN ids ELSE {}

\* No handler is running, nor an inline job.
PageFree == turn = "free" /\ Idle /\ here = {}

PortInit ==
    /\ FunnelInit
    /\ generation = 0
    /\ rung = 0
    /\ scheduled = FALSE
    /\ timers = {}
    /\ turn = "free"
    /\ lanePort = 0
    /\ ports = {}
    /\ lent = {}
    /\ proc = [p \in Processes |-> "none"]
    /\ inbox = [p \in Processes |-> <<>>]
    /\ outbox = [p \in Processes |-> [g \in Generations |-> <<>>]]
    /\ busy = [p \in Processes |-> NoId]
    /\ owed = [p \in Processes |-> {}]
    /\ errors = {}

-----------------------------------------------------------------------------
\* What the page's callers do.
PageCalls ==
    /\ PageFree
    /\ \E j \in Jobs : \/ j \notin TileJobs /\ Offload(j)
                       \/ j \in TileJobs /\ OffloadToLane(j)
                       \/ Cancel(j)
    /\ UNCHANGED <<pageVars, procVars>>

\* hand_waiting_jobs_to_the_sink's loop: an inline run ends before the next turn.
PageHandsOver ==
    /\ here = {}
    /\ HandOver
    /\ UNCHANGED <<pageVars, procVars>>

\* run_here in the browser: at once, on the page's own thread.
PageRunsHere ==
    /\ \E j \in here, o \in Outcomes : FinishHere(j, o)
    /\ UNCHANGED <<pageVars, procVars>>

\* The process a sink's port reaches.  A post to the lane of a worker that is gone
\* succeeds and reaches nobody.
ReachedBy(sink) ==
    IF sink = worker THEN {"worker"}
    ELSE IF proc["lane"] # "none" /\ lanePort = generation THEN {"lane"} ELSE {}

\* Port::send and LanePort::send: lend the request, post it.
PostJob ==
    /\ \E s \in sending :
        /\ lent' = lent \cup Loans({s.id})
        /\ inbox' = [p \in Processes |->
                        IF p \in ReachedBy(s.sink)
                        THEN Append(inbox[p], Msg("job", s.id)) ELSE inbox[p]]
        /\ SendTaken(s)
    /\ UNCHANGED <<generation, rung, scheduled, timers, turn, lanePort, ports,
                   proc, outbox, busy, owed, errors>>

\* The post throws: the loan is discharged and the request handed back.
PostRefused ==
    /\ \E s \in sending : SendRefused(s)
    /\ UNCHANGED <<generation, rung, scheduled, timers, turn, lanePort, ports, lent, procVars>>

-----------------------------------------------------------------------------
\* worker.terminate(): the worker and the lane in its memory are gone.  The browser
\* empties the worker's own message queue; the lane's MessagePort keeps what it holds.
Terminate ==
    /\ proc' = [p \in Processes |-> "none"]
    /\ inbox' = [p \in Processes |-> <<>>]
    /\ outbox' = [outbox EXCEPT !["worker"] = [g \in Generations |-> <<>>]]
    /\ busy' = [p \in Processes |-> NoId]
    /\ owed' = [p \in Processes |-> {}]

\* Every window gets a flush timer of its own; in the mutant one timer at a time is enough.
OneTimer == IF timers = {} THEN {armed + 1} ELSE timers
TimersWithNext == timers \cup {armed + 1}

\* spawn: arm the wait and its flush timer, then construct the worker, which may fail.
Spawn ==
    /\ generation < GenBound
    /\ generation' = generation + 1
    /\ ExpectSink
    /\ timers' = TimersWithNext
    /\ \/ /\ proc' = [proc EXCEPT !["worker"] = "boot"]
          /\ turn' = "free"
       \/ /\ turn' = "abandonWorker"
          /\ UNCHANGED proc
    /\ UNCHANGED <<rung, lanePort, ports, lent, inbox, outbox, busy, owed, errors>>

Attach ==
    /\ PageFree
    /\ generation = 0
    /\ Spawn
    /\ UNCHANGED scheduled

\* schedule_respawn's timer.
Respawn ==
    /\ PageFree
    /\ scheduled
    /\ scheduled' = FALSE
    /\ Spawn

\* lose, call by call: abandon_worker, abandon_lane, release_all, schedule_respawn.  The
\* mutant forgets the first.
LoseWorkerForgets ==
    /\ turn = "abandonWorker"
    /\ turn' = "abandonLane"
    /\ UNCHANGED <<funnelVars, generation, rung, scheduled, timers, lanePort, ports, lent,
                   procVars>>

LoseWorker ==
    /\ turn = "abandonWorker"
    /\ turn' = "abandonLane"
    /\ AbandonWorker \/ (worker = NoSink /\ UNCHANGED funnelVars)
    /\ UNCHANGED <<generation, rung, scheduled, timers, lanePort, ports, lent, procVars>>

LoseLane ==
    /\ turn = "abandonLane"
    /\ turn' = "sweep"
    /\ AbandonLane \/ (lane = NoSink /\ UNCHANGED funnelVars)
    /\ UNCHANGED <<generation, rung, scheduled, timers, lanePort, ports, lent, procVars>>

\* A respawn on its timer already has its rung; the mutant climbs for every loss.
NextRungAlways == rung + 1
NextRung == IF scheduled THEN rung ELSE rung + 1

Sweep ==
    /\ turn = "sweep"
    /\ turn' = "free"
    /\ lent' = {}
    /\ scheduled' = TRUE
    /\ rung' = NextRung
    /\ UNCHANGED <<funnelVars, generation, timers, lanePort, ports, procVars>>

\* The onerror closure of generation g: terminate that worker, then lose, which does
\* nothing for a worker that was replaced.
OnError(g) ==
    /\ PageFree
    /\ g \in errors
    /\ errors' = errors \ {g}
    /\ \/ g = generation /\ turn' = "abandonWorker" /\ Terminate
       \/ g # generation /\ UNCHANGED <<turn, proc, inbox, outbox, busy, owed>>
    /\ UNCHANGED <<funnelVars, generation, rung, scheduled, timers, lanePort, ports, lent>>

\* The timer spawn set for window n: flush_expired_sink_wait, a no-op while a later
\* window is armed.
FlushTimer(n) ==
    /\ PageFree
    /\ n \in timers
    /\ n <= lapsed
    /\ timers' = timers \ {n}
    /\ FlushExpired \/ (~Expired /\ UNCHANGED funnelVars)
    /\ UNCHANGED <<generation, rung, scheduled, turn, lanePort, ports, lent, procVars>>

Clock == DeadlinePasses /\ UNCHANGED <<pageVars, procVars>>

-----------------------------------------------------------------------------
\* The next message of this process is of this kind.
Arrived(p, g, kind) == outbox[p][g] # <<>> /\ Head(outbox[p][g]).kind = kind

\* handle_message and handle_lane_message take the next message of this process.
Takes(p, g) ==
    /\ PageFree
    /\ outbox[p][g] # <<>>
    /\ p = "lane" => g \in ports
    /\ outbox' = [outbox EXCEPT ![p][g] = Tail(@)]

\* HELLO of this build: reset the ladder, install the worker, listen to its lane.
OnHello(g) ==
    /\ g = generation
    /\ Arrived("worker", g, "hello")
    /\ Head(outbox["worker"][g]).same
    /\ Takes("worker", g)
    /\ rung' = 0
    /\ SetWorker
    /\ ports' = IF Head(outbox["worker"][g]).withLane THEN ports \cup {g} ELSE ports
    /\ UNCHANGED <<generation, scheduled, timers, turn, lanePort, lent, proc, inbox, busy,
                   owed, errors>>

\* HELLO of another build, or FATAL.
OnUseless(g) ==
    /\ PageFree
    /\ g = generation
    /\ outbox["worker"][g] # <<>>
    /\ LET m == Head(outbox["worker"][g])
       IN  m.kind = "fatal" \/ (m.kind = "hello" /\ ~m.same)
    /\ Terminate
    /\ turn' = "abandonWorker"
    /\ UNCHANGED <<funnelVars, generation, rung, scheduled, timers, lanePort, ports, lent,
                   errors>>

\* LANE_LOST and the lane's own FATAL fail what the lane owes.  The loans stay: an error
\* does not stop the lane from reading.  The mutant sweeps them.
LaneLoanSweep == lent' = {}
LaneLoanKept == UNCHANGED lent

OnLaneLost(p, g) ==
    /\ g = generation
    /\ Arrived(p, g, IF p = "worker" THEN "laneLost" ELSE "fatal")
    /\ Takes(p, g)
    /\ AbandonLane \/ (lane = NoSink /\ UNCHANGED funnelVars)
    /\ LaneLoanKept
    /\ UNCHANGED <<generation, rung, scheduled, timers, turn, lanePort, ports, proc, inbox,
                   busy, owed, errors>>

OnLaneHello(g) ==
    /\ g = generation
    /\ Arrived("lane", g, "hello")
    /\ Takes("lane", g)
    /\ SetLane
    /\ lanePort' = g
    /\ UNCHANGED <<generation, rung, scheduled, timers, turn, ports, lent, proc, inbox, busy,
                   owed, errors>>

\* The reply named the page copies, then releases: for any id, a withdrawn job's too.
\* The mutant releases only what is still pending.
ReleasesPending(p, m) ==
    \E e \in pending : e.id = m.id /\ m.outcome = "value" /\ CanLend /\ proc[p] # "none"
ReleasesReply(p, m) == m.outcome = "value" /\ CanLend /\ proc[p] # "none"

\* deliver and deliver_from_lane: copy, release the loan, deliver.
OnDone(p, g) ==
    /\ g = generation
    /\ Arrived(p, g, "done")
    /\ Takes(p, g)
    /\ LET m == Head(outbox[p][g])
       IN  /\ \/ \E e \in pending : e.id = m.id /\ Reply(e, m.outcome)
              \/ (\A e \in pending : e.id # m.id) /\ UNCHANGED funnelVars
           /\ inbox' = IF ReleasesReply(p, m)
                       THEN [inbox EXCEPT ![p] = Append(@, Msg("release", m.id))]
                       ELSE inbox
    /\ UNCHANGED <<pageVars, proc, busy, owed, errors>>

OnRelease(p, g) ==
    /\ g = generation
    /\ Arrived(p, g, "release")
    /\ Takes(p, g)
    /\ lent' = lent \ {Head(outbox[p][g]).id}
    /\ UNCHANGED <<funnelVars, generation, rung, scheduled, timers, turn, lanePort, ports,
                   proc, inbox, busy, owed, errors>>

\* A message of a replaced generation is dropped.
OnStale(p, g) ==
    /\ g # generation
    /\ Takes(p, g)
    /\ UNCHANGED <<funnelVars, pageVars, proc, inbox, busy, owed, errors>>

OnMessage(p, g) ==
    \/ p = "worker" /\ (OnHello(g) \/ OnUseless(g))
    \/ p = "lane" /\ OnLaneHello(g)
    \/ OnLaneLost(p, g) \/ OnDone(p, g) \/ OnRelease(p, g) \/ OnStale(p, g)

-----------------------------------------------------------------------------
Says(p, m) == outbox' = [outbox EXCEPT ![p][generation] = Append(@, m)]

\* squallar_worker_main: start the lane, which may fail, and say hello.  The service
\* worker may have served another build.
WorkerBoots ==
    /\ proc["worker"] = "boot"
    /\ \E same, withLane \in BOOLEAN :
        /\ Says("worker", Hello(same, withLane))
        /\ proc' = [worker |-> "ready", lane |-> IF withLane THEN "boot" ELSE "none"]
    /\ UNCHANGED <<funnelVars, pageVars, inbox, busy, owed, errors>>

\* squallar_tile_lane_main.
LaneBoots ==
    /\ proc["lane"] = "boot"
    /\ Says("lane", [kind |-> "hello"])
    /\ proc' = [proc EXCEPT !["lane"] = "ready"]
    /\ UNCHANGED <<funnelVars, pageVars, inbox, busy, owed, errors>>

FailsToBoot(p) ==
    /\ proc[p] = "boot"
    /\ Says(p, [kind |-> "fatal"])
    /\ proc' = [proc EXCEPT ![p] = "failed"]
    /\ UNCHANGED <<funnelVars, pageVars, inbox, busy, owed, errors>>

\* handle_job copies the request out of the page's memory and says so, then runs it.
StartsJob(p) ==
    /\ proc[p] = "ready"
    /\ busy[p] = NoId
    /\ inbox[p] # <<>>
    /\ Head(inbox[p]).kind = "job"
    /\ busy' = [busy EXCEPT ![p] = Head(inbox[p]).id]
    /\ IF CanLend THEN Says(p, Msg("release", Head(inbox[p]).id)) ELSE UNCHANGED outbox
    /\ inbox' = [inbox EXCEPT ![p] = Tail(@)]
    /\ UNCHANGED <<funnelVars, pageVars, proc, owed, errors>>

\* The page has copied a reply: free it.
FreesReply(p) ==
    /\ proc[p] = "ready"
    /\ busy[p] = NoId
    /\ inbox[p] # <<>>
    /\ Head(inbox[p]).kind = "release"
    /\ owed' = [owed EXCEPT ![p] = @ \ {Head(inbox[p]).id}]
    /\ inbox' = [inbox EXCEPT ![p] = Tail(@)]
    /\ UNCHANGED <<funnelVars, pageVars, proc, outbox, busy, errors>>

\* post_result lends the reply, or posts explicit nulls for a job without one.
AnswersJob(p) ==
    /\ busy[p] # NoId
    /\ \E o \in Outcomes :
        /\ Says(p, Done(busy[p], o))
        /\ owed' = [owed EXCEPT ![p] = IF o = "value" THEN @ \cup Loans({busy[p]}) ELSE @]
    /\ busy' = [busy EXCEPT ![p] = NoId]
    /\ UNCHANGED <<funnelVars, pageVars, proc, inbox, errors>>

\* An uncaught error ends the running job without an answer: an error event for the
\* page, or LANE_LOST from the lane's parent.
WorkerThrows ==
    /\ proc["worker"] # "none"
    /\ busy' = [busy EXCEPT !["worker"] = NoId]
    /\ errors' = errors \cup {generation}
    /\ UNCHANGED <<funnelVars, pageVars, proc, inbox, outbox, owed>>

LaneThrows ==
    /\ busy["lane"] # NoId
    /\ busy' = [busy EXCEPT !["lane"] = NoId]
    /\ Says("worker", [kind |-> "laneLost"])
    /\ UNCHANGED <<funnelVars, pageVars, proc, inbox, owed, errors>>

-----------------------------------------------------------------------------
PageStep ==
    \/ PageHandsOver \/ PageRunsHere \/ PostJob \/ PostRefused
    \/ LoseWorker \/ LoseLane \/ Sweep

PortNext ==
    \/ PageCalls \/ PageStep
    \/ Attach \/ Respawn \/ Clock
    \/ \E g \in Generations : OnError(g)
    \/ \E n \in timers : FlushTimer(n)
    \/ \E p \in Processes, g \in Generations : OnMessage(p, g)
    \/ WorkerBoots \/ LaneBoots \/ WorkerThrows \/ LaneThrows
    \/ \E p \in Processes : FailsToBoot(p) \/ StartsJob(p) \/ FreesReply(p) \/ AnswersJob(p)

PortSpec == PortInit /\ [][PortNext]_vars

\* The page's event loop serves every queue and timer it has; a process that is up goes
\* on with its messages and ends a job it runs.  Nothing makes a worker come up.
PortFairness ==
    /\ WF_vars(PageStep)
    /\ WF_vars(Clock)
    /\ \A n \in 1..WindowBound : WF_vars(FlushTimer(n))
    /\ \A g \in Generations : WF_vars(OnError(g))
    /\ \A p \in Processes :
        /\ \A g \in Generations : WF_vars(OnMessage(p, g))
        /\ WF_vars(StartsJob(p) \/ FreesReply(p))
    /\ WF_vars(AnswersJob("worker") \/ (busy["worker"] # NoId /\ WorkerThrows))
    /\ WF_vars(AnswersJob("lane") \/ LaneThrows)

FairPortSpec == PortSpec /\ PortFairness

-----------------------------------------------------------------------------
MessagesOf(p, g, kind) == {i \in 1..Len(outbox[p][g]) : outbox[p][g][i].kind = kind}

(* Types of the page's and the processes' state.  The ladder is climbed at most once   *)
(* per worker, so "a FATAL and an onerror from the same dying worker schedule one      *)
(* attempt"; a flush timer exists only for a window that was armed.                    *)
PortTypeOK ==
    /\ TypeOK
    /\ generation \in 0..GenBound
    /\ rung \in 0..generation
    /\ scheduled \in BOOLEAN
    /\ timers \subseteq 1..armed
    /\ turn \in {"free", "abandonWorker", "abandonLane", "sweep"}
    /\ lanePort \in 0..generation
    /\ ports \subseteq 1..generation
    /\ \A l \in lent : l < nextId
    /\ \A p \in Processes :
        /\ proc[p] \in {"none", "boot", "ready", "failed"}
        /\ busy[p] \in 0..(nextId - 1)
        /\ proc[p] = "none" => inbox[p] = <<>> /\ busy[p] = NoId /\ owed[p] = {}
    /\ errors \subseteq 1..generation

(* Between two handlers there is a worker process or a respawn on its timer, and never *)
(* both: a page is not left without a worker for good, and does not start a second one *)
(* beside a live one ("A worker that has been replaced must not speak for the page").  *)
(* And every held job waits for a window whose timer has not fired, whatever older     *)
(* windows and their timers did: flush_expired_sink_wait's "whoever armed the wait".   *)
SomethingWillCome ==
    /\ turn = "free" /\ generation > 0 => (scheduled <=> proc["worker"] = "none")
    /\ waiting # <<>> => until \in timers

JobsTo(p) == {inbox[p][i].id : i \in {k \in 1..Len(inbox[p]) : inbox[p][k].kind = "job"}}
ReleasesFrom(p, g) == {outbox[p][g][i].id : i \in MessagesOf(p, g, "release")}

(* The page's book lends what is read, and no more.  "after this call the caller has no *)
(* handle to free the region early": while a live process has a request to copy, or its *)
(* RELEASE is on the way, the book holds the loan, so no process copies freed memory    *)
(* and no RELEASE finds its loan gone.  And nothing leaks: the loan of every render is  *)
(* with a worker that has yet to copy it or on its way back.  (A batch posted to the    *)
(* lane of a worker that is gone keeps its loan until the next worker is lost.)         *)
LentWhileRead ==
    turn = "free" =>
        /\ \A p \in Processes :
            proc[p] # "none" =>
                /\ Loans(JobsTo(p)) \subseteq lent
                /\ ReleasesFrom(p, generation) \subseteq lent
                /\ JobsTo(p) \cap ReleasesFrom(p, generation) = {}
        /\ lent \ {handle[t] : t \in TileJobs}
              \subseteq JobsTo("worker") \cup UNION {ReleasesFrom("worker", g) : g \in Generations}

(* The worker's book drains: a reply it lent is freed in the end, even one whose job    *)
(* was withdrawn, unless the worker itself goes.                                       *)
RepliesAreFreed ==
    \A p \in Processes : \A i \in 1..(2 * Cardinality(Jobs)) :
        i \in owed[p] ~> i \notin owed[p]

(* Every render or decode the page takes on settles, whatever the worker does: comes up *)
(* or not, is of another build, fails, throws in the middle of a job, or refuses posts. *)
RendersSettle ==
    \A j \in Jobs \ TileJobs : fate[j] = "owed" ~> fate[j] \in Settled

=============================================================================
