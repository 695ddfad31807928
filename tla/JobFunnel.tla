------------------------------ MODULE JobFunnel ------------------------------
(***************************************************************************)
(* The offload funnel, squallar-worker/src/offload.rs: where a described   *)
(* job goes (an installed worker, the tile lane, a wait for a worker that  *)
(* is expected, or a run without any transport) and who then owes its      *)
(* `deliver` closure.                                                      *)
(*                                                                         *)
(* PENDING, the registry of jobs handed to a sink, is process-wide: a      *)
(* reply, a cancel, a fallback thread and, natively, another dispatching   *)
(* thread may act while a `send` is under way.  WORKER, LANE and SINK_WAIT *)
(* are thread-locals.  Only the page's one thread ever replaces them; each *)
(* native thread keeps a handle to the one pool, so one WORKER stands for  *)
(* all of theirs.  What a sink does with a job is left open here; JobPool  *)
(* and WorkerPort close it.                                                *)
(***************************************************************************)
EXTENDS Naturals, Sequences

CONSTANTS
    Jobs,          \* the described jobs callers will ever hand over
    WaitLimit,     \* SINK_WAIT_LIMIT, 32 in the source
    Native,        \* not the browser: a thread starts with a sink, several threads
                   \* dispatch, and a fallback run is a thread that a panic may end
    SinkBound,     \* model bound: the last sink id ever installed
    WindowBound    \* model bound: how many windows are ever armed

ASSUME FunnelAssumption ==
    /\ WaitLimit \in Nat \ {0}
    /\ Native \in BOOLEAN
    /\ SinkBound \in Nat
    /\ WindowBound \in Nat

VARIABLES
    pending,   \* PENDING: the entries [id, job, sink] some sink owes an answer for
    worker,    \* WORKER: the installed sink's id, or NoSink
    lane,      \* LANE: the installed tile lane's id, or NoSink
    nextId,    \* NEXT_ID
    nextSink,  \* NEXT_SINK
    until,     \* SINK_WAIT.until: the number of the armed window, or NoWait
    armed,     \* how many windows `expect_sink` has armed: deadlines rise with it
    lapsed,    \* how many of those deadlines the clock has passed
    waiting,   \* SINK_WAIT.jobs, oldest first
    todo,      \* held jobs `hand_waiting_jobs_to_the_sink` has yet to dispatch
    sending,   \* the entries whose `JobSink::send` has not returned
    here,      \* jobs `run_here` is running without a transport
    fate,      \* what became of each job
    handle     \* the id `offload_job` answered for each job, 0 before

wait == <<until, armed, lapsed, waiting>>
sinks == <<worker, lane, nextSink>>
funnelVars == <<pending, worker, lane, nextId, nextSink, until, armed, lapsed,
                waiting, todo, sending, here, fate, handle>>

NoSink == 0
NoWait == 0
Outcomes == {"value", "nothing"}
Fates == {"new", "owed", "value", "nothing", "returned", "dropped"}
Entry == [id : Nat, job : Jobs, sink : Nat]

\* The page's thread is between two calls into the funnel; some thread is.
Idle == sending = {} /\ todo = <<>>
SomeThreadIdle == Native \/ Idle

InQueue(j, q) == \E i \in 1..Len(q) : q[i] = j
Queued(q) == {j \in Jobs : InQueue(j, q)}

\* take_jobs_of, and its mutant that takes another installation's jobs too.
JobsOfAnyone(sink) == pending
JobsOf(sink) == {e \in pending : e.sink = sink}

\* The armed window's deadline has passed; in the mutant it must be exceeded.
ExpiredLate == until # NoWait /\ until < lapsed
Expired == until # NoWait /\ until <= lapsed

\* One job more and the wait holds too many; in the mutant the bound is off by one.
FullLate == Len(waiting) > WaitLimit
Full == Len(waiting) >= WaitLimit

\* The refused entry is still in the registry.
StillOwed(s) == s \in pending

\* Run the `deliver` of every job in js with this outcome.
Delivered(js, outcome) == [j \in Jobs |-> IF j \in js THEN outcome ELSE fate[j]]

-----------------------------------------------------------------------------
\* A native thread's WORKER starts as the pool's handle.  `installed(None)`, the
\* browser's start, burns a sink id without installing anything.
FunnelInit ==
    /\ pending = {}
    /\ worker = IF Native THEN 1 ELSE NoSink
    /\ lane = NoSink
    /\ nextId = 1
    /\ nextSink = 2
    /\ until = NoWait
    /\ armed = 0
    /\ lapsed = 0
    /\ waiting = <<>>
    /\ todo = <<>>
    /\ sending = {}
    /\ here = {}
    /\ fate = [j \in Jobs |-> "new"]
    /\ handle = [j \in Jobs |-> 0]

-----------------------------------------------------------------------------
\* The registry entry goes in BEFORE the handover: a transport on another thread
\* may answer before `send` returns.
Register(j, sink) ==
    LET e == [id |-> nextId, job |-> j, sink |-> sink]
    IN  /\ pending' = pending \cup {e}
        /\ sending' = sending \cup {e}

\* wait_for_sink, run_here included: nothing is expected; the wait has lapsed, and
\* the held jobs run here before this one; or the job is held, and one too many
\* fails the oldest.
WaitForSink(j) ==
    \/ /\ until = NoWait
       /\ here' = here \cup {j}
       /\ fate' = [fate EXCEPT ![j] = "owed"]
       /\ UNCHANGED <<until, waiting>>
    \/ /\ Expired
       /\ until' = NoWait
       /\ waiting' = <<>>
       /\ here' = here \cup Queued(waiting) \cup {j}
       /\ fate' = [fate EXCEPT ![j] = "owed"]
    \/ /\ until # NoWait
       /\ ~Expired
       /\ ~Full
       /\ waiting' = Append(waiting, j)
       /\ fate' = [fate EXCEPT ![j] = "owed"]
       /\ UNCHANGED <<until, here>>
    \/ /\ until # NoWait
       /\ ~Expired
       /\ Full
       /\ waiting' = Append(Tail(waiting), j)
       /\ fate' = [fate EXCEPT ![j] = "owed", ![Head(waiting)] = "nothing"]
       /\ UNCHANGED <<until, here>>

\* dispatch, up to the call of `send`.  The id is minted on every path.
Dispatch(j) ==
    /\ nextId' = nextId + 1
    /\ \/ /\ worker # NoSink
          /\ Register(j, worker)
          /\ fate' = [fate EXCEPT ![j] = "owed"]
          /\ UNCHANGED <<until, waiting, here>>
       \/ /\ worker = NoSink
          /\ WaitForSink(j)
          /\ UNCHANGED <<pending, sending>>

\* offload_job of a described job: its caller keeps the id this dispatch minted.
Offload(j) ==
    /\ SomeThreadIdle
    /\ fate[j] = "new"
    /\ Dispatch(j)
    /\ handle' = [handle EXCEPT ![j] = nextId]
    /\ UNCHANGED <<worker, lane, nextSink, armed, lapsed, todo>>

\* offload_job of Job::Nothing: the answer is known.
RendersNothing(j) ==
    /\ SomeThreadIdle
    /\ fate[j] = "new"
    /\ fate' = Delivered({j}, "nothing")
    /\ UNCHANGED <<pending, sinks, nextId, wait, todo, sending, here, handle>>

\* One turn of the loop of hand_waiting_jobs_to_the_sink.  The id this dispatch
\* mints is dropped: the caller's handle stays the one of the first dispatch.
\* The mutant takes the newest held job first.
HandOverNewest ==
    /\ sending = {}
    /\ todo # <<>>
    /\ Dispatch(todo[Len(todo)])
    /\ todo' = SubSeq(todo, 1, Len(todo) - 1)
    /\ UNCHANGED <<worker, lane, nextSink, armed, lapsed, handle>>

HandOver ==
    /\ sending = {}
    /\ todo # <<>>
    /\ Dispatch(Head(todo))
    /\ todo' = Tail(todo)
    /\ UNCHANGED <<worker, lane, nextSink, armed, lapsed, handle>>

\* offload_to_lane with a lane installed.  Without one the call changes nothing.
OffloadToLane(j) ==
    /\ SomeThreadIdle
    /\ fate[j] = "new"
    /\ lane # NoSink
    /\ Register(j, lane)
    /\ nextId' = nextId + 1
    /\ fate' = [fate EXCEPT ![j] = "owed"]
    /\ handle' = [handle EXCEPT ![j] = nextId]
    /\ UNCHANGED <<sinks, wait, todo, here>>

\* `send` answered Ok: the sink owes the reply.
SendTaken(s) ==
    /\ sending' = sending \ {s}
    /\ UNCHANGED <<pending, sinks, nextId, wait, todo, here, fate, handle>>

\* `send` answered Err(request): a worker's job runs here unless its entry is gone
\* already; a lane's job goes back to its caller, its `deliver` dropped unrun.
SendRefused(s) ==
    /\ sending' = sending \ {s}
    /\ pending' = pending \ {s}
    /\ \/ /\ StillOwed(s) /\ s.sink = worker
          /\ here' = here \cup {s.job}
          /\ UNCHANGED fate
       \/ /\ StillOwed(s) /\ s.sink # worker
          /\ fate' = Delivered({s.job}, "returned")
          /\ UNCHANGED here
       \/ /\ ~StillOwed(s)
          /\ UNCHANGED <<here, fate>>
    /\ UNCHANGED <<sinks, nextId, wait, todo, handle>>

SendReturns == \E s \in sending : SendTaken(s) \/ SendRefused(s)

-----------------------------------------------------------------------------
\* Fail whatever this sink still owes; in the mutant the entries stay behind.
AbandonKeeps(sink) ==
    /\ fate' = Delivered({e.job : e \in JobsOf(sink)}, "nothing")
    /\ UNCHANGED pending

Abandon(sink) ==
    /\ pending' = pending \ JobsOf(sink)
    /\ fate' = Delivered({e.job : e \in JobsOf(sink)}, "nothing")

\* set_worker: abandon_worker, install, hand_waiting_jobs_to_the_sink.
SetWorker ==
    /\ Idle
    /\ nextSink <= SinkBound
    /\ Abandon(worker)
    /\ worker' = nextSink
    /\ nextSink' = nextSink + 1
    /\ until' = NoWait
    /\ todo' = waiting
    /\ waiting' = <<>>
    /\ UNCHANGED <<lane, nextId, armed, lapsed, sending, here, handle>>

AbandonWorker ==
    /\ Idle
    /\ worker # NoSink
    /\ Abandon(worker)
    /\ worker' = NoSink
    /\ UNCHANGED <<lane, nextSink, nextId, wait, todo, sending, here, handle>>

SetLane ==
    /\ Idle
    /\ nextSink <= SinkBound
    /\ Abandon(lane)
    /\ lane' = nextSink
    /\ nextSink' = nextSink + 1
    /\ UNCHANGED <<worker, nextId, wait, todo, sending, here, handle>>

AbandonLane ==
    /\ Idle
    /\ lane # NoSink
    /\ Abandon(lane)
    /\ lane' = NoSink
    /\ UNCHANGED <<worker, nextSink, nextId, wait, todo, sending, here, handle>>

\* expect_sink.  Every caller passes one constant window, so deadlines only rise.
ExpectSink ==
    /\ Idle
    /\ worker = NoSink
    /\ armed < WindowBound
    /\ armed' = armed + 1
    /\ until' = armed + 1
    /\ UNCHANGED <<pending, sinks, nextId, lapsed, waiting, todo, sending, here, fate, handle>>

\* The clock passes the oldest deadline still ahead of it.
DeadlinePasses ==
    /\ lapsed < armed
    /\ lapsed' = lapsed + 1
    /\ UNCHANGED <<pending, sinks, nextId, until, armed, waiting, todo, sending, here,
                   fate, handle>>

\* flush_expired_sink_wait.  Before the deadline the call changes nothing.
FlushExpired ==
    /\ Idle
    /\ Expired
    /\ until' = NoWait
    /\ waiting' = <<>>
    /\ here' = here \cup Queued(waiting)
    /\ UNCHANGED <<pending, sinks, nextId, armed, lapsed, todo, sending, fate, handle>>

-----------------------------------------------------------------------------
\* deliver_job_reply, which every encoded reply ends in.  A reply of another kind
\* than the entry's row delivers nothing.  A reply without an entry is ignored.
Reply(e, outcome) ==
    /\ e \in pending
    /\ pending' = pending \ {e}
    /\ fate' = Delivered({e.job}, outcome)
    /\ UNCHANGED <<sinks, nextId, wait, todo, sending, here, handle>>

\* cancel_job(handle[j]): the caller, who has the id once `send` returned, has moved
\* past this job.
Cancel(j) ==
    /\ \E e \in pending \ sending :
        /\ e.id = handle[j]
        /\ pending' = pending \ {e}
        /\ fate' = Delivered({e.job}, "nothing")
    /\ UNCHANGED <<sinks, nextId, wait, todo, sending, here, handle>>

\* run_here's task ends: execute, release the input, deliver.  Its native thread has no
\* catch_unwind: a panic drops `deliver` unrun.
HereOutcomes == IF Native THEN Outcomes \cup {"dropped"} ELSE Outcomes

FinishHere(j, outcome) ==
    /\ j \in here
    /\ here' = here \ {j}
    /\ fate' = Delivered({j}, outcome)
    /\ UNCHANGED <<pending, sinks, nextId, wait, todo, sending, handle>>

-----------------------------------------------------------------------------
ReplyTo(j) == \E e \in pending, o \in Outcomes : e.job = j /\ Reply(e, o)

EndsHere(j) == \E o \in HereOutcomes : FinishHere(j, o)

FunnelNext ==
    \/ \E j \in Jobs : \/ Offload(j)
                       \/ RendersNothing(j)
                       \/ OffloadToLane(j)
                       \/ Cancel(j)
                       \/ ReplyTo(j)
                       \/ EndsHere(j)
    \/ HandOver \/ SendReturns
    \/ SetWorker \/ AbandonWorker \/ SetLane \/ AbandonLane
    \/ ExpectSink \/ DeadlinePasses \/ FlushExpired

FunnelSpec == FunnelInit /\ [][FunnelNext]_funnelVars

\* What the scheduler and the transports owe the funnel: `send` returns, the
\* dispatching thread goes on, time passes, the flush timer fires, fallback threads
\* run, and a sink answers what it took or is abandoned.
FunnelFairness ==
    /\ WF_funnelVars(HandOver)
    /\ WF_funnelVars(SendReturns)
    /\ WF_funnelVars(DeadlinePasses)
    /\ WF_funnelVars(FlushExpired)
    /\ \A j \in Jobs : WF_funnelVars(EndsHere(j)) /\ WF_funnelVars(ReplyTo(j))

FairFunnelSpec == FunnelSpec /\ FunnelFairness

-----------------------------------------------------------------------------
Settled == {"value", "nothing", "returned", "dropped"}

Registered(j) == \E e \in pending : e.job = j

(* Types, and the bounds the counters keep: every id and sink on record was minted, *)
(* the wait never holds more than SINK_WAIT_LIMIT jobs, and a window that is waited *)
(* for was armed.                                                                   *)
TypeOK ==
    /\ pending \subseteq Entry
    /\ \A e \in pending : e.id < nextId
    /\ \A e, f \in pending : e.id = f.id => e = f
    /\ worker \in Nat /\ lane \in Nat /\ nextSink \in Nat \ {0}
    /\ worker < nextSink /\ lane < nextSink
    /\ nextId \in Nat \ {0}
    /\ armed \in Nat /\ lapsed \in 0..armed /\ until \in 0..armed
    /\ waiting \in Seq(Jobs) /\ Len(waiting) <= WaitLimit
    /\ todo \in Seq(Jobs)
    /\ sending \subseteq Entry
    /\ \A s \in sending : s.id < nextId
    /\ here \subseteq Jobs
    /\ fate \in [Jobs -> Fates]
    /\ handle \in [Jobs -> Nat]
    /\ \A j \in Jobs : handle[j] < nextId

(* Custody of `deliver`: a job the funnel owes an answer has its closure in exactly  *)
(* one place (the registry, the wait, the hand-over or a fallback run), and a job it *)
(* does not owe has it nowhere.  This is what "exactly once on every path" rests on. *)
Places(j) ==
    {p \in {"registry", "waiting", "todo", "here"} :
        \/ p = "registry" /\ Registered(j)
        \/ p = "waiting" /\ InQueue(j, waiting)
        \/ p = "todo" /\ InQueue(j, todo)
        \/ p = "here" /\ j \in here}

NoTwice(q) == \A a, b \in 1..Len(q) : q[a] = q[b] => a = b

Custody ==
    /\ \A j \in Jobs : fate[j] = "owed" <=> Places(j) # {}
    /\ \A j \in Jobs : \A p, q \in Places(j) : p = q
    /\ \A e, f \in pending : e.job = f.job => e = f
    /\ NoTwice(waiting) /\ NoTwice(todo)

(* No registry entry outlives its sink: whatever is pending is owed by the worker or *)
(* the lane installed now, so retiring those two fails everything ever owed.  An     *)
(* entry of a replaced port would hold its render slot for the session.              *)
RegistryOwned ==
    /\ \A e \in pending : e.sink # NoSink /\ e.sink \in {worker, lane}
    /\ worker = lane => worker = NoSink

(* A job is only ever held while a deadline is running that will release it, and     *)
(* never beside an installed worker: otherwise nothing would ever take it out again. *)
WaitIsArmed ==
    /\ waiting # <<>> => until # NoWait
    /\ worker # NoSink => until = NoWait
    /\ todo # <<>> => worker # NoSink

(* The wait is first in, first out across eviction, hand-over and expiry: a held job *)
(* never stays behind one that was handed over after it.                             *)
Held == Queued(todo) \cup Queued(waiting)

OldestLeavesFirst ==
    [][\A j, k \in Held : handle[j] < handle[k] /\ k \notin Held' => j \notin Held']_funnelVars

(* "The two installations retire each other's jobs never" (LANE's doc): a step that  *)
(* changes only the worker leaves the lane's entries alone, and the other way round. *)
RetiresOnlyItsOwn ==
    [][\A e \in pending :
        /\ worker' # worker /\ e.sink = lane => e \in pending'
        /\ lane' # lane /\ e.sink = worker => e \in pending']_funnelVars

(* What `deliver` was told stands: no later reply, cancel, refusal or abandonment    *)
(* reaches a job that is already settled.                                            *)
SettledIsFinal ==
    [][\A j \in Jobs : fate[j] \in Settled => fate'[j] = fate[j]]_funnelVars


\* The caller's view of the funnel.
Promise(j) == CASE fate[j] = "new" -> "open"
                [] fate[j] \in Outcomes -> "answered"
                [] OTHER -> fate[j]

Contract == INSTANCE OffloadContract WITH promise <- [j \in Jobs |-> Promise(j)]

(* The funnel implements its contract: each job is taken on once and settled once,   *)
(* in time.                                                                          *)
KeepsContract == Contract!Spec

=============================================================================
