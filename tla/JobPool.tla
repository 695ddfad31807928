------------------------------- MODULE JobPool -------------------------------
(***************************************************************************)
(* The native transport, squallar-worker/src/offload/pool.rs, behind the   *)
(* funnel: two job lanes, each an unbounded queue drained by its threads.  *)
(* A thread takes a job off the queue, claims it against the registry,     *)
(* executes it and delivers, each a step of its own: other threads may     *)
(* dispatch, cancel and answer in between.                                 *)
(*                                                                         *)
(* A native thread's WORKER is the pool's handle for good, and nothing     *)
(* installs a tile lane or expects a sink, so those calls are not part of  *)
(* this composition.                                                       *)
(***************************************************************************)
EXTENDS JobFunnel, FiniteSets

CONSTANTS
    Interactive,   \* the jobs of overlay/ and terrain/ rows: their deadline is the map's
    RdJob,         \* the threads asked for the described lane, rd-job
    RdOpaque       \* the threads asked for the interactive lane, rd-opaque

ASSUME PoolAssumption ==
    /\ Interactive \subseteq Jobs
    /\ RdJob \cap RdOpaque = {}
    /\ Native

VARIABLES
    queue,     \* each lane's channel
    started,   \* the threads whose spawn succeeded: they live for the process
    thread,    \* what each thread is doing: its stage and the task it holds
    runs       \* history: how often each job was committed to `execute`

poolVars == <<queue, started, thread, runs>>
vars == <<funnelVars, poolVars>>

Lanes == {"described", "interactive"}
Threads == RdJob \cup RdOpaque
ThreadsOf(l) == IF l = "described" THEN RdJob ELSE RdOpaque
Stages == {"taken", "claimed", "answered"}

NoTask == [stage |-> "waits"]
Task(stage, e, outcome) == [stage |-> stage, entry |-> e, outcome |-> outcome]

\* Handle::send's one routing decision, and its mutant: one lane for everything.
OneLane(j) == "described"
LaneOf(j) == IF j \in Interactive THEN "interactive" ELSE "described"

\* The channel has a receiver; the mutant never notices that it has none.
AlwaysReceived(l) == TRUE
HasReceiver(l) == ThreadsOf(l) \cap started # {}

\* job_is_owed
JobIsOwed(id) == \E e \in pending : e.id = id

PoolInit ==
    /\ FunnelInit
    /\ queue = [l \in Lanes |-> <<>>]
    /\ started \in SUBSET Threads
    /\ thread = [t \in Threads |-> NoTask]
    /\ runs = [j \in Jobs |-> 0]

-----------------------------------------------------------------------------
\* The frame thread and tokio's workers call into the funnel.
Callers ==
    /\ \E j \in Jobs : Offload(j) \/ RendersNothing(j) \/ Cancel(j)
    /\ UNCHANGED poolVars

\* A send with a receiver queues the pair.  The queue has no bound, so this is never
\* back-pressure.
PoolTakes ==
    /\ \E s \in sending :
        /\ HasReceiver(LaneOf(s.job))
        /\ SendTaken(s)
        /\ queue' = [queue EXCEPT ![LaneOf(s.job)] = Append(@, s)]
    /\ UNCHANGED <<started, thread, runs>>

\* A lane none of whose threads started hands the request back inside its SendError.
PoolRefuses ==
    /\ \E s \in sending : ~HasReceiver(LaneOf(s.job)) /\ SendRefused(s)
    /\ UNCHANGED poolVars

\* run_here's thread executes, releases the input and delivers, or panics.
Fallback(j) ==
    /\ EndsHere(j)
    /\ runs' = [runs EXCEPT ![j] = @ + 1]
    /\ UNCHANGED <<queue, started, thread>>

-----------------------------------------------------------------------------
\* The lane's loop: `recv` under the lane's lock.  In the mutant two threads may be
\* handed one task.
RecvShared(t, l) ==
    /\ t \in started \cap ThreadsOf(l)
    /\ thread[t] = NoTask
    /\ queue[l] # <<>>
    /\ thread' = [thread EXCEPT ![t] = Task("taken", Head(queue[l]), "nothing")]
    /\ queue' \in {queue, [queue EXCEPT ![l] = Tail(@)]}
    /\ UNCHANGED <<funnelVars, started, runs>>

Recv(t, l) ==
    /\ t \in started \cap ThreadsOf(l)
    /\ thread[t] = NoTask
    /\ queue[l] # <<>>
    /\ thread' = [thread EXCEPT ![t] = Task("taken", Head(queue[l]), "nothing")]
    /\ queue' = [queue EXCEPT ![l] = Tail(@)]
    /\ UNCHANGED <<funnelVars, started, runs>>

\* lane_job's claim, and the drop of a job that was withdrawn while it queued.
Claim(t) ==
    /\ thread[t].stage = "taken"
    /\ LET e == thread[t].entry
       IN  \/ /\ JobIsOwed(e.id)
              /\ thread' = [thread EXCEPT ![t].stage = "claimed"]
              /\ runs' = [runs EXCEPT ![e.job] = @ + 1]
           \/ /\ ~JobIsOwed(e.id)
              /\ thread' = [thread EXCEPT ![t] = NoTask]
              /\ UNCHANGED runs
    /\ UNCHANGED <<funnelVars, queue, started>>

\* run and release_input: a value, or nothing; a panic answers nothing too.  In the
\* mutant nobody catches it below the lane's own backstop.
ExecuteUnguarded(t) ==
    /\ thread[t].stage = "claimed"
    /\ thread' \in { [thread EXCEPT ![t] = Task("answered", thread[t].entry, "value")],
                     [thread EXCEPT ![t] = NoTask] }
    /\ UNCHANGED <<funnelVars, queue, started, runs>>

Execute(t) ==
    /\ thread[t].stage = "claimed"
    /\ \E o \in Outcomes :
        thread' = [thread EXCEPT ![t] = Task("answered", thread[t].entry, o)]
    /\ UNCHANGED <<funnelVars, queue, started, runs>>

\* deliver_job_reply on this thread: a reply without an entry is ignored.
Deliver(t) ==
    /\ thread[t].stage = "answered"
    /\ LET e == thread[t].entry
       IN  \/ Reply(e, thread[t].outcome)
           \/ /\ ~JobIsOwed(e.id)
              /\ UNCHANGED funnelVars
    /\ thread' = [thread EXCEPT ![t] = NoTask]
    /\ UNCHANGED <<queue, started, runs>>

LaneThread(t) == Claim(t) \/ Execute(t) \/ Deliver(t) \/ \E l \in Lanes : Recv(t, l)

PoolNext ==
    \/ Callers \/ PoolTakes \/ PoolRefuses
    \/ \E j \in Jobs : Fallback(j)
    \/ \E t \in Threads : LaneThread(t)

PoolSpec == PoolInit /\ [][PoolNext]_vars

\* The operating system runs every thread.  Nobody has to offload anything more.
CallerFairness ==
    /\ WF_vars(PoolTakes \/ PoolRefuses)
    /\ \A j \in Jobs : WF_vars(Fallback(j))

\* The described lane's threads may be stuck in `execute` for ever.
StalledPoolSpec ==
    PoolSpec /\ CallerFairness /\ \A t \in RdOpaque : WF_vars(LaneThread(t))

-----------------------------------------------------------------------------
(* Types of the pool's state.  A task is on its row's lane and in the hands of one  *)
(* of that lane's threads that started; a lane without a receiver holds nothing.    *)
PoolTypeOK ==
    /\ TypeOK
    /\ started \subseteq Threads
    /\ runs \in [Jobs -> Nat]
    /\ \A l \in Lanes :
        /\ queue[l] \in Seq(Entry)
        /\ \A i \in 1..Len(queue[l]) :
            queue[l][i].job \in Interactive <=> l = "interactive"
        /\ queue[l] # <<>> => ThreadsOf(l) \cap started # {}
        /\ \A t \in ThreadsOf(l) :
            thread[t] # NoTask =>
                /\ t \in started
                /\ thread[t] \in [stage : Stages, entry : Entry, outcome : Outcomes]
                /\ thread[t].entry.job \in Interactive <=> l = "interactive"

InChannel(e) == \E l \in Lanes : \E i \in 1..Len(queue[l]) : queue[l][i] = e
InHand(e) == \E t \in Threads : thread[t] # NoTask /\ thread[t].entry = e

(* Every entry of the registry is on its way: inside `send`, in a lane's channel or *)
(* in a thread's hands, and in one of them only.  An entry nobody carries would hold *)
(* its pane's render slot for the session.                                          *)
OwedIsCarried ==
    \A e \in pending :
        /\ e \in sending \/ InChannel(e) \/ InHand(e)
        /\ e \in sending => ~InChannel(e) /\ ~InHand(e)
        /\ InChannel(e) => ~InHand(e)

(* A job is executed at most once, whichever of the pool and the fallback ends up    *)
(* with it, and a value comes only from an execution.                               *)
ExecutedOnce ==
    \A j \in Jobs : runs[j] <= 1 /\ (fate[j] = "value" => runs[j] = 1)

(* pool.rs: "radar-paced and map-paced work do not queue behind each other".  The    *)
(* interactive jobs settle although no described thread ever gets on; and where those *)
(* get on too, every job does: also when only some threads started, or none, and      *)
(* whatever was cancelled meanwhile.                                                 *)
JobsSettle ==
    /\ \A j \in Interactive : fate[j] = "owed" ~> fate[j] \in Settled
    /\ (\A t \in Threads : WF_vars(LaneThread(t)))
         => \A j \in Jobs : fate[j] = "owed" ~> fate[j] \in Settled

=============================================================================
