-------------------------- MODULE WorkerPortProofs ---------------------------
(***************************************************************************)
(* The browser's transport, for any number of jobs, sinks, windows and     *)
(* generations of workers: it drives the funnel only through the funnel's  *)
(* own operations, never leaves the page without a worker for good, and    *)
(* lends what a live process may still read.                               *)
(***************************************************************************)
EXTENDS WorkerPort, JobFunnelProofs

Ids == 0..(nextId - 1)

Posts(ids) == [kind : {"job", "release"}, id : ids]

Messages(ids) ==
    [kind : {"hello"}, same : BOOLEAN, withLane : BOOLEAN]
        \cup [kind : {"hello", "fatal", "laneLost"}]
        \cup [kind : {"release"}, id : ids]
        \cup [kind : {"done"}, id : ids, outcome : Outcomes]

(* What the processes hold and say: no id of theirs was not minted here. *)
ProcTyped ==
    /\ proc \in [Processes -> {"none", "boot", "ready", "failed"}]
    /\ inbox \in [Processes -> Seq(Posts(Ids))]
    /\ outbox \in [Processes -> [Generations -> Seq(Messages(Ids))]]
    /\ busy \in [Processes -> Ids]
    /\ owed \in [Processes -> SUBSET Nat]

(* What the page keeps. *)
PageTyped ==
    /\ generation \in 0..GenBound
    /\ rung \in 0..generation
    /\ scheduled \in BOOLEAN
    /\ timers \subseteq 1..armed
    /\ turn \in {"free", "abandonWorker", "abandonLane", "sweep"}
    /\ lanePort \in 0..generation
    /\ ports \subseteq 1..generation
    /\ lent \subseteq Ids
    /\ errors \subseteq 1..generation

(* A process that is gone holds nothing; a lane only runs inside a worker that came *)
(* up; and a worker that is gone says nothing more.                                *)
GoneIsSilent ==
    /\ \A p \in Processes :
        proc[p] = "none" => inbox[p] = <<>> /\ busy[p] = NoId /\ owed[p] = {}
    /\ proc["lane"] # "none" => proc["worker"] = "ready"
    /\ proc["worker"] = "none" => \A g \in Generations : outbox["worker"][g] = <<>>

(* `lose` starts without a worker, with the page between two calls, has retired the *)
(* sink after its first call, and ends with a respawn.                              *)
LossIsAnswered ==
    /\ turn # "free" => proc["worker"] = "none" /\ generation > 0 /\ Idle /\ here = {}
    /\ turn \in {"abandonLane", "sweep"} => worker = NoSink
    /\ turn = "free" /\ worker # NoSink => proc["worker"] # "none"
    /\ turn = "free" /\ generation > 0 => (scheduled <=> proc["worker"] = "none")
    /\ generation = 0 => proc["worker"] = "none" /\ ~scheduled

(* The ladder has a rung left for the loss of the worker that is up. *)
OneRungPerWorker == rung < generation \/ scheduled \/ generation = 0

(* Whoever waits, waits for a window whose timer has not fired. *)
WaitIsTimed == until # NoWait => until \in timers

PortInv ==
    /\ FunnelInv
    /\ ProcTyped /\ PageTyped
    /\ GoneIsSilent /\ LossIsAnswered /\ OneRungPerWorker /\ WaitIsTimed

-----------------------------------------------------------------------------
(* The funnel's ids only grow, so what was minted stays minted. *)
LEMMA IdsGrow == ASSUME TypeOK, [FunnelNext]_funnelVars PROVE nextId' >= nextId /\ Ids \subseteq Ids'
  <1>1. CASE UNCHANGED funnelVars
    BY <1>1 DEF funnelVars, Ids, TypeOK
  <1>2. CASE FunnelNext
    <2>1. ASSUME \E j \in Jobs : Offload(j) \/ OffloadToLane(j)
          PROVE  nextId' = nextId + 1
      BY <2>1 DEF Offload, OffloadToLane, Dispatch
    <2>2. ASSUME HandOver PROVE nextId' = nextId + 1
      BY <2>2 DEF HandOver, Dispatch
    <2>3. ASSUME \E j \in Jobs : RendersNothing(j) \/ Cancel(j)
          PROVE  nextId' = nextId
      BY <2>3 DEF RendersNothing, Cancel
    <2>4. ASSUME \/ \E e \in pending, o \in Outcomes : Reply(e, o)
                 \/ \E j \in Jobs, o \in HereOutcomes : FinishHere(j, o)
                 \/ \E s \in sending : SendTaken(s) \/ SendRefused(s)
          PROVE  nextId' = nextId
      BY <2>4 DEF Reply, FinishHere, SendTaken, SendRefused
    <2>5. ASSUME SetWorker \/ AbandonWorker \/ SetLane \/ AbandonLane \/ ExpectSink
                   \/ DeadlinePasses \/ FlushExpired
          PROVE  nextId' = nextId
      BY <2>5 DEF SetWorker, AbandonWorker, SetLane, AbandonLane, ExpectSink, DeadlinePasses,
                  FlushExpired
    <2>6. nextId' = nextId + 1 \/ nextId' = nextId
      BY <1>2, NextCases, <2>1, <2>2, <2>3, <2>4, <2>5
    <2>7. QED
      BY <2>6 DEF TypeOK, Ids
  <1>3. QED
    BY <1>1, <1>2

LEMMA SeqGrows == ASSUME NEW S, NEW T, S \subseteq T PROVE Seq(S) \subseteq Seq(T)
  OBVIOUS

LEMMA MessagesGrow ==
    ASSUME Ids \subseteq Ids'
    PROVE  /\ Seq(Posts(Ids)) \subseteq Seq(Posts(Ids'))
           /\ Seq(Messages(Ids)) \subseteq Seq(Messages(Ids'))
  <1>1. Posts(Ids) \subseteq Posts(Ids') /\ Messages(Ids) \subseteq Messages(Ids')
    BY DEF Posts, Messages
  <1>2. QED
    BY <1>1, SeqGrows

(* A message added. *)
LEMMA Said ==
    ASSUME ProcTyped, NEW p \in Processes, NEW m \in Messages(Ids), Says(p, m)
    PROVE  /\ outbox' \in [Processes -> [Generations -> Seq(Messages(Ids))]]
           /\ \A q \in Processes : q # p => outbox'[q] = outbox[q]
  <1>1. \A s \in Seq(Messages(Ids)) : Append(s, m) \in Seq(Messages(Ids))
    OBVIOUS
  <1>2. QED
    BY <1>1 DEF ProcTyped, Says

(* A message taken. *)
LEMMA Taken ==
    ASSUME ProcTyped, NEW p \in Processes, NEW g \in Generations, Takes(p, g)
    PROVE  /\ outbox' \in [Processes -> [Generations -> Seq(Messages(Ids))]]
           /\ Head(outbox[p][g]) \in Messages(Ids)
           /\ \A q \in Processes, h \in Generations : outbox[q][h] = <<>> => outbox'[q][h] = <<>>
           /\ PageFree
  <1>1. outbox[p][g] # <<>> /\ outbox[p][g] \in Seq(Messages(Ids)) /\ PageFree
    BY DEF ProcTyped, Takes
  <1>2. /\ Tail(outbox[p][g]) \in Seq(Messages(Ids)) /\ Head(outbox[p][g]) \in Messages(Ids)
    BY <1>1
  <1>3. outbox' = [outbox EXCEPT ![p][g] = Tail(outbox[p][g])]
    BY DEF Takes
  <1> HIDE DEF Ids
  <1>4. outbox' \in [Processes -> [Generations -> Seq(Messages(Ids))]]
    BY <1>2, <1>3 DEF ProcTyped
  <1>5. \A q \in Processes, h \in Generations :
          outbox'[q][h] = IF q = p /\ h = g THEN Tail(outbox[p][g]) ELSE outbox[q][h]
    BY <1>3 DEF ProcTyped
  <1>6. QED
    BY <1>1, <1>2, <1>4, <1>5

LEMMA Spoken ==
    /\ \A m \in Messages(Ids) : m.kind = "done" => m.id \in Ids /\ m.outcome \in Outcomes
    /\ \A m \in Messages(Ids) : m.kind = "release" => m.id \in Ids
  BY DEF Messages

-----------------------------------------------------------------------------
(* Every step of the page and the processes is a step of the funnel or none. *)

LEMMA PageDrives ==
    ASSUME TypeOK,
           \/ PageCalls \/ PageStep \/ Attach \/ Respawn \/ Clock
           \/ \E g \in Generations : OnError(g)
           \/ \E n \in timers : FlushTimer(n)
    PROVE  [FunnelNext]_funnelVars
  <1> USE DEF FunnelNext
  <1>1. CASE PageCalls
    BY <1>1 DEF PageCalls
  <1>2. CASE PageHandsOver \/ PostJob \/ PostRefused
    BY <1>2 DEF PageHandsOver, PostJob, PostRefused, SendReturns
  <1>3. CASE PageRunsHere
    <2>1. PICK j \in here, o \in Outcomes : FinishHere(j, o)
      BY <1>3 DEF PageRunsHere
    <2>2. j \in Jobs /\ o \in HereOutcomes
      BY <2>1 DEF TypeOK, HereOutcomes
    <2>3. QED
      BY <2>1, <2>2 DEF EndsHere
  <1>4. CASE LoseWorker \/ LoseLane \/ Sweep
    <2>1. CASE LoseWorker
      BY <2>1 DEF LoseWorker
    <2>2. CASE LoseLane
      BY <2>2 DEF LoseLane
    <2>3. CASE Sweep
      BY <2>3 DEF Sweep
    <2>4. QED
      BY <1>4, <2>1, <2>2, <2>3
  <1>5. CASE Attach \/ Respawn
    BY <1>5 DEF Attach, Respawn, Spawn
  <1>6. CASE Clock
    BY <1>6 DEF Clock
  <1>7. CASE \E g \in Generations : OnError(g)
    BY <1>7 DEF OnError
  <1>8. CASE \E n \in timers : FlushTimer(n)
    BY <1>8 DEF FlushTimer
  <1>9. QED
    BY <1>1, <1>2, <1>3, <1>4, <1>5, <1>6, <1>7, <1>8 DEF PageStep

LEMMA MessageDrives ==
    ASSUME TypeOK, ProcTyped, NEW p \in Processes, NEW g \in Generations, OnMessage(p, g)
    PROVE  [FunnelNext]_funnelVars
  <1> USE DEF FunnelNext
  <1>1. ASSUME OnDone(p, g) PROVE [FunnelNext]_funnelVars
    <2> DEFINE m == Head(outbox[p][g])
    <2>1. m.outcome \in Outcomes
      BY <1>1, Taken, Spoken DEF OnDone, Arrived
    <2>2. \/ \E e \in pending : Reply(e, m.outcome)
          \/ UNCHANGED funnelVars
      BY <1>1 DEF OnDone
    <2> HIDE DEF m
    <2>3. ASSUME NEW e \in pending, Reply(e, m.outcome) PROVE FunnelNext
      <3>1. e.job \in Jobs
        BY DEF TypeOK, Entry
      <3>2. QED
        BY <2>1, <2>3, <3>1 DEF ReplyTo
    <2>4. QED
      BY <2>2, <2>3
  <1>2. QED
    BY <1>1 DEF OnMessage, OnHello, OnUseless, OnLaneHello, OnLaneLost, OnRelease, OnStale

LEMMA ProcsLeaveFunnel ==
    ASSUME \/ WorkerBoots \/ LaneBoots \/ WorkerThrows \/ LaneThrows
           \/ \E p \in Processes : FailsToBoot(p) \/ StartsJob(p) \/ FreesReply(p) \/ AnswersJob(p)
    PROVE  UNCHANGED funnelVars /\ UNCHANGED pageVars
  BY DEF WorkerBoots, LaneBoots, WorkerThrows, LaneThrows, FailsToBoot, StartsJob, FreesReply,
         AnswersJob

LEMMA PortDrives ==
    ASSUME TypeOK, ProcTyped, [PortNext]_vars PROVE [FunnelNext]_funnelVars
  <1>1. CASE UNCHANGED vars
    BY <1>1 DEF vars
  <1>2. CASE PortNext
    BY <1>2, PageDrives, MessageDrives, ProcsLeaveFunnel DEF PortNext
  <1>3. QED
    BY <1>1, <1>2

-----------------------------------------------------------------------------
(* The cases of a step. *)

Serves ==
    \/ PageCalls \/ PageHandsOver \/ PageRunsHere \/ PostJob \/ PostRefused \/ Clock

Spawns == Attach \/ Respawn

ProcStep ==
    \/ WorkerBoots \/ LaneBoots \/ WorkerThrows \/ LaneThrows
    \/ \E p \in Processes : FailsToBoot(p) \/ StartsJob(p) \/ FreesReply(p) \/ AnswersJob(p)

LEMMA PortCases ==
    ASSUME PortNext
    PROVE  \/ Serves \/ LoseWorker \/ LoseLane \/ Sweep \/ Spawns \/ ProcStep
           \/ \E g \in Generations : OnError(g)
           \/ \E n \in timers : FlushTimer(n)
           \/ \E g \in Generations : OnHello(g) \/ OnUseless(g) \/ OnLaneHello(g)
           \/ \E p \in Processes, g \in Generations :
                \/ OnLaneLost(p, g) \/ OnDone(p, g) \/ OnRelease(p, g) \/ OnStale(p, g)
  BY DEF PortNext, PageStep, Serves, Spawns, ProcStep, OnMessage

(* The funnel's calls of the page, as far as its sinks and its wait go. *)
LEMMA ServesFunnel ==
    ASSUME Serves
    PROVE  /\ worker' = worker /\ armed' = armed /\ until' \in {until, NoWait}
           /\ turn = "free" \/ ~Idle \/ here # {} \/ UNCHANGED <<todo, sending, here>>
           /\ UNCHANGED <<generation, rung, scheduled, timers, turn, lanePort, ports>>
           /\ UNCHANGED <<proc, outbox, busy, owed, errors>>
  <1>1. CASE PageCalls
    <2>1. PICK j \in Jobs : Offload(j) \/ OffloadToLane(j) \/ Cancel(j)
      BY <1>1 DEF PageCalls
    <2>2. /\ worker' = worker /\ armed' = armed /\ until' \in {until, NoWait}
      BY <2>1 DEF Offload, OffloadToLane, Cancel, Dispatch, WaitForSink, sinks, wait
    <2>3. QED
      BY <1>1, <2>2 DEF PageCalls, PageFree, pageVars, procVars
  <1>2. CASE PageHandsOver
    <2>1. worker' = worker /\ armed' = armed /\ until' \in {until, NoWait} /\ ~Idle
      BY <1>2 DEF PageHandsOver, HandOver, Dispatch, WaitForSink, Idle
    <2>2. QED
      BY <1>2, <2>1 DEF PageHandsOver, pageVars, procVars
  <1>3. CASE PageRunsHere
    BY <1>3 DEF PageRunsHere, FinishHere, pageVars, procVars, sinks, wait
  <1>4. CASE PostJob
    BY <1>4 DEF PostJob, SendTaken, sinks, wait, Idle
  <1>5. CASE PostRefused
    BY <1>5 DEF PostRefused, SendRefused, sinks, wait, Idle, procVars
  <1>6. CASE Clock
    BY <1>6 DEF Clock, DeadlinePasses, sinks, pageVars, procVars
  <1>7. QED
    BY <1>1, <1>2, <1>3, <1>4, <1>5, <1>6 DEF Serves

LEMMA LosesFunnel ==
    ASSUME LoseWorker \/ LoseLane \/ Sweep
    PROVE  /\ UNCHANGED <<armed, until, todo, sending, here, generation, timers, lanePort, ports>>
           /\ UNCHANGED procVars
           /\ LoseWorker => worker' = NoSink
           /\ LoseLane \/ Sweep => worker' = worker
  <1>1. ASSUME LoseWorker
        PROVE  UNCHANGED <<armed, until, todo, sending, here>> /\ worker' = NoSink
    BY <1>1 DEF LoseWorker, AbandonWorker, wait, funnelVars
  <1>2. ASSUME LoseLane \/ Sweep
        PROVE  UNCHANGED <<armed, until, todo, sending, here>> /\ worker' = worker
    BY <1>2 DEF LoseLane, Sweep, AbandonLane, wait, funnelVars
  <1>3. QED
    BY <1>1, <1>2 DEF LoseWorker, LoseLane, Sweep

LEMMA MessagesFunnel ==
    ASSUME NEW p \in Processes, NEW g \in Generations,
           OnLaneHello(g) \/ OnLaneLost(p, g) \/ OnDone(p, g) \/ OnRelease(p, g) \/ OnStale(p, g)
    PROVE  /\ PageFree
           /\ UNCHANGED <<worker, armed, until>>
           /\ UNCHANGED <<generation, rung, scheduled, timers, turn, ports>>
           /\ UNCHANGED <<proc, busy, owed, errors>>
  <1>1. CASE OnLaneHello(g)
    BY <1>1 DEF OnLaneHello, Takes, SetLane, wait
  <1>2. CASE OnLaneLost(p, g)
    BY <1>2 DEF OnLaneLost, Takes, AbandonLane, wait, funnelVars
  <1>3. CASE OnDone(p, g)
    <2>1. UNCHANGED <<worker, armed, until>>
      BY <1>3 DEF OnDone, Reply, wait, sinks, funnelVars
    <2>2. QED
      BY <1>3, <2>1 DEF OnDone, Takes, pageVars
  <1>4. CASE OnRelease(p, g)
    BY <1>4 DEF OnRelease, Takes, funnelVars
  <1>5. CASE OnStale(p, g)
    BY <1>5 DEF OnStale, Takes, funnelVars, pageVars
  <1>6. QED
    BY <1>1, <1>2, <1>3, <1>4, <1>5

(* What spawn does, after its guards. *)
LEMMA SpawnsDoes ==
    ASSUME PortInv, Spawns
    PROVE  /\ PageFree /\ worker = NoSink
           /\ proc["worker"] = "none"
           /\ generation' = generation + 1 /\ generation' \in 0..GenBound
           /\ ~scheduled' /\ scheduled' \in BOOLEAN
           /\ armed' = armed + 1 /\ until' = armed + 1
           /\ timers' = timers \cup {armed + 1}
           /\ UNCHANGED <<worker, todo, sending, here, nextId>>
           /\ UNCHANGED <<rung, lanePort, ports, lent, inbox, outbox, busy, owed, errors>>
           /\ \/ proc' = [proc EXCEPT !["worker"] = "boot"] /\ turn' = "free"
              \/ proc' = proc /\ turn' = "abandonWorker"
  <1> USE DEF PortInv, PageTyped, LossIsAnswered
  <1>1. PageFree /\ Spawn /\ ~scheduled' /\ scheduled' \in BOOLEAN /\ proc["worker"] = "none"
    <2>1. CASE Attach
      BY <2>1 DEF Attach
    <2>2. CASE Respawn
      <3>1. turn = "free" /\ scheduled /\ scheduled' = FALSE
        BY <2>2 DEF Respawn, PageFree
      <3>2. proc["worker"] = "none"
        BY <3>1
      <3>3. QED
        BY <2>2, <3>1, <3>2 DEF Respawn
    <2>3. QED
      BY <2>1, <2>2 DEF Spawns
  <1>2. generation' = generation + 1 /\ generation' \in 0..GenBound
    BY <1>1, PortAssumption DEF Spawn
  <1>3. /\ worker = NoSink /\ armed' = armed + 1 /\ until' = armed + 1
        /\ UNCHANGED <<worker, todo, sending, here, nextId>>
    BY <1>1 DEF Spawn, ExpectSink, sinks
  <1>4. QED
    BY <1>1, <1>2, <1>3 DEF Spawn, TimersWithNext

LEMMA TimedStep == ASSUME PortInv, PortNext PROVE WaitIsTimed'
  <1> USE DEF WaitIsTimed
  <1>0. WaitIsTimed
    BY DEF PortInv
  <1>1. ASSUME until' \in {until, NoWait}, timers' = timers PROVE WaitIsTimed'
    BY <1>0, <1>1
  <1>2. CASE Serves
    BY <1>1, <1>2, ServesFunnel
  <1>3. CASE LoseWorker \/ LoseLane \/ Sweep
    BY <1>1, <1>3, LosesFunnel
  <1>4. CASE Spawns
    BY <1>4, SpawnsDoes
  <1>5. CASE ProcStep
    BY <1>1, <1>5, ProcsLeaveFunnel DEF ProcStep, funnelVars, pageVars
  <1>6. CASE \E g \in Generations : OnError(g)
    BY <1>1, <1>6 DEF OnError, funnelVars
  <1>7. ASSUME NEW n \in timers, FlushTimer(n) PROVE WaitIsTimed'
    <2>1. timers' = timers \ {n} /\ n <= lapsed
      BY <1>7 DEF FlushTimer
    <2>2. CASE FlushExpired
      BY <2>2 DEF FlushExpired
    <2>3. CASE ~Expired /\ UNCHANGED funnelVars
      <3>1. until' = until /\ (until = NoWait \/ ~(until <= lapsed))
        BY <2>3 DEF Expired, funnelVars
      <3>2. QED
        BY <1>0, <2>1, <3>1
    <2>4. QED
      BY <1>7, <2>2, <2>3 DEF FlushTimer
  <1>8. ASSUME NEW g \in Generations, OnHello(g) PROVE WaitIsTimed'
    BY <1>8 DEF OnHello, SetWorker
  <1>9. ASSUME NEW g \in Generations, OnUseless(g) PROVE WaitIsTimed'
    BY <1>1, <1>9 DEF OnUseless, funnelVars
  <1>10. ASSUME NEW p \in Processes, NEW g \in Generations,
                OnLaneHello(g) \/ OnLaneLost(p, g) \/ OnDone(p, g) \/ OnRelease(p, g)
                  \/ OnStale(p, g)
         PROVE  WaitIsTimed'
    BY <1>1, <1>10, MessagesFunnel
  <1>11. QED
    BY PortCases, <1>2, <1>3, <1>4, <1>5, <1>6, <1>7, <1>8, <1>9, <1>10 DEF Processes

LEMMA RungStep == ASSUME PortInv, PortNext PROVE OneRungPerWorker' /\ rung' \in 0..generation'
  <1> USE DEF OneRungPerWorker
  <1>0. OneRungPerWorker /\ rung \in 0..generation /\ generation \in Nat /\ LossIsAnswered
        /\ scheduled \in BOOLEAN
    BY DEF PortInv, PageTyped
  <1>1. ASSUME UNCHANGED <<rung, generation, scheduled>>
        PROVE  OneRungPerWorker' /\ rung' \in 0..generation'
    BY <1>0, <1>1
  <1>2. CASE Serves
    BY <1>1, <1>2, ServesFunnel
  <1>3. CASE LoseWorker \/ LoseLane
    BY <1>1, <1>3 DEF LoseWorker, LoseLane
  <1>4. CASE Sweep
    <2>1. generation' = generation /\ scheduled' = TRUE /\ rung' = NextRung /\ generation > 0
      BY <1>0, <1>4 DEF Sweep, LossIsAnswered
    <2>2. QED
      BY <1>0, <2>1 DEF NextRung
  <1>5. CASE Spawns
    <2>1. generation' = generation + 1 /\ rung' = rung
      BY <1>5, SpawnsDoes
    <2>2. QED
      BY <1>0, <2>1
  <1>6. CASE ProcStep
    BY <1>1, <1>6, ProcsLeaveFunnel DEF ProcStep, pageVars
  <1>7. ASSUME (\E g \in Generations : OnError(g)) \/ (\E n \in timers : FlushTimer(n))
        PROVE  OneRungPerWorker' /\ rung' \in 0..generation'
    BY <1>1, <1>7 DEF OnError, FlushTimer
  <1>8. ASSUME NEW g \in Generations, OnHello(g)
        PROVE  OneRungPerWorker' /\ rung' \in 0..generation'
    <2>1. rung' = 0 /\ generation' = generation /\ generation > 0
      BY <1>8 DEF OnHello, Generations
    <2>2. QED
      BY <1>0, <2>1
  <1>9. ASSUME NEW g \in Generations, OnUseless(g)
        PROVE  OneRungPerWorker' /\ rung' \in 0..generation'
    BY <1>1, <1>9 DEF OnUseless
  <1>10. ASSUME NEW p \in Processes, NEW g \in Generations,
                OnLaneHello(g) \/ OnLaneLost(p, g) \/ OnDone(p, g) \/ OnRelease(p, g)
                  \/ OnStale(p, g)
         PROVE  OneRungPerWorker' /\ rung' \in 0..generation'
    BY <1>1, <1>10, MessagesFunnel
  <1>11. QED
    BY PortCases, <1>2, <1>3, <1>4, <1>5, <1>6, <1>7, <1>8, <1>9, <1>10 DEF Processes

LEMMA LossStep == ASSUME PortInv, PortNext PROVE LossIsAnswered'
  <1>0. LossIsAnswered /\ PageTyped /\ ProcTyped /\ GoneIsSilent
    BY DEF PortInv
  <1> USE DEF LossIsAnswered
  <1>1. ASSUME UNCHANGED <<generation, scheduled, turn, worker>>, proc'["worker"] = proc["worker"],
               turn = "free" \/ UNCHANGED <<todo, sending, here>>
        PROVE  LossIsAnswered'
    BY <1>0, <1>1 DEF Idle
  <1>2. CASE Serves
    BY <1>0, <1>1, <1>2, ServesFunnel
  <1>3. CASE LoseWorker \/ LoseLane \/ Sweep
    <2>1. /\ UNCHANGED <<todo, sending, here, generation, proc>>
          /\ LoseWorker => worker' = NoSink
          /\ LoseLane \/ Sweep => worker' = worker
      BY <1>3, LosesFunnel DEF procVars
    <2>2. CASE LoseWorker
      BY <1>0, <2>1, <2>2 DEF LoseWorker, Idle
    <2>3. CASE LoseLane
      BY <1>0, <2>1, <2>3 DEF LoseLane, Idle
    <2>4. CASE Sweep
      BY <1>0, <2>1, <2>4 DEF Sweep, Idle
    <2>5. QED
      BY <1>3, <2>2, <2>3, <2>4
  <1>4. CASE Spawns
    <2>1. generation \in Nat /\ proc \in [Processes -> {"none", "boot", "ready", "failed"}]
          /\ "worker" \in Processes
      BY <1>0 DEF PageTyped, ProcTyped, Processes
    <2>2. /\ Idle' /\ here' = {} /\ worker' = NoSink /\ ~scheduled'
          /\ generation' = generation + 1 /\ proc["worker"] = "none"
          /\ \/ proc' = [proc EXCEPT !["worker"] = "boot"] /\ turn' = "free"
             \/ proc' = proc /\ turn' = "abandonWorker"
      BY <1>4, SpawnsDoes DEF PageFree, Idle
    <2>3. QED
      BY <2>1, <2>2
  <1>5. CASE ProcStep
    <2>1. UNCHANGED <<generation, scheduled, turn, worker, todo, sending, here>>
      BY <1>5, ProcsLeaveFunnel DEF ProcStep, funnelVars, pageVars
    <2>2. (proc'["worker"] = "none") <=> (proc["worker"] = "none")
      BY <1>0, <1>5 DEF ProcStep, WorkerBoots, LaneBoots, WorkerThrows, LaneThrows, FailsToBoot,
           StartsJob, FreesReply, AnswersJob, ProcTyped, Processes
    <2>3. QED
      BY <1>0, <2>1, <2>2 DEF Idle
  <1>6. ASSUME NEW g \in Generations, OnError(g) \/ OnUseless(g) PROVE LossIsAnswered'
    <2>1. /\ PageFree
          /\ UNCHANGED <<funnelVars, generation, scheduled>>
          /\ \/ g = generation /\ turn' = "abandonWorker" /\ proc' = [p \in Processes |-> "none"]
             \/ UNCHANGED <<turn, proc>>
      BY <1>6 DEF OnError, OnUseless, Terminate
    <2>2. QED
      BY <1>0, <1>1, <2>1 DEF PageFree, Idle, funnelVars, Generations, Processes
  <1>7. ASSUME NEW n \in timers, FlushTimer(n) PROVE LossIsAnswered'
    <2>1. worker' = worker /\ turn = "free"
      BY <1>7 DEF FlushTimer, FlushExpired, PageFree, funnelVars, sinks
    <2>2. QED
      BY <1>1, <1>7, <2>1 DEF FlushTimer, procVars
  <1>8. ASSUME NEW g \in Generations, OnHello(g) PROVE LossIsAnswered'
    <2>1. /\ turn = "free" /\ UNCHANGED <<turn, generation, scheduled, proc>>
          /\ proc["worker"] # "none"
      BY <1>0, <1>8 DEF OnHello, Takes, PageFree, GoneIsSilent
    <2>2. QED
      BY <1>0, <2>1
  <1>9. ASSUME NEW p \in Processes, NEW g \in Generations,
               OnLaneHello(g) \/ OnLaneLost(p, g) \/ OnDone(p, g) \/ OnRelease(p, g)
                 \/ OnStale(p, g)
        PROVE  LossIsAnswered'
    BY <1>1, <1>9, MessagesFunnel DEF PageFree
  <1>10. QED
    BY PortCases, <1>2, <1>3, <1>4, <1>5, <1>6, <1>7, <1>8, <1>9 DEF Processes

LEMMA PageTypedStep ==
    ASSUME PortInv, PortNext, rung' \in 0..generation', Ids \subseteq Ids'
    PROVE  PageTyped'
  <1>0. PageTyped /\ ProcTyped /\ LossIsAnswered /\ TypeOK
    BY DEF PortInv, FunnelInv
  <1> USE DEF PageTyped
  <1>1. ASSUME UNCHANGED <<generation, armed, ports, errors, lanePort>>,
               turn' \in {"free", "abandonWorker", "abandonLane", "sweep"},
               scheduled' \in BOOLEAN, timers' \subseteq timers, lent' \subseteq Ids
        PROVE  PageTyped'
    <2> HIDE DEF Ids
    <2>1. QED
      BY <1>0, <1>1
  <1>2. CASE Serves
    <2>1. lent' \subseteq Ids
      <3>1. CASE PostJob
        <4>1. PICK s \in sending : lent' = lent \cup Loans({s.id})
          BY <3>1 DEF PostJob
        <4>2. s.id \in Ids
          BY <1>0 DEF TypeOK, Entry, Ids
        <4>3. QED
          BY <1>0, <4>1, <4>2 DEF Loans
      <3>2. CASE UNCHANGED lent
        BY <1>0, <3>2
      <3>3. QED
        BY <1>2, <3>1, <3>2
        DEF Serves, PageCalls, PageHandsOver, PageRunsHere, PostRefused, Clock, pageVars
    <2>2. QED
      BY <1>0, <1>1, <1>2, <2>1, ServesFunnel
  <1>3. CASE LoseWorker \/ LoseLane \/ Sweep
    <2>1. /\ turn' \in {"free", "abandonWorker", "abandonLane", "sweep"}
          /\ scheduled' \in BOOLEAN /\ lent' \subseteq Ids
      BY <1>0, <1>3 DEF LoseWorker, LoseLane, Sweep
    <2>2. QED
      BY <1>1, <1>3, <2>1, LosesFunnel DEF procVars
  <1>4. CASE Spawns
    <2>1. armed \in Nat /\ generation \in Nat
      BY <1>0 DEF TypeOK
    <2>2. timers' \subseteq 1..armed'
      <3>1. timers \subseteq 1..armed /\ timers' = timers \cup {armed + 1} /\ armed' = armed + 1
        BY <1>0, <1>4, SpawnsDoes
      <3>2. QED
        BY <2>1, <3>1
    <2>3. lanePort' \in 0..generation' /\ ports' \subseteq 1..generation'
            /\ errors' \subseteq 1..generation'
      <3>1. /\ generation' = generation + 1 /\ UNCHANGED <<lanePort, ports, errors>>
            /\ lanePort \in 0..generation /\ ports \subseteq 1..generation
            /\ errors \subseteq 1..generation
        BY <1>0, <1>4, SpawnsDoes
      <3>2. QED
        BY <2>1, <3>1
    <2>4. lent' \subseteq Ids'
      BY <1>0, <1>4, SpawnsDoes
    <2>5. QED
      BY <1>4, <2>2, <2>3, <2>4, SpawnsDoes
  <1>5. CASE ProcStep
    <2>1. /\ UNCHANGED <<generation, scheduled, timers, turn, lanePort, ports, lent, armed>>
          /\ \/ errors' = errors
             \/ proc["worker"] # "none" /\ errors' = errors \cup {generation}
      BY <1>5, ProcsLeaveFunnel
      DEF ProcStep, WorkerBoots, LaneBoots, WorkerThrows, LaneThrows, FailsToBoot, StartsJob,
          FreesReply, AnswersJob, pageVars, funnelVars
    <2>2. errors' \subseteq 1..generation
      <3>1. generation \in Nat /\ errors \subseteq 1..generation
        BY <1>0
      <3>2. proc["worker"] # "none" => generation # 0
        BY <1>0 DEF LossIsAnswered
      <3>3. proc["worker"] # "none" => generation \in 1..generation
        BY <3>1, <3>2
      <3>4. errors' = errors \/ (proc["worker"] # "none" /\ errors' = errors \cup {generation})
        BY <2>1
      <3>5. QED
        BY <3>1, <3>3, <3>4
    <2> HIDE DEF Ids
    <2>3. QED
      BY <1>0, <2>1, <2>2
  <1>6. ASSUME NEW g \in Generations, OnError(g) PROVE PageTyped'
    <2>1. /\ UNCHANGED <<generation, scheduled, timers, lanePort, ports, lent, armed>>
          /\ errors' \subseteq errors
          /\ turn' \in {"free", "abandonWorker", "abandonLane", "sweep"}
      BY <1>0, <1>6 DEF OnError, funnelVars
    <2> HIDE DEF Ids
    <2>2. QED
      BY <1>0, <2>1
  <1>7. ASSUME NEW n \in timers, FlushTimer(n) PROVE PageTyped'
    <2>1. armed' = armed
      BY <1>7 DEF FlushTimer, FlushExpired, funnelVars
    <2>2. QED
      BY <1>0, <1>1, <1>7, <2>1 DEF FlushTimer, procVars
  <1>8. ASSUME NEW g \in Generations, OnHello(g) PROVE PageTyped'
    <2>1. /\ UNCHANGED <<generation, scheduled, timers, lanePort, lent, errors, turn, armed>>
          /\ g = generation /\ g \in 1..generation
          /\ ports' \subseteq ports \cup {g}
      BY <1>0, <1>8 DEF OnHello, SetWorker, Generations
    <2> HIDE DEF Ids
    <2>2. QED
      BY <1>0, <2>1
  <1>9. ASSUME NEW g \in Generations, OnUseless(g) PROVE PageTyped'
    BY <1>0, <1>1, <1>9 DEF OnUseless, funnelVars
  <1>10. ASSUME NEW p \in Processes, NEW g \in Generations,
                OnLaneHello(g) \/ OnLaneLost(p, g) \/ OnDone(p, g) \/ OnRelease(p, g)
                  \/ OnStale(p, g)
         PROVE  PageTyped'
    <2>1. lent' \subseteq lent
      BY <1>10 DEF OnLaneHello, OnLaneLost, LaneLoanKept, OnDone, OnRelease, OnStale, pageVars
    <2>2. lanePort' \in 0..generation
      BY <1>0, <1>10 DEF OnLaneHello, OnLaneLost, OnDone, OnRelease, OnStale, pageVars
    <2> HIDE DEF Ids
    <2>3. QED
      BY <1>0, <1>10, <2>1, <2>2, MessagesFunnel
  <1>11. QED
    BY PortCases, <1>2, <1>3, <1>4, <1>5, <1>6, <1>7, <1>8, <1>9, <1>10 DEF Processes

LEMMA SilentStep == ASSUME PortInv, PortNext PROVE GoneIsSilent'
  <1>0. GoneIsSilent /\ ProcTyped /\ LossIsAnswered /\ SendsOwned
    BY DEF PortInv, FunnelInv, Owned
  <1> USE DEF GoneIsSilent
  <1>1. ASSUME UNCHANGED <<proc, busy, owed>>,
               \A p \in Processes : inbox[p] = <<>> /\ proc[p] = "none" => inbox'[p] = <<>>,
               \A g \in Generations : outbox["worker"][g] = <<>> => outbox'["worker"][g] = <<>>
        PROVE  GoneIsSilent'
    BY <1>0, <1>1
  <1>2. CASE Serves
    <2>1. CASE PostJob
      <3>1. PICK s \in sending :
              inbox' = [p \in Processes |-> IF p \in ReachedBy(s.sink)
                                            THEN Append(inbox[p], Msg("job", s.id)) ELSE inbox[p]]
        BY <2>1 DEF PostJob
      <3>2. turn = "free"
        BY <1>0 DEF LossIsAnswered, Idle
      <3>3. \A p \in ReachedBy(s.sink) : proc[p] # "none"
        BY <1>0, <3>2 DEF ReachedBy, LossIsAnswered, SendsOwned
      <3>4. QED
        BY <1>1, <1>2, <3>1, <3>3, ServesFunnel
    <2>2. CASE UNCHANGED inbox
      BY <1>1, <1>2, <2>2, ServesFunnel
    <2>3. QED
      BY <1>2, <2>1, <2>2
      DEF Serves, PageCalls, PageHandsOver, PageRunsHere, PostRefused, Clock, procVars
  <1>3. CASE LoseWorker \/ LoseLane \/ Sweep
    BY <1>1, <1>3, LosesFunnel DEF procVars
  <1>4. CASE Spawns
    <2>1. proc \in [Processes -> {"none", "boot", "ready", "failed"}] /\ "worker" \in Processes
      BY <1>0 DEF ProcTyped, Processes
    <2>2. /\ UNCHANGED <<inbox, outbox, busy, owed>> /\ proc["worker"] = "none"
          /\ proc' = [proc EXCEPT !["worker"] = "boot"] \/ proc' = proc
      BY <1>4, SpawnsDoes
    <2>3. CASE proc' = proc
      BY <1>1, <2>2, <2>3
    <2>4. CASE proc' = [proc EXCEPT !["worker"] = "boot"]
      <3>1. /\ proc'["worker"] = "boot"
            /\ \A p \in Processes : proc'[p] = "none" => proc[p] = "none"
            /\ proc'["lane"] = proc["lane"] /\ proc["lane"] = "none"
        BY <1>0, <2>1, <2>2, <2>4 DEF Processes
      <3>2. QED
        BY <1>0, <2>2, <3>1
    <2>5. QED
      BY <2>2, <2>3, <2>4
  <1>5. CASE ProcStep
    <2>1. CASE WorkerBoots
      BY <1>0, <2>1 DEF WorkerBoots, ProcTyped, Processes
    <2>2. CASE LaneBoots
      BY <1>0, <2>2 DEF LaneBoots, Says, ProcTyped, Processes
    <2>3. ASSUME NEW p \in Processes, FailsToBoot(p) PROVE GoneIsSilent'
      BY <1>0, <2>3 DEF FailsToBoot, Says, ProcTyped, Processes
    <2>4. ASSUME NEW p \in Processes, StartsJob(p) PROVE GoneIsSilent'
      BY <1>0, <2>4 DEF StartsJob, Says, ProcTyped, Processes
    <2>5. ASSUME NEW p \in Processes, FreesReply(p) PROVE GoneIsSilent'
      BY <1>0, <2>5 DEF FreesReply, ProcTyped, Processes
    <2>6. ASSUME NEW p \in Processes, AnswersJob(p) PROVE GoneIsSilent'
      BY <1>0, <2>6 DEF AnswersJob, Says, ProcTyped, Processes
    <2>7. CASE WorkerThrows
      BY <1>0, <2>7 DEF WorkerThrows, ProcTyped, Processes
    <2>8. CASE LaneThrows
      BY <1>0, <2>8 DEF LaneThrows, Says, ProcTyped, Processes
    <2>9. QED
      BY <1>5, <2>1, <2>2, <2>3, <2>4, <2>5, <2>6, <2>7, <2>8 DEF ProcStep
  <1>6. ASSUME NEW g \in Generations, OnError(g) \/ OnUseless(g) PROVE GoneIsSilent'
    <2>1. CASE Terminate
      BY <1>0, <2>1 DEF Terminate, ProcTyped, Processes
    <2>2. CASE UNCHANGED <<proc, inbox, outbox, busy, owed>>
      BY <1>1, <2>2
    <2>3. QED
      BY <1>6, <2>1, <2>2 DEF OnError, OnUseless
  <1>7. ASSUME NEW n \in timers, FlushTimer(n) PROVE GoneIsSilent'
    BY <1>1, <1>7 DEF FlushTimer, procVars
  <1>8. ASSUME NEW g \in Generations, OnHello(g) PROVE GoneIsSilent'
    <2>1. \A h \in Generations : outbox["worker"][h] = <<>> => outbox'["worker"][h] = <<>>
      BY <1>0, <1>8, Taken DEF OnHello, Processes
    <2>2. QED
      BY <1>1, <1>8, <2>1 DEF OnHello
  <1>9. ASSUME NEW p \in Processes, NEW g \in Generations,
               OnLaneHello(g) \/ OnLaneLost(p, g) \/ OnDone(p, g) \/ OnRelease(p, g)
                 \/ OnStale(p, g)
        PROVE  GoneIsSilent'
    <2>1. Takes(p, g) \/ Takes("lane", g)
      BY <1>9 DEF OnLaneHello, OnLaneLost, OnDone, OnRelease, OnStale
    <2>2. \A h \in Generations : outbox["worker"][h] = <<>> => outbox'["worker"][h] = <<>>
      BY <1>0, <2>1, Taken DEF Processes
    <2>3. \A q \in Processes : inbox[q] = <<>> /\ proc[q] = "none" => inbox'[q] = <<>>
      <3>1. CASE OnDone(p, g)
        <4>1. \/ inbox' = inbox
              \/ proc[p] # "none" /\ \E m : inbox' = [inbox EXCEPT ![p] = Append(@, m)]
          BY <3>1 DEF OnDone, ReleasesReply
        <4>2. QED
          BY <1>0, <4>1 DEF ProcTyped
      <3>2. CASE UNCHANGED inbox
        BY <3>2
      <3>3. QED
        BY <1>9, <3>1, <3>2 DEF OnLaneHello, OnLaneLost, OnRelease, OnStale
    <2>4. QED
      BY <1>1, <1>9, <2>2, <2>3, MessagesFunnel
  <1>10. QED
    BY PortCases, <1>2, <1>3, <1>4, <1>5, <1>6, <1>7, <1>8, <1>9 DEF Processes

LEMMA ProcTypedStep ==
    ASSUME PortInv, PortNext, Ids \subseteq Ids'
    PROVE  ProcTyped'
  <1>0. ProcTyped /\ TypeOK /\ PageTyped
    BY DEF PortInv, FunnelInv
  <1>g. /\ Seq(Posts(Ids)) \subseteq Seq(Posts(Ids'))
        /\ Seq(Messages(Ids)) \subseteq Seq(Messages(Ids'))
    BY MessagesGrow
  <1>i. NoId \in Ids /\ Ids \subseteq Nat
    BY <1>0 DEF Ids, NoId, TypeOK
  <1> DEFINE Boxes == [Processes -> Seq(Posts(Ids))]
             Sayings == [Processes -> [Generations -> Seq(Messages(Ids))]]
  <1>1. ASSUME proc' \in [Processes -> {"none", "boot", "ready", "failed"}],
               inbox' \in Boxes, outbox' \in Sayings, busy' \in [Processes -> Ids],
               owed' \in [Processes -> SUBSET Nat]
        PROVE  ProcTyped'
    <2>1. inbox' \in [Processes -> Seq(Posts(Ids'))]
      BY <1>1, <1>g
    <2>2. outbox' \in [Processes -> [Generations -> Seq(Messages(Ids'))]]
      BY <1>1, <1>g
    <2> HIDE DEF Ids
    <2>3. busy' \in [Processes -> Ids']
      BY <1>1
    <2>4. QED
      BY <1>1, <2>1, <2>2, <2>3 DEF ProcTyped
  <1>t. /\ proc \in [Processes -> {"none", "boot", "ready", "failed"}]
        /\ inbox \in Boxes /\ outbox \in Sayings /\ busy \in [Processes -> Ids]
        /\ owed \in [Processes -> SUBSET Nat]
    BY <1>0 DEF ProcTyped
  <1> HIDE DEF Boxes, Sayings
  <1>2. CASE Serves
    <2>1. inbox' \in Boxes
      <3>1. CASE PostJob
        <4>1. PICK s \in sending :
                inbox' = [p \in Processes |-> IF p \in ReachedBy(s.sink)
                                              THEN Append(inbox[p], Msg("job", s.id)) ELSE inbox[p]]
          BY <3>1 DEF PostJob
        <4>2. s.id \in Ids
          BY <1>0 DEF TypeOK, Entry, Ids
        <4>3. Msg("job", s.id) \in Posts(Ids)
          BY <4>2 DEF Msg, Posts
        <4>4. \A q \in Seq(Posts(Ids)) : Append(q, Msg("job", s.id)) \in Seq(Posts(Ids))
          BY <4>3
        <4>5. QED
          BY <1>t, <4>1, <4>4 DEF Boxes
      <3>2. CASE UNCHANGED inbox
        BY <1>t, <3>2
      <3>3. QED
        BY <1>2, <3>1, <3>2
        DEF Serves, PageCalls, PageHandsOver, PageRunsHere, PostRefused, Clock, procVars
    <2>2. QED
      BY <1>1, <1>2, <1>t, <2>1, ServesFunnel
  <1>3. CASE LoseWorker \/ LoseLane \/ Sweep
    BY <1>1, <1>3, <1>t, LosesFunnel DEF procVars
  <1>4. CASE Spawns
    <2>1. proc' \in [Processes -> {"none", "boot", "ready", "failed"}]
      BY <1>4, <1>t, SpawnsDoes
    <2>2. QED
      BY <1>1, <1>4, <1>t, <2>1, SpawnsDoes
  <1>5. CASE ProcStep
    <2>w. "worker" \in Processes /\ "lane" \in Processes
      BY DEF Processes
    <2>s. ASSUME NEW p \in Processes, NEW m \in Messages(Ids), Says(p, m)
          PROVE  outbox' \in Sayings
      BY <1>0, <2>s, Said DEF Sayings
    <2>q. ASSUME NEW p \in Processes, inbox[p] # <<>>
          PROVE  Tail(inbox[p]) \in Seq(Posts(Ids)) /\ Head(inbox[p]).id \in Ids
      <3>1. inbox[p] \in Seq(Posts(Ids))
        BY <1>t DEF Boxes
      <3>2. Tail(inbox[p]) \in Seq(Posts(Ids)) /\ Head(inbox[p]) \in Posts(Ids)
        BY <2>q, <3>1
      <3>3. QED
        BY <3>2 DEF Posts
    <2>1. CASE WorkerBoots
      <3>1. PICK same \in BOOLEAN, withLane \in BOOLEAN :
              /\ Says("worker", Hello(same, withLane))
              /\ proc' = [worker |-> "ready", lane |-> IF withLane THEN "boot" ELSE "none"]
        BY <2>1 DEF WorkerBoots
      <3>2. Hello(same, withLane) \in Messages(Ids)
        BY DEF Hello, Messages
      <3>3. proc' \in [Processes -> {"none", "boot", "ready", "failed"}]
        BY <3>1 DEF Processes
      <3>4. QED
        BY <1>1, <1>t, <2>1, <2>s, <2>w, <3>1, <3>2, <3>3 DEF WorkerBoots
    <2>2. CASE LaneBoots
      <3>1. [kind |-> "hello"] \in Messages(Ids)
        BY DEF Messages
      <3>2. QED
        BY <1>1, <1>t, <2>2, <2>s, <2>w, <3>1 DEF LaneBoots
    <2>3. ASSUME NEW p \in Processes, FailsToBoot(p) PROVE ProcTyped'
      <3>1. [kind |-> "fatal"] \in Messages(Ids)
        BY DEF Messages
      <3>2. QED
        BY <1>1, <1>t, <2>3, <2>s, <3>1 DEF FailsToBoot
    <2>4. ASSUME NEW p \in Processes, StartsJob(p) PROVE ProcTyped'
      <3>1. Head(inbox[p]).id \in Ids /\ Tail(inbox[p]) \in Seq(Posts(Ids))
        BY <2>4, <2>q DEF StartsJob
      <3>2. Msg("release", Head(inbox[p]).id) \in Messages(Ids)
        BY <3>1 DEF Msg, Messages
      <3>3. outbox' \in Sayings
        BY <1>t, <2>4, <2>s, <3>2 DEF StartsJob
      <3>4. inbox' \in Boxes /\ busy' \in [Processes -> Ids]
        BY <1>t, <2>4, <3>1 DEF StartsJob, Boxes
      <3>5. QED
        BY <1>1, <1>t, <2>4, <3>3, <3>4 DEF StartsJob
    <2>5. ASSUME NEW p \in Processes, FreesReply(p) PROVE ProcTyped'
      <3>1. Tail(inbox[p]) \in Seq(Posts(Ids))
        BY <2>5, <2>q DEF FreesReply
      <3>2. inbox' \in Boxes /\ owed' \in [Processes -> SUBSET Nat]
        BY <1>t, <2>5, <3>1 DEF FreesReply, Boxes
      <3>3. QED
        BY <1>1, <1>t, <2>5, <3>2 DEF FreesReply
    <2>6. ASSUME NEW p \in Processes, AnswersJob(p) PROVE ProcTyped'
      <3>1. PICK o \in Outcomes :
              /\ Says(p, Done(busy[p], o))
              /\ owed' = [owed EXCEPT ![p] = IF o = "value" THEN @ \cup Loans({busy[p]}) ELSE @]
        BY <2>6 DEF AnswersJob
      <3>2. busy[p] \in Ids
        BY <1>t
      <3>3. Done(busy[p], o) \in Messages(Ids)
        BY <3>2 DEF Done, Messages
      <3>4. owed' \in [Processes -> SUBSET Nat]
        BY <1>i, <1>t, <3>1, <3>2 DEF Loans
      <3>5. busy' \in [Processes -> Ids]
        BY <1>i, <1>t, <2>6 DEF AnswersJob
      <3>6. QED
        BY <1>1, <1>t, <2>6, <2>s, <3>1, <3>3, <3>4, <3>5 DEF AnswersJob
    <2>7. CASE WorkerThrows
      BY <1>1, <1>i, <1>t, <2>7 DEF WorkerThrows
    <2>8. CASE LaneThrows
      <3>1. [kind |-> "laneLost"] \in Messages(Ids)
        BY DEF Messages
      <3>2. QED
        BY <1>1, <1>i, <1>t, <2>8, <2>s, <2>w, <3>1 DEF LaneThrows
    <2>9. QED
      BY <1>5, <2>1, <2>2, <2>3, <2>4, <2>5, <2>6, <2>7, <2>8 DEF ProcStep
  <1>6. ASSUME NEW g \in Generations, OnError(g) \/ OnUseless(g) PROVE ProcTyped'
    <2>1. CASE Terminate
      <3>1. <<>> \in Seq(Posts(Ids)) /\ <<>> \in Seq(Messages(Ids))
        OBVIOUS
      <3>2. inbox' \in Boxes /\ outbox' \in Sayings
        BY <1>t, <2>1, <3>1 DEF Terminate, Boxes, Sayings
      <3>3. QED
        BY <1>1, <1>i, <2>1, <3>2 DEF Terminate
    <2>2. CASE UNCHANGED <<proc, inbox, outbox, busy, owed>>
      BY <1>1, <1>t, <2>2
    <2>3. QED
      BY <1>6, <2>1, <2>2 DEF OnError, OnUseless
  <1>7. ASSUME NEW n \in timers, FlushTimer(n) PROVE ProcTyped'
    BY <1>1, <1>7, <1>t DEF FlushTimer, procVars
  <1>8. ASSUME NEW g \in Generations, OnHello(g) PROVE ProcTyped'
    <2>1. outbox' \in Sayings
      BY <1>0, <1>8, Taken DEF OnHello, Processes, Sayings
    <2>2. QED
      BY <1>1, <1>8, <1>t, <2>1 DEF OnHello
  <1>9. ASSUME NEW p \in Processes, NEW g \in Generations,
               OnLaneHello(g) \/ OnLaneLost(p, g) \/ OnDone(p, g) \/ OnRelease(p, g)
                 \/ OnStale(p, g)
        PROVE  ProcTyped'
    <2>1. Takes(p, g) \/ Takes("lane", g)
      BY <1>9 DEF OnLaneHello, OnLaneLost, OnDone, OnRelease, OnStale
    <2>2. outbox' \in Sayings
      BY <1>0, <2>1, Taken DEF Processes, Sayings
    <2>3. inbox' \in Boxes
      <3>1. CASE OnDone(p, g)
        <4> DEFINE m == Head(outbox[p][g])
        <4>1. m.id \in Ids
          BY <1>0, <3>1, Taken, Spoken DEF OnDone, Arrived
        <4>2. \/ inbox' = inbox
              \/ inbox' = [inbox EXCEPT ![p] = Append(@, Msg("release", m.id))]
          BY <3>1 DEF OnDone
        <4> HIDE DEF m
        <4>3. Msg("release", m.id) \in Posts(Ids)
          BY <4>1 DEF Msg, Posts
        <4>4. \A q \in Seq(Posts(Ids)) : Append(q, Msg("release", m.id)) \in Seq(Posts(Ids))
          BY <4>3
        <4>5. QED
          BY <1>t, <4>2, <4>4 DEF Boxes
      <3>2. CASE UNCHANGED inbox
        BY <1>t, <3>2
      <3>3. QED
        BY <1>9, <3>1, <3>2 DEF OnLaneHello, OnLaneLost, OnRelease, OnStale
    <2>4. QED
      BY <1>1, <1>9, <1>t, <2>2, <2>3, MessagesFunnel
  <1>10. QED
    BY PortCases, <1>2, <1>3, <1>4, <1>5, <1>6, <1>7, <1>8, <1>9 DEF Processes

-----------------------------------------------------------------------------
LEMMA PortInvInit == PortInit => PortInv
  <1> SUFFICES ASSUME PortInit PROVE PortInv
    OBVIOUS
  <1>1. FunnelInv
    BY InvInit DEF PortInit
  <1>2. /\ nextId = 1 /\ armed = 0 /\ until = NoWait /\ worker = NoSink
    BY PortAssumption DEF PortInit, FunnelInit
  <1>3. ProcTyped
    <2>1. 0 \in Ids /\ <<>> \in Seq(Posts(Ids)) /\ <<>> \in Seq(Messages(Ids))
      BY <1>2 DEF Ids
    <2>2. QED
      BY <2>1 DEF PortInit, ProcTyped, NoId
  <1>4. PageTyped
    <2>1. /\ generation = 0 /\ rung = 0 /\ scheduled = FALSE /\ timers = {} /\ turn = "free"
          /\ lanePort = 0 /\ ports = {} /\ lent = {} /\ errors = {} /\ GenBound \in Nat
      BY PortAssumption DEF PortInit
    <2>2. 0 \in 0..GenBound /\ 0 \in 0..0
      BY <2>1
    <2>3. QED
      BY <2>1, <2>2 DEF PageTyped
  <1>5. GoneIsSilent
    BY DEF PortInit, GoneIsSilent, NoId, Processes
  <1>6. LossIsAnswered /\ OneRungPerWorker /\ WaitIsTimed
    BY <1>2 DEF PortInit, LossIsAnswered, OneRungPerWorker, WaitIsTimed, Processes
  <1>7. QED
    BY <1>1, <1>3, <1>4, <1>5, <1>6 DEF PortInv

LEMMA PortInvStep == PortInv /\ [PortNext]_vars => PortInv'
  <1>1. ASSUME PortInv, PortNext PROVE PortInv'
    <2>1. TypeOK /\ ProcTyped /\ FunnelInv
      BY <1>1 DEF PortInv, FunnelInv
    <2>2. [FunnelNext]_funnelVars
      BY <1>1, <2>1, PortDrives
    <2>3. FunnelInv' /\ Ids \subseteq Ids'
      BY <2>1, <2>2, InvStep, IdsGrow
    <2>4. OneRungPerWorker' /\ rung' \in 0..generation'
      BY <1>1, RungStep
    <2>5. PageTyped' /\ ProcTyped'
      BY <1>1, <2>3, <2>4, PageTypedStep, ProcTypedStep
    <2>6. QED
      BY <1>1, <2>3, <2>4, <2>5, TimedStep, LossStep, SilentStep DEF PortInv
  <1>2. ASSUME PortInv, UNCHANGED vars PROVE PortInv'
    <2>1. FunnelInv'
      BY <1>2, InvStep DEF PortInv, vars
    <2>2. UNCHANGED <<until, waiting, worker, todo, sending, here, armed, nextId>>
      BY <1>2 DEF vars, funnelVars
    <2>3. UNCHANGED <<pageVars, procVars>>
      BY <1>2 DEF vars
    <2>4. UNCHANGED <<generation, rung, scheduled, timers, turn, lanePort, ports, lent>>
          /\ UNCHANGED <<proc, inbox, outbox, busy, owed, errors>>
      BY <2>3 DEF pageVars, procVars
    <2>5. PageTyped' /\ ProcTyped'
      BY <1>2, <2>2, <2>4 DEF PortInv, PageTyped, ProcTyped, Ids
    <2>6. GoneIsSilent' /\ LossIsAnswered' /\ OneRungPerWorker' /\ WaitIsTimed'
      BY <1>2, <2>2, <2>4
      DEF PortInv, GoneIsSilent, LossIsAnswered, OneRungPerWorker, WaitIsTimed, Idle
    <2>7. QED
      BY <2>1, <2>5, <2>6 DEF PortInv
  <1>3. QED
    BY <1>1, <1>2

LEMMA PortInvariance == PortSpec => []PortInv
  BY PortInvInit, PortInvStep, PTL DEF PortSpec

(* Whatever the page, its workers and its lanes do, the funnel sees only calls of its   *)
(* own: every theorem about the funnel holds of the browser, with replies that are late, *)
(* doubled by a loss or addressed to a worker long replaced.                             *)
THEOREM DrivesTheFunnel == PortSpec => FunnelSpec
  <1>1. PortInit => FunnelInit
    BY DEF PortInit
  <1>2. PortInv /\ [PortNext]_vars => [FunnelNext]_funnelVars
    BY PortDrives DEF PortInv, FunnelInv
  <1>3. QED
    BY <1>1, <1>2, PortInvariance, PTL DEF PortSpec, FunnelSpec

(* Types, with the bound of one rung of the ladder per worker. *)
THEOREM PortTyping == PortSpec => []PortTypeOK
  <1>1. PortInv => PortTypeOK
    <2> SUFFICES ASSUME PortInv PROVE PortTypeOK
      OBVIOUS
    <2>1. TypeOK /\ PageTyped /\ ProcTyped /\ GoneIsSilent
      BY DEF PortInv, FunnelInv
    <2>2. (\A l \in lent : l < nextId) /\ \A p \in Processes : busy[p] \in 0..(nextId - 1)
      BY <2>1 DEF PageTyped, ProcTyped, Ids, TypeOK
    <2>3. QED
      BY <2>1, <2>2 DEF PageTyped, ProcTyped, GoneIsSilent, PortTypeOK
  <1>2. QED
    BY <1>1, PortInvariance, PTL

(* Between two handlers there is a worker or a respawn on its timer, never both, and a  *)
(* held job's window has its timer, through any number of losses, boots and windows.    *)
THEOREM SomethingComes == PortSpec => []SomethingWillCome
  <1>1. PortInv => SomethingWillCome
    BY DEF PortInv, FunnelInv, Owned, WaitIsArmed, LossIsAnswered, WaitIsTimed, SomethingWillCome
  <1>2. QED
    BY <1>1, PortInvariance, PTL

-----------------------------------------------------------------------------
(* The page's loans.  A loan is followed by the one message that stands for it: the job *)
(* on its way to a process, then the process's RELEASE on its way back.                 *)

(* The ids that messages of one kind in a queue carry, and that none is there twice. *)
IdsIn(kind, q) == {q[i].id : i \in {k \in 1..Len(q) : q[k].kind = kind}}

Once(kind, q) ==
    \A i, k \in 1..Len(q) :
        q[i].kind = kind /\ q[k].kind = kind /\ q[i].id = q[k].id => i = k

(* A send under way has an id nothing else carries; only a batch goes to the lane. *)
SendsAreFresh ==
    /\ \A s, t \in sending : s.id = t.id => s = t
    /\ \A s \in sending :
        /\ s.id # NoId
        /\ s.sink # worker => s.job \in TileJobs /\ handle[s.job] = s.id
        /\ \A p \in Processes :
            /\ s.id \notin JobsTo(p)
            /\ \A g \in Generations : s.id \notin ReleasesFrom(p, g)
    /\ \A j \in Jobs : fate[j] = "new" => handle[j] = 0

(* A worker is alone in its generation, and starts with nothing said. *)
OldAreSilent ==
    /\ \A g \in Generations :
        /\ g # generation => outbox["worker"][g] = <<>>
        /\ g > generation => outbox["lane"][g] = <<>>
    /\ proc["worker"] = "boot" => outbox["lane"][generation] = <<>>

(* A request is on its way to one process, or its RELEASE on the way back: one message *)
(* in all.                                                                            *)
OneMessage ==
    /\ \A p \in Processes : Once("job", inbox[p]) /\ Once("release", outbox[p][generation])
    /\ \A p, q \in Processes :
        /\ JobsTo(p) \cap ReleasesFrom(q, generation) = {}
        /\ p # q => JobsTo(p) \cap JobsTo(q) = {}
        /\ p # q => ReleasesFrom(p, generation) \cap ReleasesFrom(q, generation) = {}

ReadIsLent ==
    \A p \in Processes :
        proc[p] # "none" => /\ Loans(JobsTo(p)) \subseteq lent
                            /\ ReleasesFrom(p, generation) \subseteq lent

LentIsRead ==
    turn = "free" =>
        lent \ {handle[t] : t \in TileJobs}
            \subseteq JobsTo("worker") \cup UNION {ReleasesFrom("worker", g) : g \in Generations}

CopiesLendNothing ==
    /\ NoId \notin lent
    /\ ~CanLend => lent = {} /\ \A p \in Processes, g \in Generations : ReleasesFrom(p, g) = {}

LEMMA QueueIds ==
    /\ \A p : JobsTo(p) = IdsIn("job", inbox[p])
    /\ \A p : JobsTo(p)' = IdsIn("job", inbox'[p])
    /\ \A p, g : ReleasesFrom(p, g) = IdsIn("release", outbox[p][g])
    /\ \A p, g : ReleasesFrom(p, g)' = IdsIn("release", outbox'[p][g])
  BY DEF JobsTo, ReleasesFrom, MessagesOf, IdsIn

LEMMA IdsAre ==
    ASSUME NEW kind, NEW q
    PROVE  \A x : x \in IdsIn(kind, q) <=> \E i \in 1..Len(q) : q[i].kind = kind /\ q[i].id = x
  BY DEF IdsIn

LEMMA IdsEmpty == \A kind : IdsIn(kind, <<>>) = {} /\ Once(kind, <<>>)
  BY DEF IdsIn, Once

LEMMA IdsAppend ==
    ASSUME NEW S, NEW q \in Seq(S), NEW m \in S, NEW kind
    PROVE  /\ m.kind # kind => IdsIn(kind, Append(q, m)) = IdsIn(kind, q)
           /\ m.kind = kind => IdsIn(kind, Append(q, m)) = IdsIn(kind, q) \cup {m.id}
           /\ Once(kind, q) /\ (m.kind # kind \/ m.id \notin IdsIn(kind, q))
                => Once(kind, Append(q, m))
  <1> DEFINE r == Append(q, m)
  <1>1. /\ Len(r) = Len(q) + 1 /\ Len(q) \in Nat
        /\ \A i \in 1..Len(q) : r[i] = q[i]
        /\ r[Len(q) + 1] = m
    OBVIOUS
  <1> HIDE DEF r
  <1>2. \A i : i \in 1..Len(r) <=> i \in 1..Len(q) \/ i = Len(q) + 1
    BY <1>1
  <1>3. \A x : x \in IdsIn(kind, r) <=> x \in IdsIn(kind, q) \/ (m.kind = kind /\ m.id = x)
    BY <1>1, <1>2, IdsAre
  <1>4. Once(kind, q) /\ (m.kind # kind \/ m.id \notin IdsIn(kind, q)) => Once(kind, r)
    BY <1>1, <1>2, IdsAre DEF Once
  <1>5. QED
    BY <1>3, <1>4 DEF r

LEMMA IdsTail ==
    ASSUME NEW S, NEW q \in Seq(S), q # <<>>, NEW kind
    PROVE  /\ Head(q).kind # kind => IdsIn(kind, Tail(q)) = IdsIn(kind, q)
           /\ Head(q).kind = kind =>
                IdsIn(kind, q) = IdsIn(kind, Tail(q)) \cup {Head(q).id}
           /\ Once(kind, q) =>
                /\ Once(kind, Tail(q))
                /\ Head(q).kind = kind => Head(q).id \notin IdsIn(kind, Tail(q))
           /\ IdsIn(kind, Tail(q)) \subseteq IdsIn(kind, q)
  <1> DEFINE r == Tail(q)
             m == Head(q)
  <1>1. /\ Len(r) = Len(q) - 1 /\ Len(q) \in Nat /\ Len(q) # 0
        /\ \A i \in 1..Len(r) : r[i] = q[i + 1]
        /\ m = q[1]
    OBVIOUS
  <1> HIDE DEF r, m
  <1>2. /\ 1 \in 1..Len(q)
        /\ \A i \in 1..Len(r) : i + 1 \in 1..Len(q) /\ i + 1 # 1
        /\ \A i \in 1..Len(q) : i = 1 \/ (i - 1 \in 1..Len(r) /\ r[i - 1] = q[i])
    BY <1>1
  <1>3. \A x : x \in IdsIn(kind, q) <=> x \in IdsIn(kind, r) \/ (m.kind = kind /\ m.id = x)
    BY <1>1, <1>2, IdsAre
  <1>4. ASSUME Once(kind, q) PROVE Once(kind, r)
    <2>1. SUFFICES ASSUME NEW i \in 1..Len(r), NEW k \in 1..Len(r),
                          r[i].kind = kind, r[k].kind = kind, r[i].id = r[k].id
                   PROVE  i = k
      BY DEF Once
    <2>2. i + 1 = k + 1
      BY <1>1, <1>2, <1>4, <2>1 DEF Once
    <2>3. QED
      BY <2>2
  <1>5. ASSUME Once(kind, q), m.kind = kind, m.id \in IdsIn(kind, r) PROVE FALSE
    <2>1. PICK i \in 1..Len(r) : r[i].kind = kind /\ r[i].id = m.id
      BY <1>5, IdsAre
    <2>2. i + 1 = 1
      BY <1>1, <1>2, <1>5, <2>1 DEF Once
    <2>3. QED
      BY <1>2, <2>2
  <1>6. QED
    BY <1>3, <1>4, <1>5 DEF r, m

-----------------------------------------------------------------------------
(* A step that moves no loan's message; those of an older lane may be dropped. *)
Quiet ==
    /\ \A p \in Processes :
        /\ JobsTo(p)' = JobsTo(p)
        /\ Once("job", inbox[p]) => Once("job", inbox'[p])
    /\ \A p \in Processes, g \in Generations :
        /\ ReleasesFrom(p, g)' \subseteq ReleasesFrom(p, g)
        /\ g = generation =>
            /\ ReleasesFrom(p, g)' = ReleasesFrom(p, g)
            /\ Once("release", outbox[p][g]) => Once("release", outbox'[p][g])

LEMMA QuietSame == ASSUME UNCHANGED <<inbox, outbox>> PROVE Quiet
  BY QueueIds DEF Quiet

LEMMA SaidWhere ==
    ASSUME ProcTyped, NEW p \in Processes, NEW m, Says(p, m), generation \in Generations
    PROVE  \A q \in Processes, g \in Generations :
             outbox'[q][g] = IF q = p /\ g = generation
                             THEN Append(outbox[p][generation], m) ELSE outbox[q][g]
  <1> HIDE DEF Ids
  <1>1. QED
    BY DEF ProcTyped, Says

LEMMA SaidIds ==
    ASSUME ProcTyped, NEW p \in Processes, NEW m \in Messages(Ids), Says(p, m),
           generation \in Generations
    PROVE  \A q \in Processes, g \in Generations :
             \/ (q # p \/ g # generation) /\ outbox'[q][g] = outbox[q][g]
             \/ /\ q = p /\ g = generation
                /\ m.kind # "release" => ReleasesFrom(q, g)' = ReleasesFrom(q, g)
                /\ m.kind = "release" => ReleasesFrom(q, g)' = ReleasesFrom(q, g) \cup {m.id}
                /\ Once("release", outbox[q][g])
                      /\ (m.kind # "release" \/ m.id \notin ReleasesFrom(q, g))
                     => Once("release", outbox'[q][g])
  <1>1. outbox[p][generation] \in Seq(Messages(Ids))
    BY DEF ProcTyped
  <1>2. \A q \in Processes, g \in Generations :
             outbox'[q][g] = IF q = p /\ g = generation
                             THEN Append(outbox[p][generation], m) ELSE outbox[q][g]
    BY SaidWhere
  <1> DEFINE q1 == outbox[p][generation]
             S == Messages(Ids)
  <1>3. outbox'[p][generation] = Append(q1, m)
    BY <1>2
  <1>4. q1 \in Seq(S) /\ m \in S
    BY <1>1
  <1> HIDE DEF q1, S
  <1>5. /\ m.kind # "release" => IdsIn("release", Append(q1, m)) = IdsIn("release", q1)
        /\ m.kind = "release" =>
             IdsIn("release", Append(q1, m)) = IdsIn("release", q1) \cup {m.id}
        /\ Once("release", q1) /\ (m.kind # "release" \/ m.id \notin IdsIn("release", q1))
             => Once("release", Append(q1, m))
    BY <1>4, IdsAppend
  <1>6. ASSUME NEW q \in Processes, NEW g \in Generations, q = p, g = generation
        PROVE  /\ m.kind # "release" => ReleasesFrom(q, g)' = ReleasesFrom(q, g)
               /\ m.kind = "release" => ReleasesFrom(q, g)' = ReleasesFrom(q, g) \cup {m.id}
               /\ Once("release", outbox[q][g])
                      /\ (m.kind # "release" \/ m.id \notin ReleasesFrom(q, g))
                    => Once("release", outbox'[q][g])
    <2>1. /\ outbox[q][g] = q1 /\ outbox'[q][g] = Append(q1, m)
          /\ ReleasesFrom(q, g) = IdsIn("release", q1)
          /\ ReleasesFrom(q, g)' = IdsIn("release", Append(q1, m))
      BY <1>3, <1>6, QueueIds DEF q1
    <2>2. QED
      BY <1>5, <2>1
  <1>7. QED
    BY <1>2, <1>6

LEMMA QuietSay ==
    ASSUME ProcTyped, NEW p \in Processes, NEW m \in Messages(Ids), Says(p, m),
           generation \in Generations, m.kind # "release", UNCHANGED inbox
    PROVE  Quiet
  <1>1. \A q \in Processes : JobsTo(q)' = JobsTo(q)
    BY QueueIds
  <1>2. \A q \in Processes, g \in Generations :
          /\ ReleasesFrom(q, g)' = ReleasesFrom(q, g)
          /\ Once("release", outbox[q][g]) => Once("release", outbox'[q][g])
    BY SaidIds, QueueIds
  <1>3. QED
    BY <1>1, <1>2 DEF Quiet

LEMMA TakenIds ==
    ASSUME ProcTyped, NEW p \in Processes, NEW g \in Generations, Takes(p, g)
    PROVE  /\ \A q \in Processes, h \in Generations :
                (q # p \/ h # g) => outbox'[q][h] = outbox[q][h]
           /\ ReleasesFrom(p, g)' \subseteq ReleasesFrom(p, g)
           /\ Once("release", outbox[p][g]) => Once("release", outbox'[p][g])
           /\ Head(outbox[p][g]).kind # "release" => ReleasesFrom(p, g)' = ReleasesFrom(p, g)
           /\ Head(outbox[p][g]).kind = "release" =>
                /\ ReleasesFrom(p, g) = ReleasesFrom(p, g)' \cup {Head(outbox[p][g]).id}
                /\ Once("release", outbox[p][g])
                     => Head(outbox[p][g]).id \notin ReleasesFrom(p, g)'
  <1> HIDE DEF Ids, Messages
  <1>1. outbox[p][g] # <<>> /\ outbox[p][g] \in Seq(Messages(Ids))
    BY DEF ProcTyped, Takes
  <1>2. outbox' = [outbox EXCEPT ![p][g] = Tail(outbox[p][g])]
    BY DEF Takes
  <1>3. \A q \in Processes, h \in Generations :
          outbox'[q][h] = IF q = p /\ h = g THEN Tail(outbox[p][g]) ELSE outbox[q][h]
    BY <1>2 DEF ProcTyped
  <1>4. QED
    BY <1>1, <1>3, IdsTail, QueueIds

LEMMA QuietTake ==
    ASSUME ProcTyped, NEW p \in Processes, NEW g \in Generations, Takes(p, g),
           g = generation => Head(outbox[p][g]).kind # "release",
           \/ UNCHANGED inbox
           \/ \E i \in Ids : inbox' = [inbox EXCEPT ![p] = Append(@, Msg("release", i))]
    PROVE  Quiet
  <1>1. \A q \in Processes : /\ JobsTo(q)' = JobsTo(q)
                             /\ Once("job", inbox[q]) => Once("job", inbox'[q])
    <2>1. CASE UNCHANGED inbox
      BY <2>1, QueueIds
    <2>2. ASSUME NEW i \in Ids, inbox' = [inbox EXCEPT ![p] = Append(@, Msg("release", i))]
          PROVE  \A q \in Processes : /\ JobsTo(q)' = JobsTo(q)
                                      /\ Once("job", inbox[q]) => Once("job", inbox'[q])
      <3> DEFINE m == Msg("release", i)
      <3>1. m \in Posts(Ids) /\ m.kind # "job"
        BY DEF Msg, Posts
      <3> HIDE DEF m, Ids
      <3>2. \A q \in Processes : inbox[q] \in Seq(Posts(Ids))
                /\ inbox'[q] = IF q = p THEN Append(inbox[q], m) ELSE inbox[q]
        BY <2>2 DEF ProcTyped, m
      <3> HIDE DEF Posts
      <3>3. QED
        BY <3>1, <3>2, IdsAppend, QueueIds
    <2>3. QED
      BY <2>1, <2>2
  <1>2. \A q \in Processes, h \in Generations :
          /\ ReleasesFrom(q, h)' \subseteq ReleasesFrom(q, h)
          /\ Once("release", outbox[q][h]) => Once("release", outbox'[q][h])
          /\ h = generation => ReleasesFrom(q, h)' = ReleasesFrom(q, h)
    BY TakenIds, QueueIds
  <1>3. QED
    BY <1>1, <1>2 DEF Quiet

(* Which steps are quiet: all but a post, a start, a RELEASE and those that end or start *)
(* a worker.                                                                            *)
LEMMA QuietSteps ==
    ASSUME PortInv, PortNext,
           \/ Serves /\ ~PostJob
           \/ LoseWorker \/ LoseLane \/ Sweep
           \/ WorkerBoots \/ LaneBoots \/ WorkerThrows \/ LaneThrows
           \/ \E p \in Processes : FailsToBoot(p) \/ FreesReply(p) \/ AnswersJob(p)
           \/ \E n \in timers : FlushTimer(n)
           \/ \E g \in Generations : OnHello(g) \/ OnLaneHello(g)
           \/ \E p \in Processes, g \in Generations :
                 OnLaneLost(p, g) \/ OnDone(p, g) \/ OnStale(p, g)
    PROVE  Quiet
  <1>0. ProcTyped /\ PageTyped /\ GoneIsSilent /\ LossIsAnswered
    BY DEF PortInv
  <1>w. "worker" \in Processes /\ "lane" \in Processes
    BY DEF Processes
  <1>g. /\ (\E p \in Processes : proc[p] # "none") => generation \in Generations
        /\ \A p \in Processes : busy[p] # NoId => proc[p] # "none"
    BY <1>0 DEF PageTyped, GoneIsSilent, LossIsAnswered, Generations, Processes
  <1>1. CASE Serves /\ ~PostJob
    <2>1. UNCHANGED <<inbox, outbox>>
      BY <1>1 DEF Serves, PageCalls, PageHandsOver, PageRunsHere, PostRefused, Clock, procVars
    <2>2. QED
      BY <2>1, QuietSame
  <1>2. CASE LoseWorker \/ LoseLane \/ Sweep
    BY <1>2, LosesFunnel, QuietSame DEF procVars
  <1>3. CASE WorkerBoots
    <2>1. PICK same \in BOOLEAN, withLane \in BOOLEAN : Says("worker", Hello(same, withLane))
      BY <1>3 DEF WorkerBoots
    <2>2. Hello(same, withLane) \in Messages(Ids) /\ Hello(same, withLane).kind # "release"
      BY DEF Hello, Messages
    <2>3. generation \in Generations /\ UNCHANGED inbox
      BY <1>3, <1>g, <1>w DEF WorkerBoots
    <2>4. QED
      BY <1>0, <1>w, <2>1, <2>2, <2>3, QuietSay
  <1>4. CASE LaneBoots
    <2>1. [kind |-> "hello"] \in Messages(Ids) /\ [kind |-> "hello"].kind # "release"
      BY DEF Messages
    <2>2. generation \in Generations /\ UNCHANGED inbox /\ Says("lane", [kind |-> "hello"])
      BY <1>4, <1>g, <1>w DEF LaneBoots
    <2>3. QED
      BY <1>0, <1>w, <2>1, <2>2, QuietSay
  <1>5. CASE WorkerThrows
    BY <1>5, QuietSame DEF WorkerThrows
  <1>6. CASE LaneThrows
    <2>1. [kind |-> "laneLost"] \in Messages(Ids) /\ [kind |-> "laneLost"].kind # "release"
      BY DEF Messages
    <2>2. generation \in Generations /\ UNCHANGED inbox /\ Says("worker", [kind |-> "laneLost"])
      BY <1>6, <1>g, <1>w DEF LaneThrows
    <2>3. QED
      BY <1>0, <1>w, <2>1, <2>2, QuietSay
  <1>7. ASSUME NEW p \in Processes, FailsToBoot(p) PROVE Quiet
    <2>1. [kind |-> "fatal"] \in Messages(Ids) /\ [kind |-> "fatal"].kind # "release"
      BY DEF Messages
    <2>2. generation \in Generations /\ UNCHANGED inbox /\ Says(p, [kind |-> "fatal"])
      BY <1>7, <1>g DEF FailsToBoot
    <2>3. QED
      BY <1>0, <2>1, <2>2, QuietSay
  <1>8. ASSUME NEW p \in Processes, FreesReply(p) PROVE Quiet
    <2> HIDE DEF Ids, Posts
    <2>1. /\ inbox[p] # <<>> /\ inbox[p] \in Seq(Posts(Ids)) /\ Head(inbox[p]).kind = "release"
          /\ inbox' = [inbox EXCEPT ![p] = Tail(inbox[p])] /\ outbox' = outbox
      BY <1>0, <1>8 DEF FreesReply, ProcTyped
    <2>2. \A q \in Processes : inbox'[q] = IF q = p THEN Tail(inbox[p]) ELSE inbox[q]
      BY <1>0, <2>1 DEF ProcTyped
    <2>3. \A q \in Processes : /\ JobsTo(q)' = JobsTo(q)
                               /\ Once("job", inbox[q]) => Once("job", inbox'[q])
      BY <2>1, <2>2, IdsTail, QueueIds
    <2>4. QED
      BY <2>1, <2>3, QueueIds DEF Quiet
  <1>9. ASSUME NEW p \in Processes, AnswersJob(p) PROVE Quiet
    <2>1. PICK o \in Outcomes : Says(p, Done(busy[p], o))
      BY <1>9 DEF AnswersJob
    <2>2. busy[p] \in Ids
      BY <1>0 DEF ProcTyped
    <2>3. Done(busy[p], o) \in Messages(Ids) /\ Done(busy[p], o).kind # "release"
      BY <2>2 DEF Done, Messages
    <2>4. generation \in Generations /\ UNCHANGED inbox
      BY <1>9, <1>g DEF AnswersJob
    <2>5. QED
      BY <1>0, <2>1, <2>3, <2>4, QuietSay
  <1>10. CASE \E n \in timers : FlushTimer(n)
    BY <1>10, QuietSame DEF FlushTimer, procVars
  <1>11. ASSUME NEW g \in Generations, OnHello(g) PROVE Quiet
    BY <1>0, <1>w, <1>11, QuietTake DEF OnHello, Arrived
  <1>12. ASSUME NEW g \in Generations, OnLaneHello(g) PROVE Quiet
    BY <1>0, <1>w, <1>12, QuietTake DEF OnLaneHello, Arrived
  <1>13. ASSUME NEW p \in Processes, NEW g \in Generations, OnLaneLost(p, g) PROVE Quiet
    BY <1>0, <1>13, QuietTake DEF OnLaneLost, Arrived
  <1>14. ASSUME NEW p \in Processes, NEW g \in Generations, OnStale(p, g) PROVE Quiet
    BY <1>0, <1>14, QuietTake DEF OnStale
  <1>15. ASSUME NEW p \in Processes, NEW g \in Generations, OnDone(p, g) PROVE Quiet
    <2> DEFINE m == Head(outbox[p][g])
    <2>1. Takes(p, g) /\ m.kind = "done" /\ m.id \in Ids
      BY <1>0, <1>15, Taken, Spoken DEF OnDone, Arrived
    <2>2. \/ UNCHANGED inbox
          \/ inbox' = [inbox EXCEPT ![p] = Append(@, Msg("release", m.id))]
      BY <1>15 DEF OnDone
    <2> HIDE DEF Ids
    <2>3. QED
      BY <1>0, <2>1, <2>2, QuietTake
  <1>16. QED
    BY <1>1, <1>2, <1>3, <1>4, <1>5, <1>6, <1>7, <1>8, <1>9, <1>10, <1>11, <1>12, <1>13, <1>14,
       <1>15

-----------------------------------------------------------------------------
(* A caller's handle is set once, when its job is taken on. *)
LEMMA HandleMoves ==
    ASSUME TypeOK, Flat, FunnelNext
    PROVE  /\ \A j \in Jobs : handle'[j] = handle[j] \/ fate[j] = "new"
           /\ \A j \in Jobs : fate'[j] = "new" => fate[j] = "new" /\ handle'[j] = handle[j]
  <1>1. \A j \in Jobs : fate'[j] = "new" => fate[j] = "new"
    BY FateMoves DEF Moved, Settled
  <1>2. ASSUME NEW j \in Jobs, fate[j] = "new", fate'[j] # "new",
               handle' = [handle EXCEPT ![j] = nextId]
        PROVE  /\ \A k \in Jobs : handle'[k] = handle[k] \/ fate[k] = "new"
               /\ \A k \in Jobs : fate'[k] = "new" => handle'[k] = handle[k]
    BY <1>2 DEF TypeOK
  <1>3. ASSUME NEW j \in Jobs, Offload(j) PROVE fate'[j] # "new"
    <2>1. fate' = [fate EXCEPT ![j] = "owed"]
            \/ fate' = [fate EXCEPT ![j] = "owed", ![Head(waiting)] = "nothing"]
      BY <1>3 DEF Offload, Dispatch, WaitForSink
    <2>2. QED
      BY <2>1 DEF TypeOK
  <1>4. ASSUME NEW j \in Jobs, OffloadToLane(j) PROVE fate'[j] # "new"
    BY <1>4 DEF OffloadToLane, TypeOK
  <1>5. \/ handle' = handle
        \/ \E j \in Jobs : Offload(j) \/ OffloadToLane(j)
    <2>1. ASSUME \E j \in Jobs : RendersNothing(j) \/ Cancel(j) PROVE handle' = handle
      BY <2>1 DEF RendersNothing, Cancel
    <2>2. ASSUME \/ \E e \in pending, o \in Outcomes : Reply(e, o)
                 \/ \E j \in Jobs, o \in HereOutcomes : FinishHere(j, o)
                 \/ \E s \in sending : SendTaken(s) \/ SendRefused(s)
          PROVE  handle' = handle
      BY <2>2 DEF Reply, FinishHere, SendTaken, SendRefused
    <2>3. ASSUME HandOver \/ SetWorker \/ AbandonWorker \/ SetLane \/ AbandonLane \/ ExpectSink
                   \/ DeadlinePasses \/ FlushExpired
          PROVE  handle' = handle
      BY <2>3 DEF HandOver, SetWorker, AbandonWorker, SetLane, AbandonLane, ExpectSink,
                  DeadlinePasses, FlushExpired
    <2>4. QED
      BY NextCases, <2>1, <2>2, <2>3
  <1>6. ASSUME NEW j \in Jobs, Offload(j) \/ OffloadToLane(j)
        PROVE  fate[j] = "new" /\ handle' = [handle EXCEPT ![j] = nextId]
    BY <1>6 DEF Offload, OffloadToLane
  <1>7. QED
    BY <1>1, <1>2, <1>3, <1>4, <1>5, <1>6

LEMMA HandlesMove ==
    ASSUME PortInv, PortNext
    PROVE  /\ \A j \in Jobs : handle'[j] = handle[j] \/ fate[j] = "new"
           /\ \A j \in Jobs : fate'[j] = "new" => fate[j] = "new" /\ handle'[j] = handle[j]
  <1>1. TypeOK /\ Flat /\ ProcTyped
    BY DEF PortInv, FunnelInv
  <1>2. FunnelNext \/ UNCHANGED funnelVars
    BY <1>1, PortDrives
  <1>3. CASE UNCHANGED funnelVars
    BY <1>3 DEF funnelVars
  <1>4. QED
    BY <1>1, <1>2, <1>3, HandleMoves

(* The books of the page and of its processes agree. *)
Books ==
    /\ generation > 0 => OneMessage /\ ReadIsLent
    /\ LentIsRead
    /\ CopiesLendNothing

LoanInv == SendsAreFresh /\ OldAreSilent /\ Books

(* Named ids stay named. *)
LEMMA StillNamed ==
    ASSUME PortInv, SendsAreFresh, PortNext, NEW i, i # NoId, i \in {handle[t] : t \in TileJobs}
    PROVE  i \in {handle'[t] : t \in TileJobs}
  <1>1. PICK t \in TileJobs : i = handle[t]
    OBVIOUS
  <1>2. t \in Jobs /\ fate[t] # "new"
    BY <1>1, PortAssumption DEF SendsAreFresh, NoId
  <1>3. handle'[t] = handle[t]
    BY <1>2, HandlesMove
  <1>4. QED
    BY <1>1, <1>3

LEMMA QuietKeeps ==
    ASSUME PortInv, LoanInv, PortNext, Quiet, UNCHANGED <<generation, lent>>,
           turn' = "free" => turn = "free",
           \A p \in Processes : \/ proc'[p] # "none" => proc[p] # "none"
                                \/ JobsTo(p) = {} /\ ReleasesFrom(p, generation) = {}
    PROVE  Books'
  <1>0. /\ SendsAreFresh /\ OldAreSilent /\ Books /\ generation \in 0..GenBound
        /\ generation > 0 => generation \in Generations
    BY DEF LoanInv, PortInv, PageTyped, Generations
  <1>1. /\ \A p \in Processes : JobsTo(p)' = JobsTo(p)
        /\ \A p \in Processes, g \in Generations :
             /\ g = generation => ReleasesFrom(p, g)' = ReleasesFrom(p, g)
             /\ ReleasesFrom(p, g)' \subseteq ReleasesFrom(p, g)
    BY DEF Quiet
  <1>2. generation > 0 =>
          \A p \in Processes : ReleasesFrom(p, generation)' = ReleasesFrom(p, generation)
    BY <1>0, <1>1, QueueIds
  <1>3. generation' > 0 => OneMessage'
    <2>1. generation > 0 => \A p \in Processes : /\ Once("job", inbox'[p])
                                                /\ Once("release", outbox'[p][generation])
      BY <1>0 DEF Books, OneMessage, Quiet
    <2>2. QED
      BY <1>0, <1>1, <1>2, <2>1 DEF Books, OneMessage
  <1>4. generation' > 0 => ReadIsLent'
    BY <1>0, <1>1, <1>2 DEF Books, ReadIsLent, Loans
  <1>5. LentIsRead'
    <2>1. SUFFICES ASSUME turn' = "free", NEW i \in lent, i \notin {handle'[t] : t \in TileJobs}
                   PROVE  \/ i \in JobsTo("worker")'
                          \/ \E g \in Generations : i \in ReleasesFrom("worker", g)'
      BY DEF LentIsRead
    <2>2. i # NoId
      BY <1>0 DEF Books, CopiesLendNothing
    <2>3. i \in JobsTo("worker") \/ \E g \in Generations : i \in ReleasesFrom("worker", g)
      BY <1>0, <2>1, <2>2, StillNamed DEF Books, LentIsRead
    <2>4. ASSUME NEW g \in Generations, i \in ReleasesFrom("worker", g)
          PROVE  i \in ReleasesFrom("worker", g)'
      <3>1. outbox["worker"][g] # <<>>
        BY <2>4, QueueIds, IdsEmpty
      <3>2. g = generation /\ generation > 0
        BY <1>0, <3>1 DEF OldAreSilent, Generations
      <3>3. QED
        BY <1>1, <2>4, <3>2 DEF Processes
    <2>5. QED
      BY <1>1, <2>3, <2>4 DEF Processes
  <1>6. CopiesLendNothing'
    BY <1>0, <1>1 DEF Books, CopiesLendNothing
  <1>7. QED
    BY <1>3, <1>4, <1>5, <1>6 DEF Books

-----------------------------------------------------------------------------
LEMMA PostKeepsBooks == ASSUME PortInv, LoanInv, PortNext, PostJob PROVE Books'
  <1>0. /\ SendsAreFresh /\ OldAreSilent /\ Books /\ ProcTyped /\ TypeOK /\ LossIsAnswered
        /\ SendsOwned
    BY DEF LoanInv, PortInv, FunnelInv, Owned
  <1>1. PICK s \in sending :
          /\ lent' = lent \cup Loans({s.id})
          /\ inbox' = [p \in Processes |-> IF p \in ReachedBy(s.sink)
                                           THEN Append(inbox[p], Msg("job", s.id)) ELSE inbox[p]]
          /\ SendTaken(s)
    BY DEF PostJob
  <1>2. UNCHANGED <<generation, turn, proc, outbox, handle, worker>>
    BY <1>1 DEF PostJob, SendTaken, sinks
  <1> DEFINE m == Msg("job", s.id)
  <1>3. m.kind = "job" /\ m.id = s.id /\ m \in Posts(Ids)
    BY <1>0 DEF Msg, Posts, TypeOK, Entry, Ids
  <1> HIDE DEF m
  <1>4. \A p \in Processes :
          /\ p \in ReachedBy(s.sink) =>
              /\ JobsTo(p)' = JobsTo(p) \cup {s.id}
              /\ Once("job", inbox[p]) => Once("job", inbox'[p])
          /\ p \notin ReachedBy(s.sink) => inbox'[p] = inbox[p] /\ JobsTo(p)' = JobsTo(p)
    <2>1. \A p \in Processes : s.id \notin JobsTo(p) /\ inbox[p] \in Seq(Posts(Ids))
      BY <1>0 DEF SendsAreFresh, ProcTyped
    <2>2. \A p \in Processes :
            inbox'[p] = IF p \in ReachedBy(s.sink) THEN Append(inbox[p], m) ELSE inbox[p]
      BY <1>1 DEF m
    <2> DEFINE S == Posts(Ids)
    <2>3. \A q \in Seq(S) :
            /\ IdsIn("job", Append(q, m)) = IdsIn("job", q) \cup {s.id}
            /\ Once("job", q) /\ s.id \notin IdsIn("job", q) => Once("job", Append(q, m))
      <3>1. m \in S
        BY <1>3
      <3> HIDE DEF S
      <3>2. QED
        BY <1>3, <3>1, IdsAppend
    <2> HIDE DEF S
    <2>4. \A p \in Processes :
            /\ inbox[p] \in Seq(S) /\ s.id \notin IdsIn("job", inbox[p])
            /\ JobsTo(p) = IdsIn("job", inbox[p]) /\ JobsTo(p)' = IdsIn("job", inbox'[p])
      BY <2>1, QueueIds DEF S
    <2>5. QED
      BY <2>2, <2>3, <2>4
  <1>5. \A p, g : ReleasesFrom(p, g)' = ReleasesFrom(p, g)
    BY <1>2, QueueIds
  <1>6. \A p, q \in ReachedBy(s.sink) : p = q
    BY DEF ReachedBy
  <1>7. /\ s.id # NoId
        /\ \A p \in Processes : s.id \notin JobsTo(p)
        /\ \A p \in Processes : generation > 0 => s.id \notin ReleasesFrom(p, generation)
        /\ s.sink # worker => s.id \in {handle[t] : t \in TileJobs}
    BY <1>0 DEF SendsAreFresh, PortInv, PageTyped, Generations
  <1>8. ASSUME generation > 0 PROVE OneMessage'
    <2>1. \A p \in Processes : Once("job", inbox'[p]) /\ Once("release", outbox[p][generation])
      BY <1>0, <1>4, <1>8 DEF Books, OneMessage
    <2>2. \A p, q \in Processes :
            /\ JobsTo(p)' \cap ReleasesFrom(q, generation) = {}
            /\ p # q => JobsTo(p)' \cap JobsTo(q)' = {}
      BY <1>0, <1>4, <1>6, <1>7, <1>8 DEF Books, OneMessage
    <2>3. QED
      BY <1>0, <1>2, <1>5, <1>8, <2>1, <2>2 DEF Books, OneMessage
  <1>9. ASSUME generation > 0 PROVE ReadIsLent'
    BY <1>0, <1>1, <1>2, <1>4, <1>5, <1>9 DEF Books, ReadIsLent, Loans
  <1>10. LentIsRead'
    <2>1. turn = "free"
      BY <1>0, <1>1 DEF LossIsAnswered, Idle
    <2>2. lent \ {handle[t] : t \in TileJobs}
            \subseteq JobsTo("worker")' \cup UNION {ReleasesFrom("worker", g) : g \in Generations}
      BY <1>0, <1>4, <2>1 DEF Books, LentIsRead, Processes
    <2>3. s.sink = worker => s.id \in JobsTo("worker")'
      BY <1>4 DEF ReachedBy, Processes
    <2>4. \A i \in lent' : i \in lent \/ i = s.id
      BY <1>1 DEF Loans
    <2>5. QED
      BY <1>2, <1>5, <1>7, <2>2, <2>3, <2>4 DEF LentIsRead
  <1>11. CopiesLendNothing'
    BY <1>0, <1>1, <1>5, <1>7 DEF Books, CopiesLendNothing, Loans
  <1>12. QED
    BY <1>2, <1>8, <1>9, <1>10, <1>11 DEF Books

LEMMA StartKeepsBooks ==
    ASSUME PortInv, LoanInv, NEW p \in Processes, StartsJob(p) PROVE Books'
  <1>0. /\ OldAreSilent /\ Books /\ ProcTyped /\ PageTyped /\ LossIsAnswered /\ GoneIsSilent
    BY DEF LoanInv, PortInv
  <1> DEFINE id == Head(inbox[p]).id
             m == Msg("release", id)
  <1>1. /\ proc[p] = "ready" /\ inbox[p] # <<>> /\ Head(inbox[p]).kind = "job"
        /\ inbox' = [inbox EXCEPT ![p] = Tail(inbox[p])]
        /\ IF CanLend THEN Says(p, m) ELSE UNCHANGED outbox
        /\ UNCHANGED <<generation, turn, lent, proc, handle>>
    BY DEF StartsJob, pageVars, funnelVars
  <1>2. generation \in Generations /\ generation > 0
    BY <1>0, <1>1 DEF PageTyped, GoneIsSilent, LossIsAnswered, Generations, Processes
  <1>3. /\ JobsTo(p) = JobsTo(p)' \cup {id}
        /\ id \notin JobsTo(p)' /\ Once("job", inbox'[p]) /\ id \in Ids
        /\ \A q \in Processes : q # p => inbox'[q] = inbox[q] /\ JobsTo(q)' = JobsTo(q)
    <2>1. inbox[p] \in Seq(Posts(Ids)) /\ Once("job", inbox[p])
      BY <1>0, <1>2 DEF ProcTyped, Books, OneMessage
    <2>2. Head(inbox[p]) \in Posts(Ids)
      BY <1>1, <2>1
    <2>3. id \in Ids
      BY <2>2 DEF Posts
    <2>4. \A q \in Processes : inbox'[q] = IF q = p THEN Tail(inbox[p]) ELSE inbox[q]
      BY <1>0, <1>1 DEF ProcTyped
    <2> DEFINE q1 == inbox[p]
               S == Posts(Ids)
    <2>5. q1 \in Seq(S) /\ q1 # <<>> /\ Head(q1).kind = "job" /\ Head(q1).id = id
          /\ Once("job", q1)
      BY <1>1, <2>1
    <2> HIDE DEF q1, S, id
    <2>6. /\ IdsIn("job", q1) = IdsIn("job", Tail(q1)) \cup {id}
          /\ Once("job", Tail(q1)) /\ id \notin IdsIn("job", Tail(q1))
      BY <2>5, IdsTail
    <2>7. /\ JobsTo(p) = IdsIn("job", q1) /\ JobsTo(p)' = IdsIn("job", Tail(q1))
          /\ inbox'[p] = Tail(q1)
          /\ \A q \in Processes : q # p => inbox'[q] = inbox[q] /\ JobsTo(q)' = JobsTo(q)
      BY <2>4, QueueIds DEF q1
    <2>8. QED
      BY <2>3, <2>6, <2>7
  <1>4. m \in Messages(Ids) /\ m.kind = "release" /\ m.id = id
    BY <1>3 DEF Msg, Messages
  <1> HIDE DEF m, id
  <1>5. id \in JobsTo(p) /\ \A q \in Processes :
          /\ id \notin ReleasesFrom(q, generation)
          /\ q # p => id \notin JobsTo(q)
    BY <1>0, <1>2, <1>3 DEF Books, OneMessage
  <1>6. /\ \A q \in Processes, g \in Generations :
             q # p \/ g # generation \/ ~CanLend =>
                 ReleasesFrom(q, g)' = ReleasesFrom(q, g) /\ outbox'[q][g] = outbox[q][g]
        /\ CanLend => \A g \in Generations : g = generation =>
             /\ ReleasesFrom(p, g)' = ReleasesFrom(p, g) \cup {id}
             /\ Once("release", outbox'[p][g])
    <2>1. CASE CanLend
      <3>1. Says(p, m) /\ Once("release", outbox[p][generation])
        BY <1>0, <1>1, <1>2, <2>1 DEF Books, OneMessage
      <3>2. QED
        BY <1>0, <1>2, <1>4, <1>5, <2>1, <3>1, SaidIds, QueueIds
    <2>2. CASE ~CanLend
      BY <1>1, <2>2, QueueIds
    <2>3. QED
      BY <2>1, <2>2
  <1>7. \A q \in Processes :
          /\ ReleasesFrom(q, generation)' \subseteq ReleasesFrom(q, generation) \cup {id}
          /\ q # p => ReleasesFrom(q, generation)' = ReleasesFrom(q, generation)
          /\ ~CanLend => ReleasesFrom(q, generation)' = ReleasesFrom(q, generation)
          /\ Once("release", outbox'[q][generation])
    <2>1. \A q \in Processes : Once("release", outbox[q][generation])
      BY <1>0, <1>2 DEF Books, OneMessage
    <2>2. \A q : ReleasesFrom(q, generation)' = IdsIn("release", outbox'[q][generation])
      BY <1>1, QueueIds
    <2>3. \A q \in Processes, g \in Generations :
            ReleasesFrom(q, g)' = IdsIn("release", outbox'[q][g])
      BY QueueIds
    <2>4. QED
      BY <1>2, <1>6, <2>1, <2>2, <2>3
  <1>8. OneMessage'
    <2>1. \A q \in Processes : Once("job", inbox'[q])
      BY <1>0, <1>2, <1>3 DEF Books, OneMessage
    <2>2. \A q, r \in Processes :
            /\ JobsTo(q)' \cap ReleasesFrom(r, generation)' = {}
            /\ q # r => JobsTo(q)' \cap JobsTo(r)' = {}
            /\ q # r => ReleasesFrom(q, generation)' \cap ReleasesFrom(r, generation)' = {}
      <3>1. \A q \in Processes : JobsTo(q)' \subseteq JobsTo(q) /\ id \notin JobsTo(q)'
        BY <1>3, <1>5
      <3>2. QED
        BY <1>0, <1>2, <1>5, <1>7, <3>1 DEF Books, OneMessage
    <2>3. QED
      BY <1>1, <1>7, <2>1, <2>2 DEF OneMessage
  <1>9. ReadIsLent'
    <2>1. \A q \in Processes : proc[q] # "none" =>
            Loans(JobsTo(q)) \subseteq lent /\ ReleasesFrom(q, generation) \subseteq lent
      BY <1>0, <1>2 DEF Books, ReadIsLent
    <2>2. CanLend => id \in lent
      BY <1>1, <1>5, <2>1 DEF Loans
    <2>3. \A q \in Processes : JobsTo(q)' \subseteq JobsTo(q)
      BY <1>3
    <2>4. QED
      BY <1>1, <1>7, <2>1, <2>2, <2>3 DEF ReadIsLent, Loans
  <1>10. LentIsRead'
    <2>1. ASSUME turn = "free", NEW i \in lent, i \notin {handle[t] : t \in TileJobs}
          PROVE  i \in JobsTo("worker")' \/ \E g \in Generations : i \in ReleasesFrom("worker", g)'
      <3>1. i \in JobsTo("worker") \/ \E g \in Generations : i \in ReleasesFrom("worker", g)
        BY <1>0, <2>1 DEF Books, LentIsRead
      <3>2. CanLend
        BY <1>0, <2>1 DEF Books, CopiesLendNothing
      <3>3. \A g \in Generations : ReleasesFrom("worker", g) \subseteq ReleasesFrom("worker", g)'
        BY <1>6, <3>2 DEF Processes
      <3>4. i \in JobsTo("worker") => i \in JobsTo("worker")' \/ (p = "worker" /\ i = id)
        BY <1>3 DEF Processes
      <3>5. p = "worker" => id \in ReleasesFrom("worker", generation)' /\ generation' = generation
        BY <1>1, <1>2, <1>6, <3>2, QueueIds
      <3>6. \A g \in Generations : g = generation =>
              ReleasesFrom("worker", g)' = ReleasesFrom("worker", generation)'
        BY <1>1, QueueIds
      <3>7. QED
        BY <1>2, <3>1, <3>3, <3>4, <3>5, <3>6
    <2>2. QED
      BY <1>1, <2>1 DEF LentIsRead
  <1>11. CopiesLendNothing'
    BY <1>0, <1>1, <1>6 DEF Books, CopiesLendNothing
  <1>12. QED
    BY <1>8, <1>9, <1>10, <1>11 DEF Books

LEMMA ReleaseKeepsBooks ==
    ASSUME PortInv, LoanInv, NEW p \in Processes, NEW g \in Generations, OnRelease(p, g)
    PROVE  Books'
  <1>0. Books /\ ProcTyped
    BY DEF LoanInv, PortInv
  <1> DEFINE id == Head(outbox[p][g]).id
  <1>1. /\ g = generation /\ generation > 0 /\ Takes(p, g)
        /\ Head(outbox[p][g]).kind = "release"
        /\ lent' = lent \ {id}
        /\ UNCHANGED <<generation, turn, proc, inbox, handle>>
    BY DEF OnRelease, Arrived, funnelVars, Generations
  <1> HIDE DEF id
  <1>2. /\ ReleasesFrom(p, g) = ReleasesFrom(p, g)' \cup {id} /\ id \notin ReleasesFrom(p, g)'
        /\ Once("release", outbox'[p][g])
        /\ \A q \in Processes, h \in Generations :
             q # p \/ h # g => /\ outbox'[q][h] = outbox[q][h]
                              /\ ReleasesFrom(q, h)' = ReleasesFrom(q, h)
    <2>1. Once("release", outbox[p][g])
      BY <1>0, <1>1 DEF Books, OneMessage
    <2>2. QED
      BY <1>0, <1>1, <2>1, TakenIds, QueueIds DEF id
  <1>3. \A q \in Processes : JobsTo(q)' = JobsTo(q)
    BY <1>1, QueueIds
  <1>4. \A q \in Processes :
          /\ Once("job", inbox[q]) /\ Once("release", outbox[q][g])
          /\ \A r \in Processes :
              /\ JobsTo(q) \cap ReleasesFrom(r, g) = {}
              /\ q # r => JobsTo(q) \cap JobsTo(r) = {}
              /\ q # r => ReleasesFrom(q, g) \cap ReleasesFrom(r, g) = {}
          /\ proc[q] # "none" => Loans(JobsTo(q)) \subseteq lent /\ ReleasesFrom(q, g) \subseteq lent
    BY <1>0, <1>1 DEF Books, OneMessage, ReadIsLent
  <1>5. \A q : ReleasesFrom(q, generation)' = ReleasesFrom(q, g)'
    BY <1>1, QueueIds
  <1>6. OneMessage'
    BY <1>1, <1>2, <1>3, <1>4, <1>5 DEF OneMessage
  <1>7. ReadIsLent'
    <2>1. \A q \in Processes : id \notin JobsTo(q) /\ id \notin ReleasesFrom(q, g)'
      BY <1>2, <1>4
    <2>2. \A q \in Processes : ReleasesFrom(q, g)' \subseteq ReleasesFrom(q, g)
      BY <1>2
    <2>3. QED
      BY <1>1, <1>3, <1>4, <1>5, <2>1, <2>2 DEF ReadIsLent, Loans
  <1>8. LentIsRead'
    <2>1. ASSUME turn = "free", NEW i \in lent, i # id, i \notin {handle[t] : t \in TileJobs}
          PROVE  i \in JobsTo("worker") \/ \E h \in Generations : i \in ReleasesFrom("worker", h)'
      <3>1. i \in JobsTo("worker") \/ \E h \in Generations : i \in ReleasesFrom("worker", h)
        BY <1>0, <2>1 DEF Books, LentIsRead
      <3>2. QED
        BY <1>2, <2>1, <3>1 DEF Processes
    <2>2. QED
      BY <1>1, <1>3, <2>1 DEF LentIsRead, Processes
  <1>9. CopiesLendNothing'
    BY <1>0, <1>1, <1>2 DEF Books, CopiesLendNothing
  <1>10. QED
    BY <1>6, <1>7, <1>8, <1>9 DEF Books

(* The worker goes: nobody reads any more, and `lose` sweeps the book. *)
LEMMA TerminateKeepsBooks ==
    ASSUME PortInv, LoanInv, Terminate, turn' = "abandonWorker",
           UNCHANGED <<funnelVars, generation, lent>>
    PROVE  Books'
  <1>0. Books /\ ProcTyped /\ PageTyped
    BY DEF LoanInv, PortInv
  <1>1. /\ \A p \in Processes : inbox'[p] = <<>> /\ proc'[p] = "none"
        /\ \A g \in Generations : outbox'["worker"][g] = <<>>
        /\ \A g : outbox'["lane"][g] = outbox["lane"][g]
    BY <1>0 DEF Terminate, ProcTyped, Processes
  <1>2. /\ \A p \in Processes : JobsTo(p)' = {}
        /\ \A g \in Generations : ReleasesFrom("worker", g)' = {}
        /\ \A g : ReleasesFrom("lane", g)' = ReleasesFrom("lane", g)
    BY <1>1, QueueIds, IdsEmpty
  <1>3. ASSUME generation > 0 PROVE OneMessage'
    <2>1. generation \in Generations
      BY <1>0, <1>3 DEF PageTyped, Generations
    <2>2. \A p \in Processes : Once("job", inbox'[p]) /\ Once("release", outbox'[p][generation])
      BY <1>0, <1>1, <1>3, <2>1, IdsEmpty DEF Books, OneMessage, Processes
    <2>3. ReleasesFrom("worker", generation)' = {}
      BY <1>1, <2>1, QueueIds, IdsEmpty
    <2>4. QED
      BY <1>2, <2>2, <2>3 DEF OneMessage, Processes
  <1>4. ReadIsLent'
    BY <1>1 DEF ReadIsLent
  <1>5. LentIsRead'
    BY DEF LentIsRead
  <1>6. CopiesLendNothing'
    BY <1>0, <1>2 DEF Books, CopiesLendNothing, Processes
  <1>7. QED
    BY <1>3, <1>4, <1>5, <1>6 DEF Books

LEMMA SweepKeepsBooks == ASSUME PortInv, LoanInv, Sweep PROVE Books'
  <1>0. Books /\ LossIsAnswered /\ GoneIsSilent /\ ProcTyped
    BY DEF LoanInv, PortInv
  <1>1. lent' = {} /\ UNCHANGED <<generation, proc, inbox, outbox>> /\ turn = "sweep"
    BY DEF Sweep, procVars
  <1>2. \A p \in Processes : proc[p] = "none"
    BY <1>0, <1>1 DEF LossIsAnswered, GoneIsSilent, Processes
  <1>3. (\A p : JobsTo(p)' = JobsTo(p)) /\ \A p, g : ReleasesFrom(p, g)' = ReleasesFrom(p, g)
    BY <1>1, QueueIds
  <1>4. generation' > 0 => OneMessage'
    BY <1>0, <1>1, <1>3, QueueIds DEF Books, OneMessage
  <1>5. ReadIsLent' /\ LentIsRead'
    BY <1>1, <1>2 DEF ReadIsLent, LentIsRead
  <1>6. CopiesLendNothing'
    BY <1>0, <1>1, <1>3 DEF Books, CopiesLendNothing
  <1>7. QED
    BY <1>4, <1>5, <1>6 DEF Books

LEMMA SpawnKeepsBooks == ASSUME PortInv, LoanInv, PortNext, Spawns PROVE Books'
  <1>0. Books /\ OldAreSilent /\ SendsAreFresh /\ GoneIsSilent /\ ProcTyped /\ PageTyped
    BY DEF LoanInv, PortInv
  <1>1. /\ turn = "free" /\ proc["worker"] = "none"
        /\ generation' = generation + 1 /\ generation' \in Generations
        /\ UNCHANGED <<inbox, outbox, lent>>
    BY <1>0, SpawnsDoes DEF PageFree, PageTyped, Generations
  <1>2. \A p \in Processes :
          inbox[p] = <<>> /\ \A g \in Generations : g = generation' => outbox[p][g] = <<>>
    BY <1>0, <1>1 DEF GoneIsSilent, OldAreSilent, Processes, PageTyped, Generations
  <1>3. \A p \in Processes :
          /\ inbox'[p] = <<>> /\ outbox'[p][generation'] = <<>>
          /\ JobsTo(p)' = {} /\ ReleasesFrom(p, generation)' = {}
    BY <1>1, <1>2, QueueIds, IdsEmpty
  <1>4. OneMessage'
    BY <1>3, IdsEmpty DEF OneMessage
  <1>5. ReadIsLent'
    BY <1>3 DEF ReadIsLent, Loans
  <1>6. lent \subseteq {handle[t] : t \in TileJobs}
    <2>1. JobsTo("worker") = {} /\ \A g \in Generations : ReleasesFrom("worker", g) = {}
      BY <1>0, <1>1, <1>2, QueueIds, IdsEmpty DEF GoneIsSilent, Processes
    <2>2. QED
      BY <1>0, <1>1, <2>1 DEF Books, LentIsRead
  <1>7. LentIsRead'
    <2>1. \A i \in lent : i # NoId
      BY <1>0 DEF Books, CopiesLendNothing
    <2>2. \A i \in lent : i \in {handle'[t] : t \in TileJobs}
      BY <1>0, <1>6, <2>1, StillNamed
    <2>3. QED
      BY <1>1, <2>2 DEF LentIsRead
  <1>8. CopiesLendNothing'
    BY <1>0, <1>1, QueueIds DEF Books, CopiesLendNothing
  <1>9. QED
    BY <1>4, <1>5, <1>7, <1>8 DEF Books

LEMMA BooksStep == ASSUME PortInv, LoanInv, PortNext PROVE Books'
  <1>0. OldAreSilent /\ ProcTyped /\ PageTyped /\ GoneIsSilent /\ LossIsAnswered
    BY DEF LoanInv, PortInv
  <1>1. ASSUME Quiet, UNCHANGED <<generation, lent, proc>>, turn' = "free" => turn = "free"
        PROVE  Books'
    BY <1>1, QuietKeeps
  <1>2. CASE Serves
    <2>1. CASE PostJob
      BY <2>1, PostKeepsBooks
    <2>2. CASE ~PostJob
      <3>1. lent' = lent
        BY <1>2, <2>2 DEF Serves, PageCalls, PageHandsOver, PageRunsHere, PostRefused, Clock, pageVars
      <3>2. QED
        BY <1>1, <1>2, <2>2, <3>1, QuietSteps, ServesFunnel
    <2>3. QED
      BY <2>1, <2>2
  <1>3. CASE LoseWorker \/ LoseLane
    <2>1. lent' = lent /\ turn' # "free"
      BY <1>3 DEF LoseWorker, LoseLane
    <2>2. QED
      BY <1>1, <1>3, <2>1, QuietSteps, LosesFunnel DEF procVars
  <1>4. CASE ProcStep
    <2>0. UNCHANGED <<generation, lent, turn>>
      BY <1>4, ProcsLeaveFunnel DEF ProcStep, pageVars
    <2>1. CASE WorkerBoots
      <3>1. \A p \in Processes : \/ proc'[p] # "none" => proc[p] # "none"
                                 \/ JobsTo(p) = {} /\ ReleasesFrom(p, generation) = {}
        <4>1. proc["worker"] = "boot" /\ proc["lane"] = "none" /\ inbox["lane"] = <<>>
                /\ outbox["lane"][generation] = <<>>
          BY <1>0, <2>1 DEF WorkerBoots, GoneIsSilent, OldAreSilent, Processes
        <4>2. JobsTo("lane") = {} /\ ReleasesFrom("lane", generation) = {}
          BY <4>1, QueueIds, IdsEmpty
        <4>3. QED
          BY <4>1, <4>2 DEF Processes
      <3>2. QED
        BY <2>0, <2>1, <3>1, QuietSteps, QuietKeeps
    <2>2. ASSUME NEW p \in Processes, StartsJob(p) PROVE Books'
      BY <2>2, StartKeepsBooks
    <2>3. CASE LaneBoots
      <3>1. \A p \in Processes : proc'[p] # "none" => proc[p] # "none"
        BY <1>0, <2>3 DEF LaneBoots, ProcTyped, Processes
      <3>2. QED
        BY <2>0, <2>3, <3>1, QuietSteps, QuietKeeps
    <2>4. ASSUME NEW p \in Processes, FailsToBoot(p) PROVE Books'
      <3>1. \A q \in Processes : proc'[q] # "none" => proc[q] # "none"
        BY <1>0, <2>4 DEF FailsToBoot, ProcTyped
      <3>2. QED
        BY <2>0, <2>4, <3>1, QuietSteps, QuietKeeps
    <2>5. ASSUME WorkerThrows \/ LaneThrows \/ \E p \in Processes : FreesReply(p) \/ AnswersJob(p)
          PROVE  Books'
      <3>1. proc' = proc
        BY <2>5 DEF WorkerThrows, LaneThrows, FreesReply, AnswersJob
      <3>2. QED
        BY <1>1, <2>0, <2>5, <3>1, QuietSteps
    <2>6. QED
      BY <1>4, <2>1, <2>2, <2>3, <2>4, <2>5 DEF ProcStep
  <1>5. ASSUME NEW g \in Generations, OnError(g) \/ OnUseless(g) PROVE Books'
    <2>1. UNCHANGED <<funnelVars, generation, lent>>
      BY <1>5 DEF OnError, OnUseless
    <2>2. CASE turn' = "abandonWorker" /\ Terminate
      BY <2>1, <2>2, TerminateKeepsBooks
    <2>3. CASE UNCHANGED <<turn, proc, inbox, outbox>>
      BY <1>1, <2>1, <2>3, QuietSame
    <2>4. QED
      BY <1>5, <2>2, <2>3 DEF OnError, OnUseless
  <1>6. CASE \E n \in timers : FlushTimer(n)
    <2>1. UNCHANGED <<generation, lent, proc, turn>>
      BY <1>6 DEF FlushTimer, procVars
    <2>2. QED
      BY <1>1, <1>6, <2>1, QuietSteps
  <1>7. ASSUME NEW g \in Generations, OnHello(g) \/ OnLaneHello(g) PROVE Books'
    <2>1. UNCHANGED <<generation, lent, proc, turn>>
      BY <1>7 DEF OnHello, OnLaneHello
    <2>2. QED
      BY <1>1, <1>7, <2>1, QuietSteps
  <1>8. ASSUME NEW p \in Processes, NEW g \in Generations,
               OnLaneLost(p, g) \/ OnDone(p, g) \/ OnStale(p, g)
        PROVE  Books'
    <2>1. UNCHANGED <<generation, lent, proc, turn>>
      BY <1>8 DEF OnLaneLost, LaneLoanKept, OnDone, OnStale, pageVars
    <2>2. QED
      BY <1>1, <1>8, <2>1, QuietSteps
  <1>9. QED
    BY PortCases, <1>2, <1>3, <1>4, <1>5, <1>6, <1>7, <1>8, ReleaseKeepsBooks, SweepKeepsBooks,
       SpawnKeepsBooks

LEMMA OldStep == ASSUME PortInv, LoanInv, PortNext PROVE OldAreSilent'
  <1>0. OldAreSilent /\ ProcTyped /\ PageTyped /\ GoneIsSilent /\ LossIsAnswered
    BY DEF LoanInv, PortInv
  <1> USE DEF OldAreSilent
  <1>g. /\ (\E p \in Processes : proc[p] # "none") => generation \in Generations
        /\ \A p \in Processes : busy[p] # NoId => proc[p] # "none"
        /\ proc["lane"] # "none" => proc["worker"] = "ready"
        /\ "lane" \in Processes /\ "worker" \in Processes
    BY <1>0 DEF PageTyped, GoneIsSilent, LossIsAnswered, Generations, Processes
  <1>1. ASSUME UNCHANGED generation,
               \A p \in Processes, g \in Generations : outbox[p][g] = <<>> => outbox'[p][g] = <<>>,
               proc'["worker"] = "boot" => proc["worker"] = "boot"
        PROVE  OldAreSilent'
    <2>1. proc["worker"] = "boot" => generation \in Generations
      BY <1>g
    <2>2. QED
      BY <1>0, <1>1, <1>g, <2>1
  <1>2. CASE Serves
    BY <1>1, <1>2, ServesFunnel
  <1>3. CASE LoseWorker \/ LoseLane \/ Sweep
    BY <1>1, <1>3, LosesFunnel DEF procVars
  <1>4. CASE Spawns
    <2>1. /\ proc["worker"] = "none" /\ generation' = generation + 1 /\ UNCHANGED outbox
          /\ generation \in Nat /\ generation' \in Generations
      BY <1>0, <1>4, SpawnsDoes DEF PageTyped, Generations
    <2>2. /\ \A g \in Generations : outbox["worker"][g] = <<>>
          /\ \A g \in Generations : g > generation => outbox["lane"][g] = <<>>
      BY <1>0, <2>1 DEF GoneIsSilent
    <2>3. \A g \in Generations : g > generation' => g > generation
      BY <2>1 DEF Generations
    <2>4. generation' > generation
      BY <2>1
    <2>5. QED
      BY <2>1, <2>2, <2>3, <2>4
  <1>5. CASE ProcStep
    <2>0. generation' = generation
      BY <1>5, ProcsLeaveFunnel DEF ProcStep, pageVars
    <2>1. ASSUME NEW p \in Processes, NEW m, Says(p, m), proc[p] # "none",
                 proc'["worker"] # "boot" \/ proc'["worker"] = proc["worker"]
          PROVE  OldAreSilent'
      <3>1. generation \in Generations
        BY <1>g, <2>1
      <3>2. \A q \in Processes, g \in Generations :
              outbox'[q][g] = IF q = p /\ g = generation
                              THEN Append(outbox[p][generation], m) ELSE outbox[q][g]
        BY <1>0, <2>1, <3>1, SaidWhere
      <3>3. \A g \in Generations : ~(generation > generation) /\ (g > generation => g # generation)
        BY <3>1 DEF Generations
      <3>4. QED
        BY <1>0, <1>g, <2>0, <2>1, <3>1, <3>2, <3>3
    <2>2. CASE WorkerBoots
      <3>1. PICK same \in BOOLEAN, withLane \in BOOLEAN : Says("worker", Hello(same, withLane))
        BY <2>2 DEF WorkerBoots
      <3>2. proc["worker"] # "none" /\ proc'["worker"] = "ready"
        BY <2>2 DEF WorkerBoots
      <3>3. QED
        BY <1>g, <2>1, <3>1, <3>2
    <2>3. CASE LaneBoots
      <3>1. Says("lane", [kind |-> "hello"]) /\ proc["lane"] # "none"
              /\ proc'["worker"] = proc["worker"]
        BY <1>0, <2>3 DEF LaneBoots, ProcTyped, Processes
      <3>2. QED
        BY <1>g, <2>1, <3>1
    <2>4. ASSUME NEW p \in Processes, FailsToBoot(p) PROVE OldAreSilent'
      <3>1. Says(p, [kind |-> "fatal"]) /\ proc[p] # "none"
              /\ (p = "worker" => proc'["worker"] = "failed")
              /\ (p # "worker" => proc'["worker"] = proc["worker"])
        BY <1>0, <2>4 DEF FailsToBoot, ProcTyped, Processes
      <3>2. p = "worker" \/ p = "lane"
        BY DEF Processes
      <3>3. QED
        BY <2>1, <3>1, <3>2
    <2>5. ASSUME NEW p \in Processes, StartsJob(p) PROVE OldAreSilent'
      <3>1. /\ Says(p, Msg("release", Head(inbox[p]).id)) \/ UNCHANGED outbox
            /\ proc[p] # "none" /\ proc' = proc
        BY <2>5 DEF StartsJob
      <3>2. p = "worker" \/ p = "lane"
        BY DEF Processes
      <3>3. QED
        BY <1>1, <2>0, <2>1, <3>1, <3>2
    <2>6. ASSUME NEW p \in Processes, AnswersJob(p) PROVE OldAreSilent'
      <3>1. PICK o \in Outcomes : Says(p, Done(busy[p], o))
        BY <2>6 DEF AnswersJob
      <3>2. (p = "worker" \/ p = "lane") /\ proc[p] # "none" /\ proc' = proc
        BY <1>g, <2>6 DEF Processes, AnswersJob
      <3>3. QED
        BY <2>1, <3>1, <3>2
    <2>7. CASE LaneThrows
      <3>1. Says("worker", [kind |-> "laneLost"]) /\ proc' = proc /\ proc["worker"] # "none"
        BY <1>g, <2>7 DEF LaneThrows
      <3>2. QED
        BY <1>g, <2>1, <3>1
    <2>8. CASE WorkerThrows \/ \E p \in Processes : FreesReply(p)
      BY <1>1, <2>0, <2>8 DEF WorkerThrows, FreesReply
    <2>9. QED
      BY <1>5, <2>2, <2>3, <2>4, <2>5, <2>6, <2>7, <2>8 DEF ProcStep
  <1>6. ASSUME NEW g \in Generations, OnError(g) \/ OnUseless(g) PROVE OldAreSilent'
    <2>1. generation' = generation
      BY <1>6 DEF OnError, OnUseless
    <2>2. CASE Terminate
      BY <1>0, <1>1, <2>1, <2>2 DEF Terminate, ProcTyped, Processes
    <2>3. CASE UNCHANGED <<proc, outbox>>
      BY <1>1, <2>1, <2>3
    <2>4. QED
      BY <1>6, <2>2, <2>3 DEF OnError, OnUseless
  <1>7. CASE \E n \in timers : FlushTimer(n)
    BY <1>1, <1>7 DEF FlushTimer, procVars
  <1>8. ASSUME NEW p \in Processes, NEW g \in Generations, Takes(p, g),
               UNCHANGED <<generation, proc>>
        PROVE  OldAreSilent'
    BY <1>0, <1>1, <1>8, Taken
  <1>9. ASSUME NEW g \in Generations, OnHello(g) \/ OnLaneHello(g) PROVE OldAreSilent'
    BY <1>8, <1>9, <1>g DEF OnHello, OnLaneHello
  <1>10. ASSUME NEW p \in Processes, NEW g \in Generations,
                OnLaneLost(p, g) \/ OnDone(p, g) \/ OnRelease(p, g) \/ OnStale(p, g)
         PROVE  OldAreSilent'
    BY <1>8, <1>10 DEF OnLaneLost, OnDone, OnRelease, OnStale, pageVars
  <1>11. QED
    BY PortCases, <1>2, <1>3, <1>4, <1>5, <1>6, <1>7, <1>9, <1>10

(* What a step adds to the traffic: a post adds its own id, any other step adds none. *)
LEMMA TrafficStep ==
    ASSUME PortInv, LoanInv, PortNext, ~PostJob, NEW i,
           \A p \in Processes :
             i \notin JobsTo(p) /\ \A g \in Generations : i \notin ReleasesFrom(p, g)
    PROVE  \A p \in Processes :
             i \notin JobsTo(p)' /\ \A g \in Generations : i \notin ReleasesFrom(p, g)'
  <1>0. ProcTyped /\ PageTyped /\ GoneIsSilent /\ LossIsAnswered
    BY DEF PortInv
  <1>1. ASSUME Quiet
        PROVE  \A p \in Processes :
                 i \notin JobsTo(p)' /\ \A g \in Generations : i \notin ReleasesFrom(p, g)'
    BY <1>1 DEF Quiet
  <1>2. ASSUME UNCHANGED <<inbox, outbox>> PROVE Quiet
    BY <1>2, QuietSame
  <1>3. CASE Spawns
    BY <1>1, <1>2, <1>3, SpawnsDoes
  <1>4. ASSUME NEW p \in Processes, StartsJob(p)
        PROVE  \A q \in Processes :
                 i \notin JobsTo(q)' /\ \A g \in Generations : i \notin ReleasesFrom(q, g)'
    <2> DEFINE m == Msg("release", Head(inbox[p]).id)
               q1 == inbox[p]
               S == Posts(Ids)
    <2>1. /\ q1 \in Seq(S) /\ q1 # <<>> /\ Head(q1).kind = "job" /\ Head(q1) \in S
          /\ generation \in Generations
          /\ Says(p, m) \/ UNCHANGED outbox
          /\ \A q \in Processes : inbox'[q] = IF q = p THEN Tail(q1) ELSE inbox[q]
      <3>1. inbox[p] \in Seq(Posts(Ids)) /\ inbox[p] # <<>> /\ Head(inbox[p]).kind = "job"
        BY <1>0, <1>4 DEF StartsJob, ProcTyped
      <3>2. generation \in Generations
        BY <1>0, <1>4 DEF StartsJob, PageTyped, GoneIsSilent, LossIsAnswered, Generations, Processes
      <3>3. inbox' = [inbox EXCEPT ![p] = Tail(inbox[p])] /\ (Says(p, m) \/ UNCHANGED outbox)
        BY <1>4 DEF StartsJob
      <3> HIDE DEF m
      <3>4. \A q \in Processes : inbox'[q] = IF q = p THEN Tail(inbox[p]) ELSE inbox[q]
        BY <1>0, <3>3 DEF ProcTyped
      <3>5. QED
        BY <3>1, <3>2, <3>3, <3>4
    <2>2. m \in Messages(Ids) /\ m.kind = "release" /\ m.id = Head(q1).id
      BY <2>1 DEF Msg, Messages, Posts
    <2> HIDE DEF m, q1, S
    <2>3. IdsIn("job", q1) = IdsIn("job", Tail(q1)) \cup {m.id}
      BY <2>1, <2>2, IdsTail
    <2>4. JobsTo(p) = IdsIn("job", q1)
      BY QueueIds DEF q1
    <2>5. i # m.id
      BY <2>3, <2>4
    <2>6. \A q \in Processes : i \notin JobsTo(q)'
      BY <2>1, <2>3, <2>4, QueueIds
    <2>7. CASE UNCHANGED outbox
      BY <2>6, <2>7, QueueIds
    <2>8. CASE Says(p, m)
      BY <1>0, <2>1, <2>2, <2>5, <2>6, <2>8, SaidIds, QueueIds
    <2>9. QED
      BY <2>1, <2>7, <2>8
  <1>5. ASSUME NEW g \in Generations, OnError(g) \/ OnUseless(g)
        PROVE  \A p \in Processes :
                 i \notin JobsTo(p)' /\ \A h \in Generations : i \notin ReleasesFrom(p, h)'
    <2>1. CASE Terminate
      <3>1. /\ \A p \in Processes : inbox'[p] = <<>>
            /\ \A h \in Generations : outbox'["worker"][h] = <<>>
            /\ \A h : outbox'["lane"][h] = outbox["lane"][h]
        BY <1>0, <2>1 DEF Terminate, ProcTyped, Processes
      <3>2. QED
        BY <3>1, QueueIds, IdsEmpty DEF Processes
    <2>2. CASE UNCHANGED <<inbox, outbox>>
      BY <1>1, <1>2, <2>2
    <2>3. QED
      BY <1>5, <2>1, <2>2 DEF OnError, OnUseless
  <1>6. ASSUME NEW p \in Processes, NEW g \in Generations, OnRelease(p, g)
        PROVE  \A q \in Processes :
                 i \notin JobsTo(q)' /\ \A h \in Generations : i \notin ReleasesFrom(q, h)'
    <2>1. Takes(p, g) /\ inbox' = inbox
      BY <1>6 DEF OnRelease
    <2>2. \A q \in Processes, h \in Generations : ReleasesFrom(q, h)' \subseteq ReleasesFrom(q, h)
      BY <1>0, <2>1, TakenIds, QueueIds
    <2>3. QED
      BY <2>1, <2>2, QueueIds
  <1>7. \/ Quiet \/ Spawns \/ \E p \in Processes : StartsJob(p)
        \/ \E g \in Generations : OnError(g) \/ OnUseless(g)
        \/ \E p \in Processes, g \in Generations : OnRelease(p, g)
    BY PortCases, QuietSteps DEF ProcStep
  <1>8. QED
    BY <1>1, <1>3, <1>4, <1>5, <1>6, <1>7

LEMMA SendsStep == ASSUME PortInv, LoanInv, PortNext PROVE SendsAreFresh'
  <1>0. /\ SendsAreFresh /\ ProcTyped /\ TypeOK /\ SendsOwned
    BY DEF LoanInv, PortInv, FunnelInv, Owned
  <1>n. \A j \in Jobs : fate'[j] = "new" => handle'[j] = 0
    BY <1>0, HandlesMove DEF SendsAreFresh
  <1>1. ASSUME sending' \subseteq sending, handle' = handle,
               worker' = worker \/ sending' = {}, ~PostJob
        PROVE  SendsAreFresh'
    <2>1. \A s \in sending' :
            \A p \in Processes :
              s.id \notin JobsTo(p)' /\ \A g \in Generations : s.id \notin ReleasesFrom(p, g)'
      BY <1>0, <1>1, TrafficStep DEF SendsAreFresh
    <2>2. QED
      BY <1>0, <1>1, <1>n, <2>1 DEF SendsAreFresh
  <1>2. ASSUME sending = {}, UNCHANGED <<inbox, outbox, worker>>, NEW j \in Jobs, NEW sink,
               sending' = {[id |-> nextId, job |-> j, sink |-> sink]},
               sink = worker \/ (j \in TileJobs /\ handle'[j] = nextId)
        PROVE  SendsAreFresh'
    <2> DEFINE new == [id |-> nextId, job |-> j, sink |-> sink]
    <2>1. new.id = nextId /\ new.job = j /\ new.sink = sink /\ nextId # NoId
      BY <1>0 DEF TypeOK, NoId
    <2> HIDE DEF new
    <2>2. sending' = {new}
      BY <1>2 DEF new
    <2>3. \A p \in Processes :
            nextId \notin JobsTo(p) /\ \A g \in Generations : nextId \notin ReleasesFrom(p, g)
      <3>1. nextId \notin Ids
        BY <1>0 DEF Ids, TypeOK
      <3>2. ASSUME NEW p \in Processes PROVE nextId \notin JobsTo(p)
        <4>1. inbox[p] \in Seq(Posts(Ids))
          BY <1>0 DEF ProcTyped
        <4>2. \A k \in 1..Len(inbox[p]) : inbox[p][k] \in Posts(Ids)
          BY <4>1
        <4>3. \A m \in Posts(Ids) : m.id \in Ids
          BY DEF Posts
        <4>4. QED
          BY <3>1, <4>2, <4>3 DEF JobsTo
      <3>3. ASSUME NEW p \in Processes, NEW g \in Generations PROVE nextId \notin ReleasesFrom(p, g)
        <4>1. outbox[p][g] \in Seq(Messages(Ids))
          BY <1>0 DEF ProcTyped
        <4>2. \A k \in 1..Len(outbox[p][g]) : outbox[p][g][k] \in Messages(Ids)
          BY <4>1
        <4>3. QED
          BY <3>1, <4>2, Spoken DEF ReleasesFrom, MessagesOf
      <3>4. QED
        BY <3>2, <3>3
    <2>4. \A p \in Processes :
            nextId \notin JobsTo(p)' /\ \A g \in Generations : nextId \notin ReleasesFrom(p, g)'
      BY <1>2, <2>3, QueueIds
    <2>5. QED
      BY <1>2, <1>n, <2>1, <2>2, <2>4 DEF SendsAreFresh
  <1>3. CASE PostJob
    <2>1. PICK s \in sending :
            /\ inbox' = [p \in Processes |-> IF p \in ReachedBy(s.sink)
                                             THEN Append(inbox[p], Msg("job", s.id)) ELSE inbox[p]]
            /\ SendTaken(s)
      BY <1>3 DEF PostJob
    <2>2. sending' = sending \ {s} /\ UNCHANGED <<worker, handle, outbox>>
      BY <1>3, <2>1 DEF SendTaken, PostJob, sinks
    <2> DEFINE m == Msg("job", s.id)
    <2>3. m \in Posts(Ids) /\ m.kind = "job" /\ m.id = s.id
      BY <1>0 DEF Msg, Posts, TypeOK, Entry, Ids
    <2> HIDE DEF m
    <2>4. \A p \in Processes : JobsTo(p)' \subseteq JobsTo(p) \cup {s.id}
      <3> DEFINE S == Posts(Ids)
      <3>1. m \in S /\ \A p \in Processes : inbox[p] \in Seq(S)
        BY <1>0, <2>3 DEF ProcTyped
      <3> HIDE DEF S
      <3>2. \A q \in Seq(S) : IdsIn("job", Append(q, m)) = IdsIn("job", q) \cup {s.id}
        BY <2>3, <3>1, IdsAppend
      <3>3. \A p \in Processes :
              inbox'[p] = IF p \in ReachedBy(s.sink) THEN Append(inbox[p], m) ELSE inbox[p]
        BY <2>1 DEF m
      <3>4. QED
        BY <3>1, <3>2, <3>3, QueueIds
    <2>5. \A p, g : ReleasesFrom(p, g)' = ReleasesFrom(p, g)
      BY <2>2, QueueIds
    <2>6. \A t \in sending' : t \in sending /\ t.id # s.id
      BY <1>0, <2>2 DEF SendsAreFresh
    <2>7. QED
      BY <1>0, <1>n, <2>2, <2>4, <2>5, <2>6 DEF SendsAreFresh
  <1>4. ASSUME NEW j \in Jobs, Dispatch(j), sending = {}, UNCHANGED <<inbox, outbox, worker>>,
               handle' = handle \/ sending = {}, ~PostJob
        PROVE  SendsAreFresh'
    <2>1. CASE worker # NoSink
      <3>1. sending' = {[id |-> nextId, job |-> j, sink |-> worker]}
        BY <1>4, <2>1 DEF Dispatch, Register
      <3>2. QED
        BY <1>2, <1>4, <3>1
    <2>2. CASE worker = NoSink
      <3>1. sending' = {}
        BY <1>4, <2>2 DEF Dispatch
      <3>2. QED
        BY <1>n, <3>1 DEF SendsAreFresh
    <2>3. QED
      BY <2>1, <2>2
  <1>5. ASSUME PageCalls, ~PostJob PROVE SendsAreFresh'
    <2>1. sending = {} /\ UNCHANGED <<inbox, outbox>>
      BY <1>5 DEF PageCalls, PageFree, Idle, procVars
    <2>2. PICK j \in Jobs :
            \/ j \notin TileJobs /\ Offload(j)
            \/ j \in TileJobs /\ OffloadToLane(j)
            \/ Cancel(j)
      BY <1>5 DEF PageCalls
    <2>3. CASE Offload(j)
      BY <1>4, <1>5, <2>1, <2>3 DEF Offload
    <2>4. CASE j \in TileJobs /\ OffloadToLane(j)
      <3>1. /\ sending' = {[id |-> nextId, job |-> j, sink |-> lane]} /\ worker' = worker
            /\ handle'[j] = nextId
        BY <1>0, <2>1, <2>4 DEF OffloadToLane, Register, sinks, TypeOK
      <3>2. QED
        BY <1>2, <2>1, <2>4, <3>1
    <2>5. CASE Cancel(j)
      BY <1>1, <1>5, <2>5 DEF Cancel, sinks
    <2>6. QED
      BY <2>2, <2>3, <2>4, <2>5
  <1>6. ASSUME PageHandsOver, ~PostJob PROVE SendsAreFresh'
    <2>1. Head(todo) \in Jobs
      BY <1>0, <1>6, QueueTail DEF PageHandsOver, HandOver, TypeOK
    <2>2. /\ Dispatch(Head(todo)) /\ sending = {} /\ worker' = worker
          /\ UNCHANGED <<inbox, outbox>>
      BY <1>6 DEF PageHandsOver, HandOver, procVars
    <2>3. QED
      BY <1>4, <1>6, <2>1, <2>2
  <1>7. ASSUME PageRunsHere \/ PostRefused \/ Clock, ~PostJob PROVE SendsAreFresh'
    <2>1. sending' \subseteq sending /\ UNCHANGED <<handle, worker>>
      BY <1>7 DEF PageRunsHere, FinishHere, PostRefused, SendRefused, Clock, DeadlinePasses, sinks
    <2>2. QED
      BY <1>1, <1>7, <2>1
  <1>8. CASE Serves
    BY <1>3, <1>5, <1>6, <1>7, <1>8 DEF Serves
  <1>9. ASSUME \/ LoseWorker \/ LoseLane \/ Sweep \/ Spawns \/ ProcStep
               \/ \E g \in Generations : OnError(g)
               \/ \E n \in timers : FlushTimer(n)
               \/ \E g \in Generations : OnHello(g) \/ OnUseless(g) \/ OnLaneHello(g)
               \/ \E p \in Processes, g \in Generations :
                    OnLaneLost(p, g) \/ OnDone(p, g) \/ OnRelease(p, g) \/ OnStale(p, g),
               ~PostJob
        PROVE  SendsAreFresh'
    <2>1. CASE LoseWorker \/ LoseLane \/ Sweep
      <3>1. sending = {}
        BY <2>1 DEF LoseWorker, LoseLane, Sweep, PortInv, LossIsAnswered, Idle
      <3>2. sending' = sending
        BY <2>1, LosesFunnel
      <3>3. handle' = handle
        BY <2>1 DEF LoseWorker, LoseLane, Sweep, AbandonWorker, AbandonLane, funnelVars
      <3>4. QED
        BY <1>1, <1>9, <3>1, <3>2, <3>3
    <2>2. CASE Spawns
      <3>1. UNCHANGED <<sending, worker, handle>>
        BY <2>2, SpawnsDoes DEF Spawns, Attach, Respawn, Spawn, ExpectSink
      <3>2. QED
        BY <1>1, <1>9, <3>1
    <2>3. CASE ProcStep
      BY <1>1, <1>9, <2>3, ProcsLeaveFunnel DEF ProcStep, funnelVars
    <2>4. CASE \E g \in Generations : OnError(g) \/ OnUseless(g)
      BY <1>1, <1>9, <2>4 DEF OnError, OnUseless, funnelVars
    <2>5. ASSUME NEW n \in timers, FlushTimer(n) PROVE SendsAreFresh'
      <3>1. UNCHANGED <<sending, worker, handle>>
        BY <2>5 DEF FlushTimer, FlushExpired, funnelVars, sinks
      <3>2. QED
        BY <1>1, <1>9, <3>1
    <2>6. ASSUME NEW g \in Generations, OnHello(g) PROVE SendsAreFresh'
      <3>1. sending = {} /\ UNCHANGED <<sending, handle>>
        BY <2>6 DEF OnHello, SetWorker, Idle
      <3>2. QED
        BY <1>1, <1>9, <3>1
    <2>7. ASSUME NEW g \in Generations, OnLaneHello(g) PROVE SendsAreFresh'
      <3>1. UNCHANGED <<sending, worker, handle>>
        BY <2>7 DEF OnLaneHello, SetLane
      <3>2. QED
        BY <1>1, <1>9, <3>1
    <2>8. ASSUME NEW p \in Processes, NEW g \in Generations,
                 OnLaneLost(p, g) \/ OnDone(p, g) \/ OnRelease(p, g) \/ OnStale(p, g)
          PROVE  SendsAreFresh'
      <3>1. UNCHANGED <<sending, handle>>
        BY <2>8 DEF OnLaneLost, AbandonLane, OnDone, Reply, OnRelease, OnStale, funnelVars
      <3>2. worker' = worker
        BY <2>8, MessagesFunnel
      <3>3. QED
        BY <1>1, <1>9, <3>1, <3>2
    <2>9. QED
      BY <1>9, <2>1, <2>2, <2>3, <2>4, <2>5, <2>6, <2>7, <2>8
  <1>10. QED
    BY PortCases, <1>3, <1>8, <1>9

-----------------------------------------------------------------------------
LEMMA LoanInvInit == PortInit => LoanInv
  <1> SUFFICES ASSUME PortInit PROVE LoanInv
    OBVIOUS
  <1>1. /\ \A p \in Processes : inbox[p] = <<>> /\ \A g \in Generations : outbox[p][g] = <<>>
        /\ generation = 0 /\ lent = {} /\ sending = {}
        /\ \A j \in Jobs : handle[j] = 0
        /\ proc["worker"] = "none"
    BY DEF PortInit, FunnelInit, Processes
  <1>2. \A p \in Processes : JobsTo(p) = {} /\ \A g \in Generations : ReleasesFrom(p, g) = {}
    BY <1>1, QueueIds, IdsEmpty
  <1>3. SendsAreFresh /\ OldAreSilent
    BY <1>1 DEF SendsAreFresh, OldAreSilent, Processes
  <1>4. Books
    BY <1>1, <1>2 DEF Books, LentIsRead, CopiesLendNothing
  <1>5. QED
    BY <1>3, <1>4 DEF LoanInv

LEMMA LoanInvStep == PortInv /\ LoanInv /\ [PortNext]_vars => LoanInv'
  <1>1. ASSUME PortInv, LoanInv, PortNext PROVE LoanInv'
    BY <1>1, SendsStep, OldStep, BooksStep DEF LoanInv
  <1>2. ASSUME LoanInv, UNCHANGED vars PROVE LoanInv'
    <2>1. /\ UNCHANGED <<inbox, outbox, proc, generation, lent, turn>>
          /\ UNCHANGED <<sending, worker, handle, fate>>
      BY <1>2 DEF vars, funnelVars, pageVars, procVars
    <2>2. (\A p : JobsTo(p)' = JobsTo(p)) /\ \A p, g : ReleasesFrom(p, g)' = ReleasesFrom(p, g)
      BY <2>1, QueueIds
    <2>3. SendsAreFresh' /\ OldAreSilent'
      BY <1>2, <2>1, <2>2 DEF LoanInv, SendsAreFresh, OldAreSilent
    <2>4. Books'
      BY <1>2, <2>1, <2>2, QueueIds
      DEF LoanInv, Books, OneMessage, ReadIsLent, LentIsRead, CopiesLendNothing, Once
    <2>5. QED
      BY <2>3, <2>4 DEF LoanInv
  <1>3. QED
    BY <1>1, <1>2

(* No process copies freed memory, no RELEASE finds its loan gone, and no render's loan *)
(* is forgotten, through any number of posts, losses, lanes and workers.                *)
THEOREM LoansAreKept == PortSpec => []LentWhileRead
  <1>1. PortInv /\ LoanInv => LentWhileRead
    <2> SUFFICES ASSUME PortInv, LoanInv, turn = "free" PROVE LentWhileRead
      BY DEF LentWhileRead
    <2>1. \A p \in Processes : proc[p] # "none" => generation > 0
      BY DEF PortInv, LossIsAnswered, GoneIsSilent, PageTyped, Processes
    <2>2. \A p \in Processes :
            proc[p] # "none" =>
                /\ Loans(JobsTo(p)) \subseteq lent
                /\ ReleasesFrom(p, generation) \subseteq lent
                /\ JobsTo(p) \cap ReleasesFrom(p, generation) = {}
      BY <2>1 DEF LoanInv, Books, OneMessage, ReadIsLent
    <2>3. QED
      BY <2>2 DEF LoanInv, Books, LentIsRead, LentWhileRead
  <1>2. QED
    BY <1>1, LoanInvInit, LoanInvStep, PortInvariance, PTL DEF PortSpec

=============================================================================
