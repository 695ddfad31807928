----------------------------- MODULE JobPoolProofs -----------------------------
(***************************************************************************)
(* The native pool's safety for every set of jobs, every set of threads,   *)
(* and whichever of them started: who carries a job, and how often it runs *)
(***************************************************************************)
EXTENDS JobPool, JobFunnelProofs

(* A channel as the set of what is in it. *)
Entries(q) == {q[i] : i \in 1..Len(q)}
OneEach(q) == \A a, b \in 1..Len(q) : q[a].job = q[b].job => a = b

LEMMA ChannelAppend ==
    ASSUME NEW q \in Seq(Entry), NEW e \in Entry
    PROVE  /\ Append(q, e) \in Seq(Entry) /\ Append(q, e) # <<>>
           /\ \A f : f \in Entries(Append(q, e)) <=> f \in Entries(q) \/ f = e
           /\ OneEach(q) /\ (\A f \in Entries(q) : f.job # e.job) => OneEach(Append(q, e))
  <1> DEFINE r == Append(q, e)
  <1>1. /\ r \in Seq(Entry) /\ r # <<>> /\ Len(r) = Len(q) + 1 /\ Len(q) \in Nat
        /\ \A i \in 1..Len(q) : r[i] = q[i]
        /\ r[Len(q) + 1] = e
    OBVIOUS
  <1> HIDE DEF r
  <1>2. \A f : f \in Entries(r) <=> f \in Entries(q) \/ f = e
    BY <1>1 DEF Entries
  <1>3. ASSUME OneEach(q), \A f \in Entries(q) : f.job # e.job
        PROVE  OneEach(r)
    <2>1. \A i \in 1..Len(q) : q[i].job # e.job
      BY <1>3 DEF Entries
    <2>2. QED
      BY <1>1, <1>3, <2>1 DEF OneEach
  <1>4. QED
    BY <1>1, <1>2, <1>3 DEF r

LEMMA ChannelTail ==
    ASSUME NEW q \in Seq(Entry), q # <<>>
    PROVE  /\ Head(q) \in Entry /\ Tail(q) \in Seq(Entry)
           /\ \A f : f \in Entries(q) <=> f \in Entries(Tail(q)) \/ f = Head(q)
           /\ OneEach(q) => /\ OneEach(Tail(q))
                            /\ \A f \in Entries(Tail(q)) : f.job # Head(q).job
  <1> DEFINE r == Tail(q)
             h == Head(q)
  <1>1. /\ h \in Entry /\ h = q[1] /\ r \in Seq(Entry)
        /\ Len(q) \in Nat \ {0} /\ Len(r) = Len(q) - 1
        /\ \A i \in 1..Len(r) : r[i] = q[i + 1]
    OBVIOUS
  <1> HIDE DEF r, h
  <1>2. ASSUME NEW f PROVE f \in Entries(q) <=> f \in Entries(r) \/ f = h
    <2>1. ASSUME f \in Entries(q), f # h PROVE f \in Entries(r)
      <3>1. PICK i \in 1..Len(q) : f = q[i]
        BY <2>1 DEF Entries
      <3>2. i - 1 \in 1..Len(r) /\ r[i - 1] = f
        BY <1>1, <2>1, <3>1
      <3>3. QED
        BY <3>2 DEF Entries
    <2>2. ASSUME f \in Entries(r) PROVE f \in Entries(q)
      <3>1. PICK i \in 1..Len(r) : f = r[i]
        BY <2>2 DEF Entries
      <3>2. i + 1 \in 1..Len(q) /\ q[i + 1] = f
        BY <1>1, <3>1
      <3>3. QED
        BY <3>2 DEF Entries
    <2>3. h \in Entries(q)
      BY <1>1 DEF Entries
    <2>4. QED
      BY <2>1, <2>2, <2>3
  <1>3. ASSUME OneEach(q) PROVE OneEach(r) /\ \A f \in Entries(r) : f.job # h.job
    <2>1. OneEach(r)
      <3>1. SUFFICES ASSUME NEW a \in 1..Len(r), NEW b \in 1..Len(r), r[a].job = r[b].job
                     PROVE  a = b
        BY DEF OneEach
      <3>2. a + 1 \in 1..Len(q) /\ b + 1 \in 1..Len(q) /\ q[a + 1].job = q[b + 1].job
        BY <1>1, <3>1
      <3>3. a + 1 = b + 1
        BY <1>3, <3>2 DEF OneEach
      <3>4. QED
        BY <3>3
    <2>2. ASSUME NEW f \in Entries(r), f.job = h.job PROVE FALSE
      <3>1. PICK i \in 1..Len(r) : f = r[i]
        BY <2>2 DEF Entries
      <3>2. i + 1 \in 1..Len(q) /\ 1 \in 1..Len(q) /\ q[i + 1].job = q[1].job /\ i + 1 # 1
        BY <1>1, <2>2, <3>1
      <3>3. QED
        BY <1>3, <3>2 DEF OneEach
    <2>3. QED
      BY <2>1, <2>2
  <1>4. QED
    BY <1>1, <1>2, <1>3 DEF r, h

-----------------------------------------------------------------------------
(* Where a job may be. *)
SendHas(j) == \E s \in sending : s.job = j
LaneHas(l, j) == \E e \in Entries(queue[l]) : e.job = j
HandHas(t, j) == thread[t] # NoTask /\ thread[t].entry.job = j

TaskRec == [stage : Stages, entry : Entry, outcome : Outcomes]

QueuesOK ==
    /\ DOMAIN queue = Lanes
    /\ \A l \in Lanes :
        /\ queue[l] \in Seq(Entry) /\ OneEach(queue[l])
        /\ queue[l] # <<>> => HasReceiver(l)
        /\ \A e \in Entries(queue[l]) : LaneOf(e.job) = l

ThreadsOK ==
    /\ DOMAIN thread = Threads /\ started \subseteq Threads
    /\ \A t \in Threads : thread[t] # NoTask =>
        /\ t \in started /\ thread[t] \in TaskRec
        /\ t \in ThreadsOf(LaneOf(thread[t].entry.job))

(* A job is in one of `send`, the channels, the threads' hands and the fallback runs. *)
OneSend == \A s, u \in sending : s.job = u.job => s = u

OneCarrier ==
    \A j \in Jobs :
        /\ SendHas(j) => /\ j \notin here
                         /\ \A l \in Lanes : ~LaneHas(l, j)
                         /\ \A t \in Threads : ~HandHas(t, j)
        /\ \A l \in Lanes : LaneHas(l, j) =>
                /\ j \notin here
                /\ \A t \in Threads : ~HandHas(t, j)
        /\ \A t \in Threads : HandHas(t, j) =>
                /\ j \notin here
                /\ \A u \in Threads : HandHas(u, j) => u = t

(* A job has run when a thread has claimed it, and not before. *)
Counted ==
    \A j \in Jobs :
        /\ runs[j] \in {0, 1}
        /\ fate[j] = "new" => /\ runs[j] = 0 /\ ~SendHas(j)
                              /\ \A l \in Lanes : ~LaneHas(l, j)
                              /\ \A t \in Threads : ~HandHas(t, j)
        /\ SendHas(j) \/ j \in here => runs[j] = 0
        /\ \A l \in Lanes : LaneHas(l, j) => runs[j] = 0
        /\ \A t \in Threads : HandHas(t, j) =>
                runs[j] = IF thread[t].stage = "taken" THEN 0 ELSE 1
        /\ fate[j] = "value" => runs[j] = 1

(* Whoever has the job of a registry entry has that entry. *)
Carried ==
    \A e \in pending :
        \/ e \in sending
        \/ \E l \in Lanes : e \in Entries(queue[l])
        \/ \E t \in Threads : thread[t] # NoTask /\ thread[t].entry = e

Carriers == OneSend /\ QueuesOK /\ ThreadsOK /\ OneCarrier /\ Counted /\ Carried

PoolInv ==
    /\ FunnelInv /\ worker # NoSink
    /\ runs \in [Jobs -> Nat]
    /\ Carriers

(* What the pool holds, where a step leaves it alone. *)
LEMMA SamePool ==
    ASSUME UNCHANGED <<queue, thread>>
    PROVE  /\ \A l, k : LaneHas(l, k)' <=> LaneHas(l, k)
           /\ \A t, k : HandHas(t, k)' <=> HandHas(t, k)
  BY DEF LaneHas, HandHas

(* Steps of a caller, who changes nothing but the registry and fates. *)
LEMMA CallerStep ==
    ASSUME PoolInv, NEW j \in Jobs, NEW f \in {"owed", "nothing"},
           fate[j] \in {"new", "owed"}, f = "owed" => fate[j] = "new",
           fate' = [fate EXCEPT ![j] = f],
           UNCHANGED <<poolVars, here>>,
           \/ /\ f = "nothing" /\ pending' \subseteq pending /\ sending' = sending
           \/ /\ f = "owed"
              /\ \E e : /\ e.job = j /\ pending' = pending \cup {e} /\ sending' = sending \cup {e}
    PROVE  Carriers'
  <1>0. /\ OneSend /\ QueuesOK /\ ThreadsOK /\ OneCarrier /\ Counted /\ Carried
        /\ fate \in [Jobs -> Fates]
    BY DEF PoolInv, Carriers, FunnelInv, TypeOK
  <1>1. UNCHANGED <<queue, thread, started, runs>>
    BY DEF poolVars
  <1>2. /\ \A l, k : LaneHas(l, k)' <=> LaneHas(l, k)
        /\ \A t, k : HandHas(t, k)' <=> HandHas(t, k)
    BY <1>1, SamePool
  <1>3. /\ \A k \in Jobs : k # j => fate'[k] = fate[k]
        /\ fate'[j] = f
    BY <1>0
  <1>4. \A k \in Jobs : SendHas(k)' <=> SendHas(k) \/ (f = "owed" /\ k = j)
    BY DEF SendHas
  <1>5. f = "owed" => /\ ~SendHas(j) /\ runs[j] = 0 /\ j \notin here
                      /\ \A l \in Lanes : ~LaneHas(l, j)
                      /\ \A t \in Threads : ~HandHas(t, j)
    <2>1. fate[j] = "new" => j \notin here
      BY DEF PoolInv, FunnelInv, Flat, OwedSomewhere
    <2>2. QED
      BY <1>0, <2>1, Zenon DEF Counted
  <1>6. OneSend'
    BY <1>0, <1>5 DEF OneSend, SendHas
  <1>7. QueuesOK' /\ ThreadsOK'
    BY <1>0, <1>1 DEF QueuesOK, ThreadsOK, HasReceiver
  <1>8. OneCarrier'
    <2>1. here' = here
      OBVIOUS
    <2>2. ASSUME NEW k \in Jobs
          PROVE  /\ SendHas(k)' => /\ k \notin here'
                                   /\ \A l \in Lanes : ~LaneHas(l, k)
                                   /\ \A t \in Threads : ~HandHas(t, k)
                 /\ \A l \in Lanes : LaneHas(l, k) =>
                        k \notin here' /\ \A t \in Threads : ~HandHas(t, k)
                 /\ \A t \in Threads : HandHas(t, k) =>
                        k \notin here' /\ \A u \in Threads : HandHas(u, k) => u = t
      <3>1. CASE SendHas(k)
        BY <1>0, <2>1, <3>1, Zenon DEF OneCarrier
      <3>2. CASE ~SendHas(k) /\ SendHas(k)'
        BY <1>4, <1>5, <2>1, <3>2, Zenon
      <3>3. CASE ~SendHas(k)'
        BY <1>0, <2>1, <3>3, Zenon DEF OneCarrier
      <3>4. QED
        BY <3>1, <3>2, <3>3, Zenon
    <2>3. QED
      BY <1>2, <2>2, Zenon DEF OneCarrier
  <1>9. Counted'
    <2>1. SUFFICES ASSUME NEW k \in Jobs
          PROVE  /\ runs[k] \in {0, 1}
                 /\ fate'[k] = "new" => /\ runs[k] = 0 /\ ~SendHas(k)'
                                        /\ \A l \in Lanes : ~LaneHas(l, k)
                                        /\ \A t \in Threads : ~HandHas(t, k)
                 /\ SendHas(k)' \/ k \in here => runs[k] = 0
                 /\ \A l \in Lanes : LaneHas(l, k) => runs[k] = 0
                 /\ \A t \in Threads : HandHas(t, k) =>
                        runs[k] = IF thread[t].stage = "taken" THEN 0 ELSE 1
                 /\ fate'[k] = "value" => runs[k] = 1
      BY <1>1, <1>2, Zenon DEF Counted
    <2>2. CASE k # j
      BY <1>0, <1>3, <1>4, <2>2, Zenon DEF Counted
    <2>3. CASE k = j
      <3>1. fate'[k] # "new" /\ fate'[k] # "value"
        BY <1>3, <2>3
      <3>2. QED
        BY <1>0, <1>3, <1>4, <1>5, <2>3, <3>1, Zenon DEF Counted
    <2>4. QED
      BY <2>2, <2>3
  <1>10. Carried'
    BY <1>0, <1>1 DEF Carried
  <1>11. QED
    BY <1>6, <1>7, <1>8, <1>9, <1>10 DEF Carriers

LEMMA CallersKeep ==
    ASSUME PoolInv, Callers
    PROVE  Carriers'
  <1>0. /\ UNCHANGED poolVars /\ worker # NoSink /\ fate \in [Jobs -> Fates]
        /\ \A e \in pending : e.job \in Jobs /\ fate[e.job] = "owed"
    BY DEF Callers, PoolInv, FunnelInv, TypeOK, Flat, OwedSomewhere, Registered, Entry
  <1>1. ASSUME NEW j \in Jobs, Offload(j) PROVE Carriers'
    <2> DEFINE e == [id |-> nextId, job |-> j, sink |-> worker]
    <2>1. /\ fate[j] = "new" /\ fate' = [fate EXCEPT ![j] = "owed"] /\ here' = here
          /\ pending' = pending \cup {e} /\ sending' = sending \cup {e}
      BY <1>0, <1>1 DEF Offload, Dispatch, Register
    <2>2. e.job = j
      OBVIOUS
    <2> HIDE DEF e
    <2>3. \E x : x.job = j /\ pending' = pending \cup {x} /\ sending' = sending \cup {x}
      BY <2>1, <2>2, Zenon
    <2>4. QED
      BY <1>0, <2>1, <2>3, CallerStep
  <1>2. ASSUME NEW j \in Jobs, RendersNothing(j) PROVE Carriers'
    <2>1. /\ fate[j] = "new" /\ fate' = [fate EXCEPT ![j] = "nothing"]
          /\ UNCHANGED <<pending, sending, here>>
      BY <1>0, <1>2 DEF RendersNothing, Delivered
    <2>2. QED
      BY <1>0, <2>1, CallerStep
  <1>3. ASSUME NEW j \in Jobs, Cancel(j) PROVE Carriers'
    <2>1. PICK e \in pending : pending' = pending \ {e} /\ fate' = Delivered({e.job}, "nothing")
      BY <1>3 DEF Cancel
    <2>2. UNCHANGED <<sending, here>> /\ pending' \subseteq pending
      BY <1>3, <2>1 DEF Cancel
    <2>3. e.job \in Jobs /\ fate[e.job] = "owed" /\ fate' = [fate EXCEPT ![e.job] = "nothing"]
      BY <1>0, <2>1 DEF Delivered
    <2>4. QED
      BY <1>0, <2>2, <2>3, CallerStep
  <1>4. QED
    BY <1>1, <1>2, <1>3 DEF Callers

(* A send taken: the entry goes from `send` into its row's channel. *)
LEMMA TakesKeep ==
    ASSUME PoolInv, PoolTakes
    PROVE  Carriers'
  <1>0. /\ OneSend /\ QueuesOK /\ ThreadsOK /\ OneCarrier /\ Counted /\ Carried
        /\ sending \subseteq Entry
    BY DEF PoolInv, Carriers, FunnelInv, TypeOK
  <1>1. PICK s \in sending : /\ HasReceiver(LaneOf(s.job)) /\ SendTaken(s)
                             /\ queue' = [queue EXCEPT ![LaneOf(s.job)] = Append(@, s)]
    BY DEF PoolTakes
  <1> DEFINE l == LaneOf(s.job)
             j == s.job
             q == Append(queue[l], s)
  <1>2. /\ sending' = sending \ {s} /\ UNCHANGED <<pending, here, fate>>
        /\ UNCHANGED <<started, thread, runs>>
    BY <1>1 DEF PoolTakes, SendTaken
  <1>3. l \in Lanes /\ j \in Jobs /\ s \in Entry
    BY <1>0 DEF LaneOf, Lanes, Entry
  <1>4. /\ SendHas(j) /\ runs[j] = 0 /\ j \notin here /\ fate[j] # "new"
        /\ \A m \in Lanes : ~LaneHas(m, j)
        /\ \A t \in Threads : ~HandHas(t, j)
    <2>1. SendHas(j)
      BY DEF SendHas
    <2>2. QED
      BY <1>0, <1>3, <2>1, Zenon DEF OneCarrier, Counted
  <1>5. /\ q \in Seq(Entry) /\ q # <<>> /\ OneEach(q)
        /\ \A f : f \in Entries(q) <=> f \in Entries(queue[l]) \/ f = s
    <2>1. queue[l] \in Seq(Entry) /\ OneEach(queue[l])
      BY <1>0, <1>3, Zenon DEF QueuesOK
    <2>2. \A f \in Entries(queue[l]) : f.job # s.job
      BY <1>3, <1>4, Zenon DEF LaneHas
    <2>3. QED
      BY <1>3, <2>1, <2>2, ChannelAppend
  <1>6. /\ DOMAIN queue' = Lanes /\ queue'[l] = q
        /\ \A m \in Lanes : m # l => queue'[m] = queue[m]
    BY <1>0, <1>1, <1>3, Zenon DEF QueuesOK
  <1>7. HasReceiver(l) /\ LaneOf(s.job) = l /\ s.job = j
    BY <1>1
  <1> HIDE DEF l, j, q
  <1>8. /\ \A k \in Jobs : SendHas(k)' => SendHas(k)
        /\ ~SendHas(j)'
    BY <1>0, <1>2, <1>7 DEF SendHas, OneSend
  <1>9. \A m \in Lanes, k \in Jobs : LaneHas(m, k)' <=> LaneHas(m, k) \/ (m = l /\ k = j)
    BY <1>5, <1>6, <1>7, Zenon DEF LaneHas
  <1>10. \A t, k : HandHas(t, k)' <=> HandHas(t, k)
    BY <1>2 DEF HandHas
  <1>11. OneSend'
    BY <1>0, <1>2 DEF OneSend
  <1>12. QueuesOK'
    <2>1. ASSUME NEW m \in Lanes
          PROVE  /\ queue'[m] \in Seq(Entry) /\ OneEach(queue'[m])
                 /\ queue'[m] # <<>> => HasReceiver(m)
                 /\ \A e \in Entries(queue'[m]) : LaneOf(e.job) = m
      <3>1. CASE m = l
        BY <1>0, <1>3, <1>5, <1>6, <1>7, <3>1, Zenon DEF QueuesOK
      <3>2. CASE m # l
        BY <1>0, <1>6, <3>2, Zenon DEF QueuesOK
      <3>3. QED
        BY <3>1, <3>2
    <2>2. started' = started
      BY <1>2
    <2>3. QED
      BY <1>6, <2>1, <2>2, Zenon DEF QueuesOK, HasReceiver
  <1>13. ThreadsOK'
    BY <1>0, <1>2 DEF ThreadsOK
  <1>14. OneCarrier'
    <2>1. here' = here
      BY <1>2
    <2>2. QED
      BY <1>0, <1>3, <1>4, <1>8, <1>9, <1>10, <2>1, Zenon DEF OneCarrier
  <1>15. Counted'
    <2>1. UNCHANGED <<here, fate, runs, thread>>
      BY <1>2
    <2>2. QED
      BY <1>0, <1>3, <1>4, <1>8, <1>9, <1>10, <2>1, Zenon DEF Counted
  <1>16. Carried'
    <2>1. ASSUME NEW e \in pending, e \in sending, e # s
          PROVE  e \in sending'
      BY <1>2, <2>1
    <2>2. s \in Entries(queue'[l])
      BY <1>5, <1>6, Zenon
    <2>3. \A e, m : m \in Lanes /\ e \in Entries(queue[m]) => e \in Entries(queue'[m])
      BY <1>5, <1>6, Zenon
    <2>4. pending' = pending /\ thread' = thread
      BY <1>2
    <2>5. QED
      BY <1>0, <1>3, <2>1, <2>2, <2>3, <2>4, Zenon DEF Carried
  <1>17. QED
    BY <1>11, <1>12, <1>13, <1>14, <1>15, <1>16 DEF Carriers

(* A send refused: the entry leaves the registry, and its job may run here. *)
LEMMA RefusalKeeps ==
    ASSUME PoolInv, PoolRefuses
    PROVE  Carriers'
  <1>0. /\ OneSend /\ QueuesOK /\ ThreadsOK /\ OneCarrier /\ Counted /\ Carried
        /\ sending \subseteq Entry /\ fate \in [Jobs -> Fates]
    BY DEF PoolInv, Carriers, FunnelInv, TypeOK
  <1>1. PICK s \in sending : SendRefused(s)
    BY DEF PoolRefuses
  <1> DEFINE j == s.job
  <1>2. /\ sending' = sending \ {s} /\ pending' = pending \ {s}
        /\ UNCHANGED <<queue, thread, started, runs>>
    BY <1>1 DEF PoolRefuses, SendRefused, poolVars
  <1>3. j \in Jobs /\ SendHas(j)
    BY <1>0 DEF Entry, SendHas
  <1>4. /\ here' \subseteq here \cup {j}
        /\ \A k \in Jobs : k # j => fate'[k] = fate[k]
        /\ fate'[j] \in {fate[j], "returned"}
    BY <1>0, <1>1 DEF SendRefused, Delivered
  <1>5. /\ runs[j] = 0 /\ fate[j] # "new" /\ fate[j] # "value"
        /\ \A l \in Lanes : ~LaneHas(l, j)
        /\ \A t \in Threads : ~HandHas(t, j)
    <2>1. runs[j] = 0 /\ fate[j] # "new" /\ (fate[j] = "value" => runs[j] = 1)
      BY <1>0, <1>3, Zenon DEF Counted
    <2>2. /\ \A l \in Lanes : ~LaneHas(l, j)
          /\ \A t \in Threads : ~HandHas(t, j)
      BY <1>0, <1>3, Zenon DEF OneCarrier
    <2>3. fate[j] # "value"
      BY <2>1
    <2>4. QED
      BY <2>1, <2>2, <2>3
  <1>6. ~SendHas(j)' /\ \A k : SendHas(k)' => SendHas(k)
    BY <1>0, <1>2 DEF SendHas, OneSend
  <1>7. /\ \A l, k : LaneHas(l, k)' <=> LaneHas(l, k)
        /\ \A t, k : HandHas(t, k)' <=> HandHas(t, k)
    BY <1>2, SamePool
  <1>8. fate'[j] # "new" /\ fate'[j] # "value"
    BY <1>4, <1>5
  <1>a. \A k \in here' : k = j \/ k \in here
    BY <1>4
  <1> HIDE DEF j
  <1>9. OneSend' /\ QueuesOK' /\ ThreadsOK'
    BY <1>0, <1>2 DEF OneSend, QueuesOK, ThreadsOK, HasReceiver
  <1>10. OneCarrier'
    <2>1. ASSUME NEW k \in Jobs
          PROVE  /\ SendHas(k)' => /\ k \notin here'
                                   /\ \A l \in Lanes : ~LaneHas(l, k)
                                   /\ \A t \in Threads : ~HandHas(t, k)
                 /\ \A l \in Lanes : LaneHas(l, k) =>
                        k \notin here' /\ \A t \in Threads : ~HandHas(t, k)
                 /\ \A t \in Threads : HandHas(t, k) =>
                        k \notin here' /\ \A u \in Threads : HandHas(u, k) => u = t
      <3>1. CASE k # j
        BY <1>0, <1>6, <1>a, <3>1, Zenon DEF OneCarrier
      <3>2. CASE k = j
        BY <1>5, <1>6, <3>2, Zenon
      <3>3. QED
        BY <3>1, <3>2
    <2>2. QED
      BY <1>7, <2>1, Zenon DEF OneCarrier
  <1>11. Counted'
    <2>1. ASSUME NEW k \in Jobs
          PROVE  /\ runs[k] \in {0, 1}
                 /\ fate'[k] = "new" => /\ runs[k] = 0 /\ ~SendHas(k)'
                                        /\ \A l \in Lanes : ~LaneHas(l, k)
                                        /\ \A t \in Threads : ~HandHas(t, k)
                 /\ SendHas(k)' \/ k \in here' => runs[k] = 0
                 /\ \A l \in Lanes : LaneHas(l, k) => runs[k] = 0
                 /\ \A t \in Threads : HandHas(t, k) =>
                        runs[k] = IF thread[t].stage = "taken" THEN 0 ELSE 1
                 /\ fate'[k] = "value" => runs[k] = 1
      <3>1. CASE k # j
        BY <1>0, <1>4, <1>6, <1>a, <3>1, Zenon DEF Counted
      <3>2. CASE k = j
        BY <1>0, <1>5, <1>6, <1>8, <3>2, Zenon DEF Counted
      <3>3. QED
        BY <3>1, <3>2
    <2>2. runs' = runs /\ thread' = thread
      BY <1>2
    <2>3. QED
      BY <1>7, <2>1, <2>2, Zenon DEF Counted
  <1>12. Carried'
    BY <1>0, <1>2 DEF Carried
  <1>13. QED
    BY <1>9, <1>10, <1>11, <1>12 DEF Carriers

(* A fallback run has executed. *)
LEMMA FallbackKeeps ==
    ASSUME PoolInv, NEW j \in Jobs, Fallback(j)
    PROVE  Carriers'
  <1>0. /\ OneSend /\ QueuesOK /\ ThreadsOK /\ OneCarrier /\ Counted /\ Carried
        /\ fate \in [Jobs -> Fates] /\ runs \in [Jobs -> Nat]
    BY DEF PoolInv, Carriers, FunnelInv, TypeOK
  <1>1. PICK o \in HereOutcomes : FinishHere(j, o)
    BY DEF Fallback, EndsHere
  <1>2. /\ j \in here /\ here' = here \ {j}
        /\ UNCHANGED <<pending, sending, queue, thread, started>>
    BY <1>1 DEF Fallback, FinishHere
  <1>3. runs[j] = 0
    BY <1>0, <1>2, Zenon DEF Counted
  <1>4. /\ runs'[j] = 1 /\ \A k \in Jobs : k # j => runs'[k] = runs[k]
    BY <1>0, <1>3 DEF Fallback
  <1>5. /\ fate'[j] # "new" /\ \A k \in Jobs : k # j => fate'[k] = fate[k]
    BY <1>0, <1>1 DEF FinishHere, Delivered, HereOutcomes, Outcomes
  <1>6. /\ ~SendHas(j) /\ \A l \in Lanes : ~LaneHas(l, j)
        /\ \A t \in Threads : ~HandHas(t, j)
    BY <1>0, <1>2, Zenon DEF OneCarrier
  <1>7. /\ \A l, k : LaneHas(l, k)' <=> LaneHas(l, k)
        /\ \A t, k : HandHas(t, k)' <=> HandHas(t, k)
        /\ \A k : SendHas(k)' <=> SendHas(k)
    BY <1>2, SamePool DEF SendHas
  <1>8. OneSend' /\ QueuesOK' /\ ThreadsOK' /\ Carried'
    BY <1>0, <1>2 DEF OneSend, QueuesOK, ThreadsOK, HasReceiver, Carried
  <1>9. j \notin here' /\ \A k \in here' : k \in here
    BY <1>2
  <1>10. OneCarrier'
    BY <1>0, <1>7, <1>9, Zenon DEF OneCarrier
  <1>11. Counted'
    <2>1. ASSUME NEW k \in Jobs
          PROVE  /\ runs'[k] \in {0, 1}
                 /\ fate'[k] = "new" => /\ runs'[k] = 0 /\ ~SendHas(k)
                                        /\ \A l \in Lanes : ~LaneHas(l, k)
                                        /\ \A t \in Threads : ~HandHas(t, k)
                 /\ SendHas(k) \/ k \in here' => runs'[k] = 0
                 /\ \A l \in Lanes : LaneHas(l, k) => runs'[k] = 0
                 /\ \A t \in Threads : HandHas(t, k) =>
                        runs'[k] = IF thread[t].stage = "taken" THEN 0 ELSE 1
                 /\ fate'[k] = "value" => runs'[k] = 1
      <3>1. CASE k # j
        BY <1>0, <1>4, <1>5, <1>9, <3>1, Zenon DEF Counted
      <3>2. CASE k = j
        BY <1>4, <1>5, <1>6, <1>9, <3>2, Zenon
      <3>3. QED
        BY <3>1, <3>2
    <2>2. thread' = thread
      BY <1>2
    <2>3. QED
      BY <1>7, <2>1, <2>2, Zenon DEF Counted
  <1>12. QED
    BY <1>8, <1>10, <1>11 DEF Carriers

-----------------------------------------------------------------------------
(* A thread takes the head of its lane's channel. *)
LEMMA RecvKeeps ==
    ASSUME PoolInv, NEW t \in Threads, NEW l \in Lanes, Recv(t, l)
    PROVE  Carriers'
  <1>0. OneSend /\ QueuesOK /\ ThreadsOK /\ OneCarrier /\ Counted /\ Carried
    BY DEF PoolInv, Carriers
  <1> DEFINE q == queue[l]
  <1>a. q \in Seq(Entry) /\ q # <<>>
    BY <1>0, Zenon DEF QueuesOK, Recv
  <1>b. PICK e \in Entry : e = Head(q)
    BY <1>a, ChannelTail
  <1> DEFINE j == e.job
             task == Task("taken", e, "nothing")
  <1>1. /\ t \in started \cap ThreadsOf(l) /\ thread[t] = NoTask /\ q # <<>>
        /\ thread' = [thread EXCEPT ![t] = task]
        /\ queue' = [queue EXCEPT ![l] = Tail(q)]
        /\ UNCHANGED <<pending, sending, here, fate, started, runs>>
    BY <1>b DEF Recv, funnelVars
  <1>2. /\ task # NoTask /\ task.stage = "taken" /\ task.entry = e
        /\ e \in Entry => task \in TaskRec
    <2>1. task.stage # NoTask.stage
      BY DEF Task, NoTask
    <2>2. task.stage = "taken" /\ task.entry = e /\ task.outcome = "nothing"
      BY DEF Task
    <2>3. ASSUME e \in Entry PROVE task \in TaskRec
      BY <2>3 DEF Task, TaskRec, Stages, Outcomes
    <2>4. QED
      BY <2>1, <2>2, <2>3
  <1>3. /\ e \in Entry /\ Tail(q) \in Seq(Entry) /\ OneEach(Tail(q))
        /\ \A f : f \in Entries(q) <=> f \in Entries(Tail(q)) \/ f = e
        /\ \A f \in Entries(Tail(q)) : f.job # j
    <2>1. q \in Seq(Entry) /\ OneEach(q)
      BY <1>0, Zenon DEF QueuesOK
    <2>2. QED
      BY <1>1, <1>b, <2>1, ChannelTail
  <1>4. LaneOf(j) = l /\ HasReceiver(l)
    BY <1>0, <1>1, <1>3, Zenon DEF QueuesOK
  <1>5. j \in Jobs
    BY <1>3 DEF Entry
  <1> DEFINE rest == Tail(q)
  <1>6. /\ DOMAIN queue' = Lanes /\ queue'[l] = rest
        /\ \A m \in Lanes : m # l => queue'[m] = queue[m]
    BY <1>0, <1>1, Zenon DEF QueuesOK
  <1>7. /\ DOMAIN thread' = Threads /\ thread'[t] = task
        /\ \A u \in Threads : u # t => thread'[u] = thread[u]
    BY <1>0, <1>1, Zenon DEF ThreadsOK
  <1>8. LaneHas(l, j)
    BY <1>3, Zenon DEF LaneHas
  <1>9. /\ runs[j] = 0 /\ j \notin here /\ fate[j] # "new" /\ ~SendHas(j)
        /\ \A u \in Threads : ~HandHas(u, j)
    BY <1>0, <1>5, <1>8, Zenon DEF OneCarrier, Counted
  <1>10. \A m \in Lanes : m # l => ~LaneHas(m, j)
    BY <1>0, <1>4, Zenon DEF LaneHas, QueuesOK
  <1> HIDE DEF q, task, rest
  <1>11. /\ \A m \in Lanes, k \in Jobs : LaneHas(m, k)' => LaneHas(m, k)
         /\ \A m \in Lanes : ~LaneHas(m, j)'
    <2>1. \A k : LaneHas(l, k)' => LaneHas(l, k) /\ k # j
      BY <1>3, <1>6, Zenon DEF LaneHas, q, rest
    <2>2. \A m \in Lanes : m # l => \A k : LaneHas(m, k)' <=> LaneHas(m, k)
      BY <1>6, Zenon DEF LaneHas
    <2>3. QED
      BY <1>10, <2>1, <2>2, Zenon
  <1>12. /\ \A k \in Jobs : HandHas(t, k)' <=> k = j
         /\ \A u \in Threads : u # t => \A k : HandHas(u, k)' <=> HandHas(u, k)
         /\ \A k : ~HandHas(t, k)
    BY <1>1, <1>2, <1>7, Zenon DEF HandHas
  <1> HIDE DEF j
  <1>13. OneSend'
    BY <1>0, <1>1 DEF OneSend
  <1>14. QueuesOK'
    <2>1. ASSUME NEW m \in Lanes
          PROVE  /\ queue'[m] \in Seq(Entry) /\ OneEach(queue'[m])
                 /\ queue'[m] # <<>> => HasReceiver(m)
                 /\ \A f \in Entries(queue'[m]) : LaneOf(f.job) = m
      <3>1. CASE m = l
        <4>1. \A f \in Entries(rest) : LaneOf(f.job) = l
          BY <1>0, <1>3, Zenon DEF QueuesOK, q, rest
        <4>2. QED
          BY <1>3, <1>4, <1>6, <3>1, <4>1, Zenon DEF rest
      <3>2. CASE m # l
        BY <1>0, <1>6, <3>2, Zenon DEF QueuesOK
      <3>3. QED
        BY <3>1, <3>2
    <2>2. started' = started
      BY <1>1
    <2>3. QED
      BY <1>6, <2>1, <2>2, Zenon DEF QueuesOK, HasReceiver
  <1>15. ThreadsOK'
    <2>1. started' = started /\ t \in started /\ t \in ThreadsOf(l)
      BY <1>1
    <2>2. task.entry.job = j
      BY <1>2 DEF j
    <2>3. \A u \in Threads : u = t \/ u # t
      OBVIOUS
    <2>4. QED
      BY <1>0, <1>2, <1>3, <1>4, <1>7, <2>1, <2>2, <2>3, Zenon DEF ThreadsOK
  <1>16. \A k : SendHas(k)' <=> SendHas(k)
    BY <1>1 DEF SendHas
  <1>17. OneCarrier'
    <2>1. here' = here
      BY <1>1
    <2>2. ASSUME NEW k \in Jobs
          PROVE  /\ SendHas(k) => /\ k \notin here
                                  /\ \A m \in Lanes : ~LaneHas(m, k)'
                                  /\ \A u \in Threads : ~HandHas(u, k)'
                 /\ \A m \in Lanes : LaneHas(m, k)' =>
                        k \notin here /\ \A u \in Threads : ~HandHas(u, k)'
                 /\ \A u \in Threads : HandHas(u, k)' =>
                        k \notin here /\ \A v \in Threads : HandHas(v, k)' => v = u
      <3>1. CASE k = j
        <4>1. \A u \in Threads : HandHas(u, j)' => u = t
          BY <1>9, <1>12, Zenon
        <4>2. QED
          BY <1>9, <1>11, <4>1, <3>1, Zenon
      <3>2. CASE k # j
        <4>1. \A u \in Threads : HandHas(u, k)' <=> HandHas(u, k)
          BY <1>12, <3>2, Zenon
        <4>2. QED
          BY <1>0, <1>11, <4>1, Zenon DEF OneCarrier
      <3>3. QED
        BY <3>1, <3>2
    <2>3. QED
      BY <1>16, <2>1, <2>2, Zenon DEF OneCarrier
  <1>18. Counted'
    <2>1. UNCHANGED <<here, fate, runs>>
      BY <1>1
    <2>2. ASSUME NEW k \in Jobs
          PROVE  /\ fate[k] = "new" => /\ \A m \in Lanes : ~LaneHas(m, k)'
                                       /\ \A u \in Threads : ~HandHas(u, k)'
                 /\ \A m \in Lanes : LaneHas(m, k)' => runs[k] = 0
                 /\ \A u \in Threads : HandHas(u, k)' =>
                        runs[k] = IF thread'[u].stage = "taken" THEN 0 ELSE 1
      <3>1. CASE k = j
        <4>1. \A u \in Threads : HandHas(u, j)' => u = t
          BY <1>9, <1>12, Zenon
        <4>2. thread'[t].stage = "taken"
          BY <1>2, <1>7, Zenon
        <4>3. QED
          BY <1>9, <4>1, <4>2, <3>1, Zenon
      <3>2. CASE k # j
        <4>1. \A u \in Threads : HandHas(u, k)' => u # t /\ HandHas(u, k)
          BY <1>12, <3>2, Zenon
        <4>2. QED
          BY <1>0, <1>7, <1>11, <4>1, Zenon DEF Counted
      <3>3. QED
        BY <3>1, <3>2
    <2>3. QED
      BY <1>0, <1>16, <2>1, <2>2, Zenon DEF Counted
  <1>19. Carried'
    <2>1. UNCHANGED <<pending, sending>>
      BY <1>1
    <2>2. ASSUME NEW x, NEW m \in Lanes, x \in Entries(queue[m])
          PROVE  x \in Entries(queue'[m]) \/ x = e
      <3>1. CASE m = l
        BY <1>3, <1>6, <2>2, <3>1, Zenon DEF q, rest
      <3>2. CASE m # l
        BY <1>6, <2>2, <3>2, Zenon
      <3>3. QED
        BY <3>1, <3>2
    <2>3. \A u \in Threads : thread[u] # NoTask => thread'[u] = thread[u]
      BY <1>1, <1>7, Zenon
    <2>4. thread'[t] # NoTask /\ thread'[t].entry = e
      BY <1>2, <1>7, Zenon
    <2>5. ASSUME NEW x \in pending
          PROVE  \/ x \in sending
                 \/ \E m \in Lanes : x \in Entries(queue'[m])
                 \/ \E u \in Threads : thread'[u] # NoTask /\ thread'[u].entry = x
      <3>1. CASE x \in sending
        BY <3>1
      <3>2. ASSUME NEW m \in Lanes, x \in Entries(queue[m])
            PROVE  \/ \E n \in Lanes : x \in Entries(queue'[n])
                   \/ \E u \in Threads : thread'[u] # NoTask /\ thread'[u].entry = x
        BY <3>2, <2>2, <2>4, Zenon
      <3>3. ASSUME NEW u \in Threads, thread[u] # NoTask, thread[u].entry = x
            PROVE  thread'[u] # NoTask /\ thread'[u].entry = x
        BY <3>3, <2>3, Zenon
      <3>4. QED
        BY <1>0, <3>1, <3>2, <3>3, Zenon DEF Carried
    <2>6. QED
      BY <2>1, <2>5, Zenon DEF Carried
  <1>20. QED
    BY <1>13, <1>14, <1>15, <1>17, <1>18, <1>19 DEF Carriers

(* A thread is done with a job whose entry is not in the registry any more. *)
LEMMA HandEmptied ==
    ASSUME Carriers, NEW t \in Threads, thread[t] # NoTask,
           NEW e, thread[t].entry = e, e \notin pending', pending' \subseteq pending,
           thread' = [thread EXCEPT ![t] = NoTask],
           UNCHANGED <<sending, here, queue, started, runs>>,
           \A k \in Jobs : \/ fate'[k] = fate[k]
                           \/ /\ k = e.job /\ fate'[k] # "new"
                              /\ fate'[k] = "value" => runs[k] = 1
    PROVE  Carriers'
  <1>0. OneSend /\ QueuesOK /\ ThreadsOK /\ OneCarrier /\ Counted /\ Carried
    BY DEF Carriers
  <1>1. /\ DOMAIN thread' = Threads /\ thread'[t] = NoTask
        /\ \A u \in Threads : u # t => thread'[u] = thread[u]
    BY <1>0, Zenon DEF ThreadsOK
  <1>2. \A u \in Threads : thread'[u] # NoTask => u # t /\ thread'[u] = thread[u]
    BY <1>1, Zenon
  <1>3. \A u \in Threads, k \in Jobs :
            HandHas(u, k)' => HandHas(u, k) /\ thread'[u] = thread[u]
    BY <1>2, Zenon DEF HandHas
  <1>4. /\ \A k : SendHas(k)' <=> SendHas(k)
        /\ \A l, k : LaneHas(l, k)' <=> LaneHas(l, k)
    BY DEF SendHas, LaneHas
  <1>5. OneSend' /\ QueuesOK'
    BY <1>0 DEF OneSend, QueuesOK, HasReceiver
  <1>6. ThreadsOK'
    <2>1. started' = started
      OBVIOUS
    <2>2. QED
      BY <1>0, <1>1, <1>2, <2>1, Zenon DEF ThreadsOK
  <1>7. OneCarrier'
    <2>1. here' = here
      OBVIOUS
    <2>2. QED
      BY <1>0, <1>3, <1>4, <2>1, Zenon DEF OneCarrier
  <1>8. Counted'
    <2>1. here' = here /\ runs' = runs
      OBVIOUS
    <2>2. ASSUME NEW k \in Jobs
          PROVE  /\ runs[k] \in {0, 1}
                 /\ fate'[k] = "new" => /\ runs[k] = 0 /\ ~SendHas(k)
                                        /\ \A l \in Lanes : ~LaneHas(l, k)
                                        /\ \A u \in Threads : ~HandHas(u, k)'
                 /\ SendHas(k) \/ k \in here => runs[k] = 0
                 /\ \A l \in Lanes : LaneHas(l, k) => runs[k] = 0
                 /\ \A u \in Threads : HandHas(u, k)' =>
                        runs[k] = IF thread'[u].stage = "taken" THEN 0 ELSE 1
                 /\ fate'[k] = "value" => runs[k] = 1
      <3>1. ASSUME NEW u \in Threads, HandHas(u, k)'
            PROVE  runs[k] = IF thread'[u].stage = "taken" THEN 0 ELSE 1
        <4>1. HandHas(u, k) /\ thread'[u] = thread[u]
          BY <1>3, <3>1, Zenon
        <4>2. runs[k] = IF thread[u].stage = "taken" THEN 0 ELSE 1
          BY <1>0, <4>1, Zenon DEF Counted
        <4>3. QED
          BY <4>1, <4>2
      <3>2. /\ runs[k] \in {0, 1}
            /\ SendHas(k) \/ k \in here => runs[k] = 0
            /\ \A l \in Lanes : LaneHas(l, k) => runs[k] = 0
        BY <1>0, Zenon DEF Counted
      <3>3. /\ fate[k] = "new" => /\ runs[k] = 0 /\ ~SendHas(k)
                                  /\ \A l \in Lanes : ~LaneHas(l, k)
                                  /\ \A u \in Threads : ~HandHas(u, k)'
            /\ fate[k] = "value" => runs[k] = 1
        BY <1>0, <1>3, Zenon DEF Counted
      <3>4. CASE fate'[k] = fate[k]
        <4>1. /\ fate'[k] = "new" => fate[k] = "new"
              /\ fate'[k] = "value" => fate[k] = "value"
          BY <3>4
        <4>2. QED
          BY <3>1, <3>2, <3>3, <4>1, Zenon
      <3>5. CASE fate'[k] # "new" /\ (fate'[k] = "value" => runs[k] = 1)
        BY <3>1, <3>2, <3>5, Zenon
      <3>6. QED
        BY <3>4, <3>5, Zenon
    <2>3. QED
      BY <1>4, <2>1, <2>2, Zenon DEF Counted
  <1>9. Carried'
    <2>1. sending' = sending /\ queue' = queue
      OBVIOUS
    <2>2. ASSUME NEW x \in pending', NEW u \in Threads, thread[u] # NoTask, thread[u].entry = x
          PROVE  thread'[u] # NoTask /\ thread'[u].entry = x
      <3>1. x # e
        BY <2>2
      <3>2. u # t
        BY <2>2, <3>1, Zenon
      <3>3. QED
        BY <1>1, <2>2, <3>2, Zenon
    <2>3. \A x \in pending' : x \in pending
      OBVIOUS
    <2>4. QED
      BY <1>0, <2>1, <2>2, <2>3, Zenon DEF Carried
  <1>10. QED
    BY <1>5, <1>6, <1>7, <1>8, <1>9 DEF Carriers

(* A thread claims the job it took, if it is still owed. *)
LEMMA ClaimKeeps ==
    ASSUME PoolInv, NEW t \in Threads, Claim(t)
    PROVE  Carriers'
  <1>0. /\ OneSend /\ QueuesOK /\ ThreadsOK /\ OneCarrier /\ Counted /\ Carried
        /\ runs \in [Jobs -> Nat]
    BY DEF PoolInv, Carriers
  <1>1. /\ thread[t].stage = "taken" /\ thread[t] # NoTask
        /\ UNCHANGED <<pending, sending, here, fate, queue, started>>
    BY DEF Claim, NoTask, funnelVars
  <1>2. PICK task \in TaskRec : thread[t] = task
    BY <1>0, <1>1, Zenon DEF ThreadsOK
  <1> DEFINE j == task.entry.job
  <1>3. j \in Jobs /\ task.entry \in Entry /\ task.stage = "taken" /\ HandHas(t, j)
    BY <1>1, <1>2 DEF TaskRec, Entry, HandHas
  <1>4. runs[j] = 0
    BY <1>0, <1>1, <1>3, Zenon DEF Counted
  <1>5. CASE /\ JobIsOwed(task.entry.id)
             /\ thread' = [thread EXCEPT ![t].stage = "claimed"]
             /\ runs' = [runs EXCEPT ![j] = @ + 1]
    <2> DEFINE next == [task EXCEPT !.stage = "claimed"]
    <2>1. /\ next \in TaskRec /\ next # NoTask /\ next.stage = "claimed"
          /\ next.entry = task.entry
      <3>1. next \in TaskRec /\ next.stage = "claimed" /\ next.entry = task.entry
        BY DEF TaskRec, Stages
      <3>2. NoTask.stage = "waits"
        BY DEF NoTask
      <3> HIDE DEF next
      <3>3. QED
        BY <3>1, <3>2
    <2>2. /\ DOMAIN thread' = Threads /\ thread'[t] = next
          /\ \A u \in Threads : u # t => thread'[u] = thread[u]
      <3>1. thread' = [thread EXCEPT ![t] = next]
        BY <1>2, <1>5
      <3> HIDE DEF next
      <3>2. QED
        BY <1>0, <3>1, Zenon DEF ThreadsOK
    <2> HIDE DEF next
    <2>3. /\ runs'[j] = 1 /\ \A k \in Jobs : k # j => runs'[k] = runs[k]
      BY <1>0, <1>3, <1>4, <1>5
    <2>4. \A u \in Threads, k \in Jobs : HandHas(u, k)' <=> HandHas(u, k)
      <3>1. ASSUME NEW k \in Jobs PROVE HandHas(t, k)' <=> HandHas(t, k)
        BY <1>1, <1>2, <2>1, <2>2, Zenon DEF HandHas
      <3>2. ASSUME NEW k \in Jobs, NEW u \in Threads, u # t
            PROVE  HandHas(u, k)' <=> HandHas(u, k)
        BY <2>2, <3>2, Zenon DEF HandHas
      <3>3. QED
        BY <3>1, <3>2, Zenon
    <2>5. /\ \A k : SendHas(k)' <=> SendHas(k)
          /\ \A l, k : LaneHas(l, k)' <=> LaneHas(l, k)
      BY <1>1 DEF SendHas, LaneHas
    <2>6. OneSend' /\ QueuesOK'
      BY <1>0, <1>1 DEF OneSend, QueuesOK, HasReceiver
    <2>7. ThreadsOK'
      <3>1. started' = started
        BY <1>1
      <3>2. t \in started /\ t \in ThreadsOf(LaneOf(task.entry.job))
        BY <1>0, <1>1, <1>2, Zenon DEF ThreadsOK
      <3>3. \A u \in Threads : u = t \/ u # t
        OBVIOUS
      <3>4. QED
        BY <1>0, <2>1, <2>2, <3>1, <3>2, <3>3, Zenon DEF ThreadsOK
    <2>8. OneCarrier'
      <3>1. here' = here
        BY <1>1
      <3>2. QED
        BY <1>0, <2>4, <2>5, <3>1, Zenon DEF OneCarrier
    <2>9. Counted'
      <3>1. fate' = fate /\ here' = here
        BY <1>1
      <3>2. /\ ~SendHas(j) /\ j \notin here /\ \A l \in Lanes : ~LaneHas(l, j)
            /\ \A u \in Threads : HandHas(u, j) => u = t
        BY <1>0, <1>3, Zenon DEF OneCarrier
      <3>3. fate[j] # "new"
        BY <1>0, <1>3, Zenon DEF Counted
      <3>4. ASSUME NEW k \in Jobs
            PROVE  /\ runs'[k] \in {0, 1}
                   /\ fate[k] = "new" => /\ runs'[k] = 0 /\ ~SendHas(k)
                                         /\ \A l \in Lanes : ~LaneHas(l, k)
                                         /\ \A u \in Threads : ~HandHas(u, k)
                   /\ SendHas(k) \/ k \in here => runs'[k] = 0
                   /\ \A l \in Lanes : LaneHas(l, k) => runs'[k] = 0
                   /\ \A u \in Threads : HandHas(u, k) =>
                          runs'[k] = IF thread'[u].stage = "taken" THEN 0 ELSE 1
                   /\ fate[k] = "value" => runs'[k] = 1
        <4>1. CASE k # j
          <5>1. ~HandHas(t, k)
            BY <1>1, <1>2, <4>1, Zenon DEF HandHas
          <5>2. \A u \in Threads : HandHas(u, k) => thread'[u] = thread[u]
            BY <5>1, <2>2, Zenon
          <5>3. QED
            BY <1>0, <2>3, <4>1, <5>2, Zenon DEF Counted
        <4>2. CASE k = j
          <5>1. thread'[t].stage # "taken"
            BY <2>1, <2>2
          <5>2. QED
            BY <2>3, <3>2, <3>3, <4>2, <5>1, Zenon
        <4>3. QED
          BY <4>1, <4>2
      <3>5. QED
        BY <2>4, <2>5, <3>1, <3>4, Zenon DEF Counted
    <2>10. Carried'
      <3>1. \A u \in Threads : thread[u] # NoTask =>
                thread'[u] # NoTask /\ thread'[u].entry = thread[u].entry
        BY <1>2, <2>1, <2>2, Zenon
      <3>2. UNCHANGED <<pending, sending, queue>>
        BY <1>1
      <3>3. QED
        BY <1>0, <3>1, <3>2, Zenon DEF Carried
    <2>11. QED
      BY <2>6, <2>7, <2>8, <2>9, <2>10 DEF Carriers
  <1>6. CASE /\ ~JobIsOwed(task.entry.id)
             /\ thread' = [thread EXCEPT ![t] = NoTask] /\ runs' = runs
    <2>1. task.entry \notin pending
      BY <1>6 DEF JobIsOwed
    <2>2. /\ UNCHANGED <<sending, here, fate, queue, started, runs>> /\ pending' = pending
          /\ thread' = [thread EXCEPT ![t] = NoTask]
      BY <1>1, <1>6
    <2>3. Carriers /\ thread[t].entry = task.entry
      BY <1>2 DEF PoolInv
    <2>4. /\ task.entry \notin pending' /\ pending' \subseteq pending
          /\ \A k \in Jobs : fate'[k] = fate[k]
      BY <2>1, <2>2
    <2>5. QED
      BY <1>1, <2>2, <2>3, <2>4, HandEmptied
  <1>7. QED
    BY <1>1, <1>2, <1>5, <1>6 DEF Claim

(* A thread has executed the job it claimed. *)
LEMMA ExecuteKeeps ==
    ASSUME PoolInv, NEW t \in Threads, Execute(t)
    PROVE  Carriers'
  <1>0. OneSend /\ QueuesOK /\ ThreadsOK /\ OneCarrier /\ Counted /\ Carried
    BY DEF PoolInv, Carriers
  <1>1. /\ thread[t].stage = "claimed" /\ thread[t] # NoTask
        /\ UNCHANGED <<pending, sending, here, fate, queue, started, runs>>
    BY DEF Execute, NoTask, funnelVars
  <1>2. PICK task \in TaskRec : thread[t] = task
    BY <1>0, <1>1, Zenon DEF ThreadsOK
  <1>3. PICK o \in Outcomes : thread' = [thread EXCEPT ![t] = Task("answered", task.entry, o)]
    BY <1>2 DEF Execute
  <1> DEFINE next == Task("answered", task.entry, o)
  <1>4. next \in TaskRec /\ next # NoTask /\ next.stage = "answered" /\ next.entry = task.entry
    <2>1. next \in TaskRec /\ next.stage = "answered" /\ next.entry = task.entry
      BY DEF TaskRec, Task, Stages
    <2>2. NoTask.stage = "waits"
      BY DEF NoTask
    <2> HIDE DEF next
    <2>3. QED
      BY <2>1, <2>2
  <1>5. thread' = [thread EXCEPT ![t] = next]
    BY <1>3
  <1> HIDE DEF next
  <1>6. /\ DOMAIN thread' = Threads /\ thread'[t] = next
        /\ \A u \in Threads : u # t => thread'[u] = thread[u]
    BY <1>0, <1>5, Zenon DEF ThreadsOK
  <1>7. \A u \in Threads, k \in Jobs : HandHas(u, k)' <=> HandHas(u, k)
    <2>1. ASSUME NEW k \in Jobs PROVE HandHas(t, k)' <=> HandHas(t, k)
      BY <1>1, <1>2, <1>4, <1>6, Zenon DEF HandHas
    <2>2. ASSUME NEW k \in Jobs, NEW u \in Threads, u # t
          PROVE  HandHas(u, k)' <=> HandHas(u, k)
      BY <1>6, <2>2, Zenon DEF HandHas
    <2>3. QED
      BY <2>1, <2>2, Zenon
  <1>8. /\ \A k : SendHas(k)' <=> SendHas(k)
        /\ \A l, k : LaneHas(l, k)' <=> LaneHas(l, k)
    BY <1>1 DEF SendHas, LaneHas
  <1>9. OneSend' /\ QueuesOK'
    BY <1>0, <1>1 DEF OneSend, QueuesOK, HasReceiver
  <1>10. ThreadsOK'
    <2>1. started' = started
      BY <1>1
    <2>2. t \in started /\ t \in ThreadsOf(LaneOf(task.entry.job))
      BY <1>0, <1>1, <1>2, Zenon DEF ThreadsOK
    <2>3. \A u \in Threads : u = t \/ u # t
      OBVIOUS
    <2>4. QED
      BY <1>0, <1>4, <1>6, <2>1, <2>2, <2>3, Zenon DEF ThreadsOK
  <1>11. OneCarrier'
    <2>1. here' = here
      BY <1>1
    <2>2. QED
      BY <1>0, <1>7, <1>8, <2>1, Zenon DEF OneCarrier
  <1>12. Counted'
    <2>1. fate' = fate /\ here' = here /\ runs' = runs
      BY <1>1
    <2>2. \A u \in Threads : thread[u] # NoTask =>
              (thread'[u].stage = "taken" <=> thread[u].stage = "taken")
      <3>1. thread'[t].stage # "taken" /\ thread[t].stage # "taken"
        BY <1>1, <1>4, <1>6
      <3>2. QED
        BY <1>6, <3>1, Zenon
    <2>3. ASSUME NEW k \in Jobs, NEW u \in Threads, HandHas(u, k)
          PROVE  runs[k] = IF thread'[u].stage = "taken" THEN 0 ELSE 1
      BY <1>0, <2>2, <2>3, Zenon DEF Counted, HandHas
    <2>4. QED
      BY <1>0, <1>7, <1>8, <2>1, <2>3, Zenon DEF Counted
  <1>13. Carried'
    <2>1. \A u \in Threads : thread[u] # NoTask =>
              thread'[u] # NoTask /\ thread'[u].entry = thread[u].entry
      BY <1>2, <1>4, <1>6, Zenon
    <2>2. UNCHANGED <<pending, sending, queue>>
      BY <1>1
    <2>3. QED
      BY <1>0, <2>1, <2>2, Zenon DEF Carried
  <1>14. QED
    BY <1>9, <1>10, <1>11, <1>12, <1>13 DEF Carriers

(* A thread delivers, or finds that nobody waits for the reply. *)
LEMMA DeliverKeeps ==
    ASSUME PoolInv, NEW t \in Threads, Deliver(t)
    PROVE  Carriers'
  <1>0. /\ OneSend /\ QueuesOK /\ ThreadsOK /\ OneCarrier /\ Counted /\ Carried /\ Carriers
        /\ fate \in [Jobs -> Fates] /\ pending \subseteq Entry
    BY DEF PoolInv, Carriers, FunnelInv, TypeOK
  <1>1. /\ thread[t].stage = "answered" /\ thread[t] # NoTask
        /\ thread' = [thread EXCEPT ![t] = NoTask]
        /\ UNCHANGED <<queue, started, runs>>
    BY DEF Deliver, NoTask
  <1>2. PICK task \in TaskRec : thread[t] = task
    BY <1>0, <1>1, Zenon DEF ThreadsOK
  <1> DEFINE e == task.entry
  <1>3. e \in Entry /\ e.job \in Jobs /\ task.outcome \in Outcomes /\ HandHas(t, e.job)
    BY <1>1, <1>2 DEF TaskRec, Entry, HandHas
  <1>4. runs[e.job] = 1
    <2>1. runs[e.job] = IF thread[t].stage = "taken" THEN 0 ELSE 1
      BY <1>0, <1>3, Zenon DEF Counted
    <2>2. QED
      BY <1>1, <2>1
  <1>5. CASE Reply(e, task.outcome)
    <2>1. /\ pending' = pending \ {e} /\ fate' = Delivered({e.job}, task.outcome)
          /\ UNCHANGED <<sending, here>>
      BY <1>5 DEF Reply
    <2>2. \A k \in Jobs : \/ fate'[k] = fate[k]
                          \/ /\ k = e.job /\ fate'[k] # "new"
                             /\ fate'[k] = "value" => runs[k] = 1
      BY <1>0, <1>3, <1>4, <2>1 DEF Delivered, Outcomes
    <2>3. e \notin pending' /\ pending' \subseteq pending
      BY <2>1
    <2>4. QED
      BY <1>0, <1>1, <1>2, <2>1, <2>2, <2>3, HandEmptied
  <1>6. CASE ~JobIsOwed(e.id) /\ UNCHANGED funnelVars
    <2>1. e \notin pending' /\ pending' \subseteq pending /\ UNCHANGED <<sending, here, fate>>
      BY <1>6 DEF JobIsOwed, funnelVars
    <2>2. QED
      BY <1>0, <1>1, <1>2, <2>1, HandEmptied
  <1>7. QED
    BY <1>2, <1>5, <1>6 DEF Deliver

-----------------------------------------------------------------------------
(* A step of the pool is a step of the funnel, or the funnel does not see it. *)
LEMMA FunnelStep ==
    ASSUME PoolInv, PoolNext
    PROVE  /\ FunnelNext \/ UNCHANGED funnelVars
           /\ worker' = worker
           /\ runs' \in [Jobs -> Nat]
  <1>0. /\ worker # NoSink /\ pending \subseteq Entry /\ runs \in [Jobs -> Nat]
    BY DEF PoolInv, FunnelInv, TypeOK
  <1>1. CASE Callers
    <2>1. UNCHANGED poolVars
      BY <1>1 DEF Callers
    <2>2. FunnelNext
      BY <1>1 DEF Callers, FunnelNext
    <2>3. worker' = worker
      BY <1>1 DEF Callers, Offload, RendersNothing, Cancel, sinks
    <2>4. QED
      BY <1>0, <2>1, <2>2, <2>3 DEF poolVars
  <1>2. CASE PoolTakes
    <2>1. PICK s \in sending : SendTaken(s) /\ runs' = runs
      BY <1>2 DEF PoolTakes
    <2>2. FunnelNext
      BY <2>1 DEF FunnelNext, SendReturns
    <2>3. QED
      BY <1>0, <2>1, <2>2 DEF SendTaken, sinks
  <1>3. CASE PoolRefuses
    <2>1. PICK s \in sending : SendRefused(s) /\ UNCHANGED poolVars
      BY <1>3 DEF PoolRefuses
    <2>2. FunnelNext
      BY <2>1 DEF FunnelNext, SendReturns
    <2>3. QED
      BY <1>0, <2>1, <2>2 DEF SendRefused, sinks, poolVars
  <1>4. ASSUME NEW j \in Jobs, Fallback(j)
        PROVE  /\ FunnelNext \/ UNCHANGED funnelVars
               /\ worker' = worker
               /\ runs' \in [Jobs -> Nat]
    <2>1. EndsHere(j) /\ runs' = [runs EXCEPT ![j] = @ + 1]
      BY <1>4 DEF Fallback
    <2>2. FunnelNext
      BY <2>1 DEF FunnelNext
    <2>3. worker' = worker
      BY <2>1 DEF EndsHere, FinishHere, sinks
    <2>4. QED
      BY <1>0, <2>1, <2>2, <2>3
  <1>5. ASSUME NEW t \in Threads, LaneThread(t)
        PROVE  /\ FunnelNext \/ UNCHANGED funnelVars
               /\ worker' = worker
               /\ runs' \in [Jobs -> Nat]
    <2>1. CASE Claim(t)
      <3>1. UNCHANGED funnelVars
        BY <2>1 DEF Claim
      <3>2. runs' = runs \/ \E j : runs' = [runs EXCEPT ![j] = @ + 1]
        BY <2>1 DEF Claim
      <3>3. runs' \in [Jobs -> Nat]
        BY <1>0, <3>2
      <3>4. QED
        BY <3>1, <3>3 DEF funnelVars
    <2>2. CASE Execute(t) \/ \E l \in Lanes : Recv(t, l)
      <3>1. UNCHANGED <<funnelVars, runs>>
        BY <2>2 DEF Execute, Recv
      <3>2. QED
        BY <1>0, <3>1 DEF funnelVars
    <2>3. CASE Deliver(t)
      <3>1. thread[t].stage = "answered" /\ thread[t] # NoTask /\ runs' = runs
        BY <2>3 DEF Deliver, NoTask
      <3>2. PICK task \in TaskRec : thread[t] = task
        BY <3>1, Zenon DEF PoolInv, Carriers, ThreadsOK
      <3>3. CASE Reply(task.entry, task.outcome)
        <4>1. /\ task.entry.job \in Jobs /\ task.entry \in pending
              /\ task.outcome \in Outcomes
          BY <3>3 DEF TaskRec, Entry, Reply
        <4>2. ReplyTo(task.entry.job)
          BY <3>3, <4>1 DEF ReplyTo
        <4>3. FunnelNext
          BY <4>1, <4>2 DEF FunnelNext
        <4>4. QED
          BY <1>0, <3>1, <3>3, <4>3 DEF Reply, sinks
      <3>4. CASE UNCHANGED funnelVars
        BY <1>0, <3>1, <3>4 DEF funnelVars
      <3>5. QED
        BY <2>3, <3>2, <3>3, <3>4 DEF Deliver
    <2>4. QED
      BY <1>5, <2>1, <2>2, <2>3 DEF LaneThread
  <1>6. QED
    BY <1>1, <1>2, <1>3, <1>4, <1>5 DEF PoolNext

LEMMA PoolInvInit == PoolInit => PoolInv
  <1> SUFFICES ASSUME PoolInit PROVE PoolInv
    OBVIOUS
  <1>1. FunnelInv /\ worker # NoSink
    BY InvInit, PoolAssumption DEF PoolInit, FunnelInit, NoSink
  <1>2. /\ runs = [j \in Jobs |-> 0] /\ fate = [j \in Jobs |-> "new"]
        /\ pending = {} /\ sending = {} /\ here = {}
        /\ queue = [l \in Lanes |-> <<>>] /\ started \subseteq Threads
        /\ thread = [t \in Threads |-> NoTask]
    BY DEF PoolInit, FunnelInit
  <1>3. /\ \A j : ~SendHas(j)
        /\ \A l \in Lanes : queue[l] = <<>> /\ Entries(queue[l]) = {}
        /\ \A t \in Threads : thread[t] = NoTask
    BY <1>2 DEF SendHas, Entries
  <1>4. /\ \A j : \A l \in Lanes : ~LaneHas(l, j)
        /\ \A j : \A t \in Threads : ~HandHas(t, j)
    BY <1>3 DEF LaneHas, HandHas
  <1>5. QueuesOK
    BY <1>2, <1>3 DEF QueuesOK, OneEach
  <1>6. OneSend /\ ThreadsOK /\ OneCarrier /\ Carried
    BY <1>2, <1>3, <1>4 DEF OneSend, ThreadsOK, OneCarrier, Carried
  <1>7. Counted
    BY <1>2, <1>3, <1>4 DEF Counted
  <1>8. QED
    BY <1>1, <1>2, <1>5, <1>6, <1>7 DEF PoolInv, Carriers

LEMMA PoolInvStep == PoolInv /\ [PoolNext]_vars => PoolInv'
  <1>1. ASSUME PoolInv, PoolNext PROVE PoolInv'
    <2>1. /\ FunnelNext \/ UNCHANGED funnelVars
          /\ worker' = worker /\ runs' \in [Jobs -> Nat]
      BY <1>1, FunnelStep
    <2>2. FunnelInv'
      BY <1>1, <2>1, InvStep DEF PoolInv
    <2>3. ASSUME NEW t \in Threads, LaneThread(t) PROVE Carriers'
      BY <1>1, <2>3, ClaimKeeps, ExecuteKeeps, DeliverKeeps, RecvKeeps DEF LaneThread
    <2>4. Carriers'
      BY <1>1, <2>3, CallersKeep, TakesKeep, RefusalKeeps, FallbackKeeps DEF PoolNext
    <2>5. worker' # NoSink
      BY <1>1, <2>1 DEF PoolInv, NoSink
    <2>6. QED
      BY <2>1, <2>2, <2>4, <2>5 DEF PoolInv
  <1>2. ASSUME PoolInv, UNCHANGED vars PROVE PoolInv'
    <2>1. UNCHANGED <<funnelVars, queue, started, thread, runs>>
      BY <1>2 DEF vars, poolVars
    <2>2. UNCHANGED <<pending, sending, here, fate, worker, queue, started, thread, runs>>
      BY <2>1 DEF funnelVars
    <2>3. FunnelInv'
      BY <1>2, <2>1, InvStep DEF PoolInv
    <2>4. /\ \A l, k : LaneHas(l, k)' <=> LaneHas(l, k)
          /\ \A t, k : HandHas(t, k)' <=> HandHas(t, k)
          /\ \A k : SendHas(k)' <=> SendHas(k)
      BY <2>2, SamePool DEF SendHas
    <2>5. OneSend' /\ QueuesOK' /\ ThreadsOK' /\ Carried'
      BY <1>2, <2>2 DEF PoolInv, Carriers, OneSend, QueuesOK, ThreadsOK, HasReceiver, Carried
    <2>6. OneCarrier' /\ Counted'
      <3>1. UNCHANGED <<here, fate, runs, thread>>
        BY <2>2
      <3>2. OneCarrier /\ Counted
        BY <1>2 DEF PoolInv, Carriers
      <3>3. OneCarrier'
        BY <2>4, <3>1, <3>2, Zenon DEF OneCarrier
      <3>4. Counted'
        BY <2>4, <3>1, <3>2, Zenon DEF Counted
      <3>5. QED
        BY <3>3, <3>4
    <2>7. QED
      BY <1>2, <2>2, <2>3, <2>5, <2>6 DEF PoolInv, Carriers
  <1>3. QED
    BY <1>1, <1>2

(* The pool's inductive invariant: the funnel's, and who carries what in the lanes, the *)
(* threads and send (offload/pool.rs).                                                  *)
THEOREM PoolInvariance == PoolSpec => []PoolInv
  BY PoolInvInit, PoolInvStep, PTL DEF PoolSpec

(* A job is executed at most once, by the pool or by the fallback, and a value comes *)
(* from an execution: whatever threads started, and however the registry's claims,   *)
(* cancels and refusals interleave with them.                                        *)
THEOREM RunsOnce == PoolSpec => []ExecutedOnce
  <1>1. ASSUME PoolInv, NEW j \in Jobs
        PROVE  runs[j] <= 1 /\ (fate[j] = "value" => runs[j] = 1)
    <2>1. runs[j] \in {0, 1} /\ (fate[j] = "value" => runs[j] = 1)
      BY <1>1, Zenon DEF PoolInv, Carriers, Counted
    <2>2. QED
      BY <2>1
  <1>2. PoolInv => ExecutedOnce
    BY <1>1 DEF ExecutedOnce
  <1>3. QED
    BY <1>2, PoolInvariance, PTL

(* Every entry of the registry is inside `send`, in a channel or in a thread's hands, *)
(* and in one of them only: no entry is left for nobody to answer.                    *)
THEOREM OwedCarried == PoolSpec => []OwedIsCarried
  <1>1. ASSUME PoolInv, NEW e \in pending
        PROVE  /\ e \in sending \/ InChannel(e) \/ InHand(e)
               /\ e \in sending => ~InChannel(e) /\ ~InHand(e)
               /\ InChannel(e) => ~InHand(e)
    <2>0. OneCarrier /\ Carried /\ e.job \in Jobs
      BY <1>1 DEF PoolInv, Carriers, FunnelInv, TypeOK, Entry
    <2>1. InChannel(e) <=> \E l \in Lanes : e \in Entries(queue[l])
      BY DEF InChannel, Entries
    <2>2. InChannel(e) => \E l \in Lanes : LaneHas(l, e.job)
      BY <2>1, Zenon DEF LaneHas
    <2>3. InHand(e) => \E t \in Threads : HandHas(t, e.job)
      BY Zenon DEF InHand, HandHas
    <2>4. e \in sending => SendHas(e.job)
      BY DEF SendHas
    <2>5. e \in sending \/ InChannel(e) \/ InHand(e)
      BY <1>1, <2>0, <2>1, Zenon DEF Carried, InHand
    <2>6. e \in sending => ~InChannel(e) /\ ~InHand(e)
      BY <2>0, <2>2, <2>3, <2>4, Zenon DEF OneCarrier
    <2>7. InChannel(e) => ~InHand(e)
      BY <2>0, <2>2, <2>3, Zenon DEF OneCarrier
    <2>8. QED
      BY <2>5, <2>6, <2>7, Zenon
  <1>2. PoolInv => OwedIsCarried
    BY <1>1, Zenon DEF OwedIsCarried
  <1>3. QED
    BY <1>2, PoolInvariance, PTL

(* The pool's types: a task is on its row's lane, in the hands of one of that lane's *)
(* threads that started, and a lane without a receiver holds nothing.                *)
THEOREM PoolTyping == PoolSpec => []PoolTypeOK
  <1>1. ASSUME PoolInv PROVE PoolTypeOK
    <2>1. TypeOK /\ started \subseteq Threads /\ runs \in [Jobs -> Nat] /\ QueuesOK /\ ThreadsOK
      BY <1>1 DEF PoolInv, FunnelInv, Carriers, ThreadsOK
    <2>2. \A j : j \in Interactive <=> LaneOf(j) = "interactive"
      BY DEF LaneOf
    <2>3. \A l \in Lanes : \A t \in ThreadsOf(l) : \A j :
              t \in Threads /\ (t \in ThreadsOf(LaneOf(j)) => LaneOf(j) = l)
      BY PoolAssumption DEF Lanes, ThreadsOf, LaneOf, Threads
    <2>4. ASSUME NEW l \in Lanes
          PROVE  /\ queue[l] \in Seq(Entry)
                 /\ \A i \in 1..Len(queue[l]) :
                        queue[l][i].job \in Interactive <=> l = "interactive"
                 /\ queue[l] # <<>> => ThreadsOf(l) \cap started # {}
      <3>1. /\ queue[l] \in Seq(Entry)
            /\ queue[l] # <<>> => HasReceiver(l)
            /\ \A e \in Entries(queue[l]) : LaneOf(e.job) = l
        BY <2>1, Zenon DEF QueuesOK
      <3>2. ASSUME NEW i \in 1..Len(queue[l]) PROVE LaneOf(queue[l][i].job) = l
        BY <3>1 DEF Entries
      <3>3. \A i \in 1..Len(queue[l]) : queue[l][i].job \in Interactive <=> l = "interactive"
        BY <2>2, <3>2
      <3>4. QED
        BY <3>1, <3>3, Zenon DEF HasReceiver
    <2>5. ASSUME NEW l \in Lanes, NEW t \in ThreadsOf(l), thread[t] # NoTask
          PROVE  /\ t \in started
                 /\ thread[t] \in [stage : Stages, entry : Entry, outcome : Outcomes]
                 /\ thread[t].entry.job \in Interactive <=> l = "interactive"
      <3>1. /\ t \in started /\ thread[t] \in TaskRec
            /\ t \in ThreadsOf(LaneOf(thread[t].entry.job))
        BY <2>1, <2>3, <2>5, Zenon DEF ThreadsOK
      <3>2. QED
        BY <2>2, <2>3, <3>1, Zenon DEF TaskRec
    <2>6. QED
      BY <2>1, <2>4, <2>5, Zenon DEF PoolTypeOK
  <1>2. QED
    BY <1>1, PoolInvariance, PTL

=============================================================================
