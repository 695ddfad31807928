--------------------------- MODULE JobFunnelProofs ---------------------------
(***************************************************************************)
(* Theorems about the offload funnel, for every set of jobs, every wait    *)
(* limit and any number of installed sinks and armed windows: the types,   *)
(* who holds `deliver`, which sink owes what, that held jobs leave oldest  *)
(* first, and that the funnel implements OffloadContract.                  *)
(***************************************************************************)
EXTENDS JobFunnel, TLAPS

(* The wait queue's ends, as the invariants see them. *)
LEMMA QueueAppend ==
    ASSUME NEW S, NEW q \in Seq(S), NEW k \in S
    PROVE  /\ Append(q, k) \in Seq(S)
           /\ Len(Append(q, k)) = Len(q) + 1
           /\ \A i \in 1..Len(q) : Append(q, k)[i] = q[i]
           /\ Append(q, k)[Len(q) + 1] = k
           /\ \A j : InQueue(j, Append(q, k)) <=> InQueue(j, q) \/ j = k
  <1>1. /\ Append(q, k) \in Seq(S)
        /\ Len(Append(q, k)) = Len(q) + 1
        /\ \A i \in 1..Len(q) : Append(q, k)[i] = q[i]
        /\ Append(q, k)[Len(q) + 1] = k
    OBVIOUS
  <1>2. Len(q) \in Nat
    OBVIOUS
  <1>3. \A j : InQueue(j, Append(q, k)) <=> InQueue(j, q) \/ j = k
    BY <1>1, <1>2 DEF InQueue
  <1>4. QED
    BY <1>1, <1>3

LEMMA QueueTail ==
    ASSUME NEW S, NEW q \in Seq(S), q # <<>>
    PROVE  /\ Head(q) \in S
           /\ Tail(q) \in Seq(S)
           /\ Len(Tail(q)) = Len(q) - 1
           /\ \A i \in 1..Len(Tail(q)) : Tail(q)[i] = q[i + 1]
           /\ InQueue(Head(q), q)
           /\ \A j : InQueue(j, q) <=> j = Head(q) \/ InQueue(j, Tail(q))
           /\ NoTwice(q) => NoTwice(Tail(q)) /\ ~InQueue(Head(q), Tail(q))
  <1>1. /\ Head(q) \in S
        /\ Head(q) = q[1]
        /\ Tail(q) \in Seq(S)
        /\ Len(Tail(q)) = Len(q) - 1
        /\ \A i \in 1..Len(Tail(q)) : Tail(q)[i] = q[i + 1]
        /\ Len(q) \in Nat \ {0}
    OBVIOUS
  <1>2. InQueue(Head(q), q)
    BY <1>1 DEF InQueue
  <1>3. ASSUME NEW j
        PROVE  InQueue(j, q) <=> j = Head(q) \/ InQueue(j, Tail(q))
    <2>1. ASSUME InQueue(j, q), j # Head(q)
          PROVE  InQueue(j, Tail(q))
      <3>1. PICK i \in 1..Len(q) : q[i] = j
        BY <2>1 DEF InQueue
      <3>2. i - 1 \in 1..Len(Tail(q)) /\ Tail(q)[i - 1] = j
        BY <1>1, <2>1, <3>1
      <3>3. QED
        BY <3>2 DEF InQueue
    <2>2. ASSUME InQueue(j, Tail(q))
          PROVE  InQueue(j, q)
      <3>1. PICK i \in 1..Len(Tail(q)) : Tail(q)[i] = j
        BY <2>2 DEF InQueue
      <3>2. i + 1 \in 1..Len(q) /\ q[i + 1] = j
        BY <1>1, <3>1
      <3>3. QED
        BY <3>2 DEF InQueue
    <2>3. QED
      BY <1>2, <2>1, <2>2
  <1>4. ASSUME NoTwice(q)
        PROVE  NoTwice(Tail(q)) /\ ~InQueue(Head(q), Tail(q))
    <2>1. NoTwice(Tail(q))
      <3>1. SUFFICES ASSUME NEW a \in 1..Len(Tail(q)), NEW b \in 1..Len(Tail(q)),
                            Tail(q)[a] = Tail(q)[b]
                     PROVE  a = b
        BY DEF NoTwice
      <3>2. a + 1 \in 1..Len(q) /\ b + 1 \in 1..Len(q) /\ q[a + 1] = q[b + 1]
        BY <1>1, <3>1
      <3>3. a + 1 = b + 1
        BY <1>4, <3>2 DEF NoTwice
      <3>4. QED
        BY <3>3
    <2>2. ASSUME InQueue(Head(q), Tail(q))
          PROVE  FALSE
      <3>1. PICK i \in 1..Len(Tail(q)) : Tail(q)[i] = q[1]
        BY <1>1, <2>2 DEF InQueue
      <3>2. i + 1 \in 1..Len(q) /\ 1 \in 1..Len(q) /\ q[i + 1] = q[1] /\ i + 1 # 1
        BY <1>1, <3>1
      <3>3. QED
        BY <1>4, <3>2 DEF NoTwice
    <2>3. QED
      BY <2>1, <2>2
  <1>5. QED
    BY <1>1, <1>2, <1>3, <1>4

LEMMA QueueAppendNoTwice ==
    ASSUME NEW S, NEW q \in Seq(S), NEW k \in S, NoTwice(q), ~InQueue(k, q)
    PROVE  NoTwice(Append(q, k))
  <1>1. SUFFICES ASSUME NEW a \in 1..Len(Append(q, k)), NEW b \in 1..Len(Append(q, k)),
                        Append(q, k)[a] = Append(q, k)[b]
                 PROVE  a = b
    BY DEF NoTwice
  <1>2. Len(q) \in Nat
    OBVIOUS
  <1>3. \A i \in 1..Len(q) : q[i] # k
    BY DEF InQueue
  <1>4. QED
    BY <1>1, <1>2, <1>3, QueueAppend DEF NoTwice

-----------------------------------------------------------------------------
(* Every disjunct of Next, for the case splits below. *)
LEMMA NextCases ==
    ASSUME FunnelNext
    PROVE  \/ \E j \in Jobs : Offload(j)
           \/ \E j \in Jobs : RendersNothing(j)
           \/ \E j \in Jobs : OffloadToLane(j)
           \/ \E j \in Jobs : Cancel(j)
           \/ \E e \in pending, o \in Outcomes : Reply(e, o)
           \/ \E j \in Jobs, o \in HereOutcomes : FinishHere(j, o)
           \/ \E s \in sending : SendTaken(s)
           \/ \E s \in sending : SendRefused(s)
           \/ HandOver
           \/ SetWorker \/ AbandonWorker \/ SetLane \/ AbandonLane
           \/ ExpectSink \/ DeadlinePasses \/ FlushExpired
  BY DEF FunnelNext, ReplyTo, EndsHere, SendReturns

LEMMA QueuedInJobs == ASSUME NEW q PROVE Queued(q) \subseteq Jobs
  BY DEF Queued

LEMMA DeliveredType ==
    ASSUME fate \in [Jobs -> Fates], NEW js, NEW o \in Fates
    PROVE  /\ Delivered(js, o) \in [Jobs -> Fates]
           /\ \A j \in Jobs : Delivered(js, o)[j] = IF j \in js THEN o ELSE fate[j]
  BY DEF Delivered

(* dispatch keeps the types, whichever of its paths is taken. *)
LEMMA DispatchType ==
    ASSUME TypeOK, NEW j \in Jobs, Dispatch(j), worker' = worker, lane' = lane,
           nextSink' = nextSink, armed' = armed, lapsed' = lapsed
    PROVE  /\ pending' \subseteq Entry
           /\ \A e \in pending' : e.id < nextId'
           /\ \A e, f \in pending' : e.id = f.id => e = f
           /\ nextId' = nextId + 1 /\ nextId' \in Nat \ {0}
           /\ until' \in 0..armed
           /\ waiting' \in Seq(Jobs) /\ Len(waiting') <= WaitLimit
           /\ sending' \subseteq Entry
           /\ \A s \in sending' : s.id < nextId'
           /\ here' \subseteq Jobs
           /\ fate' \in [Jobs -> Fates]
  <1> USE FunnelAssumption DEF TypeOK
  <1>1. nextId' = nextId + 1 /\ nextId' \in Nat \ {0}
    BY DEF Dispatch
  <1>2. CASE worker # NoSink
    <2> DEFINE new == [id |-> nextId, job |-> j, sink |-> worker]
    <2>1. /\ pending' = pending \cup {new}
          /\ sending' = sending \cup {new}
          /\ fate' = [fate EXCEPT ![j] = "owed"]
          /\ UNCHANGED <<until, waiting, here>>
      BY <1>2 DEF Dispatch, Register
    <2>2. new \in Entry /\ new.id = nextId
      BY DEF Entry
    <2>3. \A e \in pending \cup sending : e.id \in Nat /\ e.id < nextId
      BY DEF Entry
    <2>4. fate' \in [Jobs -> Fates]
      BY <2>1 DEF Fates
    <2> HIDE DEF new
    <2>5. QED
      BY <1>1, <2>1, <2>2, <2>3, <2>4
  <1>3. CASE worker = NoSink
    <2>1. UNCHANGED <<pending, sending>> /\ WaitForSink(j)
      BY <1>3 DEF Dispatch
    <2>2. /\ fate' \in [Jobs -> Fates]
          /\ until' \in 0..armed
          /\ here' \subseteq Jobs
      <3>1. "owed" \in Fates /\ "nothing" \in Fates
        BY DEF Fates
      <3>2. fate' \in [Jobs -> Fates]
        BY <2>1, <3>1 DEF WaitForSink
      <3>3. until' \in 0..armed
        BY <2>1 DEF WaitForSink, NoWait
      <3>4. here' \subseteq Jobs
        BY <2>1, QueuedInJobs DEF WaitForSink
      <3>5. QED
        BY <3>2, <3>3, <3>4
    <2>3. waiting' \in Seq(Jobs) /\ Len(waiting') <= WaitLimit
      <3>0. CASE waiting' = waiting
        BY <3>0
      <3>1. CASE waiting' = <<>>
        <4>1. <<>> \in Seq(Jobs) /\ Len(<<>>) = 0 /\ 0 <= WaitLimit
          OBVIOUS
        <4>2. QED
          BY <3>1, <4>1, Zenon
      <3>2. CASE ~Full /\ waiting' = Append(waiting, j)
        BY <3>2, QueueAppend DEF Full
      <3>3. CASE Full /\ waiting' = Append(Tail(waiting), j)
        <4>1. waiting # <<>> /\ Len(waiting) \in Nat /\ Len(waiting) >= WaitLimit
          BY <3>3 DEF Full
        <4>2. Tail(waiting) \in Seq(Jobs) /\ Len(Tail(waiting)) = Len(waiting) - 1
          BY <4>1, QueueTail
        <4>3. waiting' \in Seq(Jobs) /\ Len(waiting') = Len(waiting)
          BY <3>3, <4>1, <4>2, QueueAppend
        <4>4. QED
          BY <4>3
      <3>4. QED
        BY <2>1, <3>0, <3>1, <3>2, <3>3 DEF WaitForSink
    <2>4. \A e \in Entry : e.id \in Nat
      BY DEF Entry
    <2>5. QED
      BY <1>1, <2>1, <2>2, <2>3, <2>4
  <1>4. QED
    BY <1>2, <1>3

LEMMA TypeStep == ASSUME TypeOK, FunnelNext PROVE TypeOK'
  <1> USE FunnelAssumption DEF TypeOK
  <1>1. ASSUME NEW j \in Jobs, Offload(j) PROVE TypeOK'
    <2>1. /\ Dispatch(j) /\ handle' = [handle EXCEPT ![j] = nextId]
          /\ UNCHANGED <<worker, lane, nextSink, armed, lapsed, todo>>
      BY <1>1 DEF Offload
    <2>2. handle' \in [Jobs -> Nat] /\ \A k \in Jobs : handle'[k] < nextId + 1
      BY <2>1
    <2>3. QED
      BY <2>1, <2>2, DispatchType
  <1>2. ASSUME HandOver PROVE TypeOK'
    <2>1. Head(todo) \in Jobs /\ Tail(todo) \in Seq(Jobs)
      BY <1>2, QueueTail DEF HandOver
    <2>2. /\ Dispatch(Head(todo)) /\ todo' = Tail(todo)
          /\ UNCHANGED <<worker, lane, nextSink, armed, lapsed, handle>>
      BY <1>2 DEF HandOver
    <2>3. nextId' = nextId + 1
      BY <2>2 DEF Dispatch
    <2>4. QED
      BY <2>1, <2>2, <2>3, DispatchType
  <1>3. ASSUME NEW j \in Jobs, OffloadToLane(j) PROVE TypeOK'
    <2> DEFINE new == [id |-> nextId, job |-> j, sink |-> lane]
    <2>1. /\ pending' = pending \cup {new}
          /\ sending' = sending \cup {new}
          /\ nextId' = nextId + 1
          /\ fate' = [fate EXCEPT ![j] = "owed"]
          /\ handle' = [handle EXCEPT ![j] = nextId]
          /\ UNCHANGED <<sinks, wait, todo, here>>
      BY <1>3 DEF OffloadToLane, Register
    <2>2. new \in Entry /\ new.id = nextId
      BY DEF Entry
    <2>3. \A e \in pending \cup sending : e.id \in Nat /\ e.id < nextId
      BY DEF Entry
    <2>4. fate' \in [Jobs -> Fates] /\ handle' \in [Jobs -> Nat]
      BY <2>1 DEF Fates
    <2>5. \A k \in Jobs : handle'[k] < nextId + 1
      BY <2>1
    <2> HIDE DEF new
    <2>6. QED
      BY <2>1, <2>2, <2>3, <2>4, <2>5 DEF sinks, wait
  <1>4. ASSUME NEW j \in Jobs, RendersNothing(j) PROVE TypeOK'
    BY <1>4, DeliveredType DEF RendersNothing, sinks, wait, Fates
  <1>5. ASSUME NEW j \in Jobs, Cancel(j) PROVE TypeOK'
    BY <1>5, DeliveredType DEF Cancel, sinks, wait, Fates
  <1>6. ASSUME NEW e \in pending, NEW o \in Outcomes, Reply(e, o) PROVE TypeOK'
    BY <1>6, DeliveredType DEF Reply, sinks, wait, Fates, Outcomes
  <1>7. ASSUME NEW j \in Jobs, NEW o \in HereOutcomes, FinishHere(j, o) PROVE TypeOK'
    BY <1>7, DeliveredType DEF FinishHere, HereOutcomes, sinks, wait, Fates, Outcomes
  <1>8. ASSUME NEW s \in sending, SendTaken(s) PROVE TypeOK'
    BY <1>8 DEF SendTaken, sinks, wait
  <1>9. ASSUME NEW s \in sending, SendRefused(s) PROVE TypeOK'
    <2>1. /\ sending' = sending \ {s}
          /\ pending' = pending \ {s}
          /\ \/ here' = here \cup {s.job} /\ UNCHANGED fate
             \/ fate' = Delivered({s.job}, "returned") /\ UNCHANGED here
             \/ UNCHANGED <<here, fate>>
          /\ UNCHANGED <<sinks, nextId, wait, todo, handle>>
      BY <1>9 DEF SendRefused
    <2>2. s.job \in Jobs
      BY DEF Entry
    <2>3. fate' \in [Jobs -> Fates]
      BY <2>1, DeliveredType DEF Fates
    <2>4. QED
      BY <2>1, <2>2, <2>3 DEF sinks, wait
  <1>10. CASE SetWorker
    BY <1>10, DeliveredType DEF SetWorker, Abandon, Fates, NoWait, NoSink
  <1>11. CASE AbandonWorker
    BY <1>11, DeliveredType DEF AbandonWorker, Abandon, wait, Fates, NoSink
  <1>12. CASE SetLane
    BY <1>12, DeliveredType DEF SetLane, Abandon, wait, Fates, NoSink
  <1>13. CASE AbandonLane
    BY <1>13, DeliveredType DEF AbandonLane, Abandon, wait, Fates, NoSink
  <1>14. CASE ExpectSink
    BY <1>14 DEF ExpectSink, sinks
  <1>15. CASE DeadlinePasses
    BY <1>15 DEF DeadlinePasses, sinks
  <1>16. CASE FlushExpired
    BY <1>16, QueuedInJobs DEF FlushExpired, sinks, NoWait
  <1>17. QED
    BY NextCases, <1>1, <1>2, <1>3, <1>4, <1>5, <1>6, <1>7, <1>8, <1>9, <1>10,
       <1>11, <1>12, <1>13, <1>14, <1>15, <1>16

(* Types and bounds of the funnel's state. *)
THEOREM Typing == FunnelSpec => []TypeOK
  <1>1. FunnelInit => TypeOK
    BY FunnelAssumption DEF FunnelInit, TypeOK, NoSink, NoWait, Fates
  <1>2. TypeOK /\ [FunnelNext]_funnelVars => TypeOK'
    <2>1. CASE UNCHANGED funnelVars
      BY <2>1 DEF TypeOK, funnelVars
    <2>2. QED
      BY <2>1, TypeStep
  <1>3. QED
    BY <1>1, <1>2, PTL DEF FunnelSpec


-----------------------------------------------------------------------------
(* Custody and ownership. *)

(* Sends under way are to an installed sink: nothing is installed or retired while *)
(* a `send` has not returned.                                                      *)
SendsOwned == \A s \in sending : s.sink # NoSink /\ s.sink \in {worker, lane}

(* Ownership: inductive by itself once the types are known. *)
Owned == RegistryOwned /\ WaitIsArmed /\ SendsOwned

LEMMA OwnedStep ==
    ASSUME TypeOK, Owned, FunnelNext
    PROVE  Owned'
  <1> USE FunnelAssumption DEF NoSink, NoWait
  <1> USE DEF TypeOK, Owned, RegistryOwned, WaitIsArmed, SendsOwned
  <1>0. ASSUME NEW j \in Jobs, Dispatch(j), UNCHANGED <<worker, lane>>,
               todo' = todo \/ (todo # <<>> /\ todo' = Tail(todo))
        PROVE  Owned'
    <2>1. CASE worker # NoSink
      <3> DEFINE new == [id |-> nextId, job |-> j, sink |-> worker]
      <3>1. /\ pending' = pending \cup {new}
            /\ sending' = sending \cup {new}
            /\ UNCHANGED <<until, waiting, here>>
        BY <1>0, <2>1 DEF Dispatch, Register
      <3>2. new.sink = worker
        OBVIOUS
      <3> HIDE DEF new
      <3>3. QED
        BY <1>0, <2>1, <3>1, <3>2
    <2>2. CASE worker = NoSink
      <3>1. UNCHANGED <<pending, sending>> /\ WaitForSink(j) /\ todo = <<>>
        BY <1>0, <2>2 DEF Dispatch
      <3>2. waiting' # <<>> => until' # NoWait
        BY <3>1 DEF WaitForSink
      <3>3. QED
        BY <1>0, <2>2, <3>1, <3>2
    <2>3. QED
      BY <2>1, <2>2
  <1>1. ASSUME NEW j \in Jobs, Offload(j) PROVE Owned'
    BY <1>1, <1>0 DEF Offload
  <1>2. ASSUME HandOver PROVE Owned'
    <2>1. Head(todo) \in Jobs
      BY <1>2, QueueTail DEF HandOver
    <2>2. QED
      BY <1>2, <2>1, <1>0 DEF HandOver
  <1>3. ASSUME NEW j \in Jobs, OffloadToLane(j) PROVE Owned'
    <2> DEFINE new == [id |-> nextId, job |-> j, sink |-> lane]
    <2>1. /\ pending' = pending \cup {new}
          /\ sending' = sending \cup {new}
          /\ lane # NoSink
          /\ UNCHANGED <<sinks, wait, todo>>
      BY <1>3 DEF OffloadToLane, Register
    <2>2. new.sink = lane
      OBVIOUS
    <2> HIDE DEF new
    <2>3. QED
      BY <2>1, <2>2 DEF sinks, wait
  <1>4. ASSUME NEW j \in Jobs, RendersNothing(j) PROVE Owned'
    BY <1>4 DEF RendersNothing, sinks, wait
  <1>5. ASSUME NEW j \in Jobs, Cancel(j) PROVE Owned'
    BY <1>5 DEF Cancel, sinks, wait
  <1>6. ASSUME NEW e \in pending, NEW o \in Outcomes, Reply(e, o) PROVE Owned'
    BY <1>6 DEF Reply, sinks, wait
  <1>7. ASSUME NEW j \in Jobs, NEW o \in HereOutcomes, FinishHere(j, o) PROVE Owned'
    BY <1>7 DEF FinishHere, sinks, wait
  <1>8. ASSUME NEW s \in sending, SendTaken(s) PROVE Owned'
    BY <1>8 DEF SendTaken, sinks, wait
  <1>9. ASSUME NEW s \in sending, SendRefused(s) PROVE Owned'
    BY <1>9 DEF SendRefused, sinks, wait
  <1>10. CASE SetWorker
    BY <1>10 DEF SetWorker, Abandon, JobsOf, Idle
  <1>11. CASE AbandonWorker
    BY <1>11 DEF AbandonWorker, Abandon, JobsOf, Idle, wait
  <1>12. CASE SetLane
    BY <1>12 DEF SetLane, Abandon, JobsOf, Idle, wait
  <1>13. CASE AbandonLane
    BY <1>13 DEF AbandonLane, Abandon, JobsOf, Idle, wait
  <1>14. CASE ExpectSink
    BY <1>14 DEF ExpectSink, sinks
  <1>15. CASE DeadlinePasses
    BY <1>15 DEF DeadlinePasses, sinks
  <1>16. CASE FlushExpired
    BY <1>16 DEF FlushExpired, sinks
  <1>17. QED
    BY NextCases, <1>1, <1>2, <1>3, <1>4, <1>5, <1>6, <1>7, <1>8, <1>9, <1>10,
       <1>11, <1>12, <1>13, <1>14, <1>15, <1>16

-----------------------------------------------------------------------------
(* Custody, with the four places spelled out. *)
OwedSomewhere ==
    \A j \in Jobs :
        fate[j] = "owed" <=>
            Registered(j) \/ InQueue(j, waiting) \/ InQueue(j, todo) \/ j \in here

OnePlace ==
    \A j \in Jobs :
        /\ Registered(j) => ~InQueue(j, waiting) /\ ~InQueue(j, todo) /\ j \notin here
        /\ InQueue(j, waiting) => ~InQueue(j, todo) /\ j \notin here
        /\ InQueue(j, todo) => j \notin here

OneEntry == \A e, f \in pending : e.job = f.job => e = f

Flat == OwedSomewhere /\ OnePlace /\ OneEntry /\ NoTwice(waiting) /\ NoTwice(todo)

LEMMA CustodyIsFlat == Custody <=> Flat
  <1>1. \A j : /\ "registry" \in Places(j) <=> Registered(j)
               /\ "waiting" \in Places(j) <=> InQueue(j, waiting)
               /\ "todo" \in Places(j) <=> InQueue(j, todo)
               /\ "here" \in Places(j) <=> j \in here
               /\ \A p \in Places(j) : p \in {"registry", "waiting", "todo", "here"}
    BY DEF Places
  <1>2. \A j : Places(j) # {} <=>
                 Registered(j) \/ InQueue(j, waiting) \/ InQueue(j, todo) \/ j \in here
    BY <1>1
  <1>3. \A j : (\A p, q \in Places(j) : p = q) <=>
                 /\ Registered(j) => ~InQueue(j, waiting) /\ ~InQueue(j, todo) /\ j \notin here
                 /\ InQueue(j, waiting) => ~InQueue(j, todo) /\ j \notin here
                 /\ InQueue(j, todo) => j \notin here
    BY <1>1
  <1>4. QED
    BY <1>2, <1>3 DEF Custody, Flat, OwedSomewhere, OnePlace, OneEntry

(* A job that enters the registry. *)
LEMMA EntryArrives ==
    ASSUME NEW j \in Jobs, NEW sink, Register(j, sink), OneEntry, ~Registered(j)
    PROVE  /\ \A k \in Jobs : Registered(k)' <=> Registered(k) \/ k = j
           /\ OneEntry'
  <1> DEFINE new == [id |-> nextId, job |-> j, sink |-> sink]
  <1>1. pending' = pending \cup {new} /\ new.job = j
    BY DEF Register
  <1> HIDE DEF new
  <1>2. QED
    BY <1>1 DEF OneEntry, Registered

(* dispatch gives a job that is nowhere else exactly one place.  The job may be the *)
(* head of `todo`, which leaves it in the same step.                               *)
LEMMA DispatchCustody ==
    ASSUME TypeOK, Flat, NEW j \in Jobs, Dispatch(j),
           ~Registered(j), ~InQueue(j, waiting), j \notin here,
           ~InQueue(j, todo'), NoTwice(todo'),
           \A k \in Jobs : k # j => (InQueue(k, todo') <=> InQueue(k, todo))
    PROVE  Flat'
  <1> USE DEF TypeOK
  <1>1. CASE worker # NoSink
    <2>1. Register(j, worker) /\ fate' = [fate EXCEPT ![j] = "owed"]
          /\ UNCHANGED <<until, waiting, here>>
      BY <1>1 DEF Dispatch
    <2>2. (\A k \in Jobs : Registered(k)' <=> Registered(k) \/ k = j) /\ OneEntry'
      BY <2>1, EntryArrives DEF Flat
    <2>3. OwedSomewhere'
      BY <2>1, <2>2 DEF Flat, OwedSomewhere
    <2>4. OnePlace'
      BY <2>1, <2>2 DEF Flat, OnePlace
    <2>5. QED
      BY <2>1, <2>2, <2>3, <2>4 DEF Flat
  <1>2. CASE worker = NoSink
    <2>1. UNCHANGED pending /\ WaitForSink(j)
      BY <1>2 DEF Dispatch
    <2>2. (\A k \in Jobs : Registered(k)' <=> Registered(k)) /\ OneEntry'
      BY <2>1 DEF Registered, Flat, OneEntry
    <2>3. CASE /\ here' = here \cup {j}
               /\ fate' = [fate EXCEPT ![j] = "owed"]
               /\ UNCHANGED waiting
      BY <2>2, <2>3 DEF Flat, OwedSomewhere, OnePlace
    <2>4. CASE /\ waiting' = <<>>
               /\ here' = here \cup Queued(waiting) \cup {j}
               /\ fate' = [fate EXCEPT ![j] = "owed"]
      <3>1. \A k : ~InQueue(k, waiting')
        BY <2>4 DEF InQueue
      <3>2. NoTwice(waiting')
        BY <2>4 DEF NoTwice
      <3>3. \A k \in Jobs : k \in here' <=> k \in here \/ InQueue(k, waiting) \/ k = j
        BY <2>4 DEF Queued
      <3>4. OwedSomewhere'
        BY <2>2, <2>4, <3>1, <3>3 DEF Flat, OwedSomewhere
      <3>5. OnePlace'
        BY <2>2, <3>1, <3>3 DEF Flat, OnePlace
      <3>6. QED
        BY <2>2, <3>2, <3>4, <3>5 DEF Flat
    <2>5. CASE /\ waiting' = Append(waiting, j)
               /\ fate' = [fate EXCEPT ![j] = "owed"]
               /\ UNCHANGED here
      <3>1. \A k \in Jobs : InQueue(k, waiting') <=> InQueue(k, waiting) \/ k = j
        BY <2>5, QueueAppend
      <3>2. NoTwice(waiting')
        BY <2>5, QueueAppendNoTwice DEF Flat
      <3>3. OwedSomewhere'
        BY <2>2, <2>5, <3>1 DEF Flat, OwedSomewhere
      <3>4. OnePlace'
        BY <2>2, <2>5, <3>1 DEF Flat, OnePlace
      <3>5. QED
        BY <2>2, <3>2, <3>3, <3>4 DEF Flat
    <2>6. CASE /\ Full
               /\ waiting' = Append(Tail(waiting), j)
               /\ fate' = [fate EXCEPT ![j] = "owed", ![Head(waiting)] = "nothing"]
               /\ UNCHANGED here
      <3> DEFINE out == Head(waiting)
      <3>1. waiting # <<>>
        BY <2>6, FunnelAssumption DEF Full
      <3>2. /\ out \in Jobs
            /\ Tail(waiting) \in Seq(Jobs)
            /\ InQueue(out, waiting)
            /\ \A k : InQueue(k, waiting) <=> k = out \/ InQueue(k, Tail(waiting))
            /\ NoTwice(Tail(waiting)) /\ ~InQueue(out, Tail(waiting))
        BY <3>1, QueueTail DEF Flat
      <3>3. out # j
        BY <3>2
      <3>4. fate' = [fate EXCEPT ![j] = "owed", ![out] = "nothing"]
        BY <2>6
      <3>5. \A k \in Jobs : InQueue(k, waiting') <=> InQueue(k, Tail(waiting)) \/ k = j
        <4>1. \A k : InQueue(k, Append(Tail(waiting), j)) <=> InQueue(k, Tail(waiting)) \/ k = j
          <5>1. \A r \in Seq(Jobs) : \A k : InQueue(k, Append(r, j)) <=> InQueue(k, r) \/ k = j
            BY QueueAppend
          <5>2. QED
            BY <3>2, <5>1, Zenon
        <4>2. waiting' = Append(Tail(waiting), j)
          BY <2>6
        <4>3. QED
          BY <4>1, <4>2, Zenon
      <3>6. NoTwice(waiting')
        BY <2>6, <3>2, QueueAppendNoTwice
      <3>7. ~Registered(out) /\ ~InQueue(out, todo) /\ out \notin here
        BY <3>2 DEF Flat, OnePlace
      <3> HIDE DEF out
      <3>8. OwedSomewhere'
        <4>1. \A k \in Jobs : k # j /\ k # out => fate'[k] = fate[k]
          BY <3>4
        <4>2. fate'[j] = "owed" /\ fate'[out] = "nothing"
          BY <3>2, <3>3, <3>4
        <4>3. \A k \in Jobs : k # j /\ k # out => (InQueue(k, waiting') <=> InQueue(k, waiting))
          BY <3>2, <3>5
        <4>4. InQueue(j, waiting') /\ ~InQueue(out, waiting')
          BY <3>2, <3>3, <3>5
        <4>5. QED
          BY <2>2, <2>6, <3>2, <3>3, <3>7, <4>1, <4>2, <4>3, <4>4 DEF Flat, OwedSomewhere
      <3>9. OnePlace'
        BY <2>2, <2>6, <3>2, <3>5, <3>7 DEF Flat, OnePlace
      <3>10. QED
        BY <2>2, <3>6, <3>8, <3>9 DEF Flat
    <2>7. QED
      BY <2>1, <2>3, <2>4, <2>5, <2>6 DEF WaitForSink
  <1>3. QED
    BY <1>1, <1>2

(* The registry after some of its entries left. *)
LEMMA RegistryShrinks ==
    ASSUME TypeOK, Flat, NEW gone, gone \subseteq pending, pending' = pending \ gone
    PROVE  /\ \A j \in Jobs : Registered(j)' <=> Registered(j) /\ j \notin {e.job : e \in gone}
           /\ OneEntry'
           /\ \A j \in {e.job : e \in gone} : j \in Jobs /\ Registered(j)
  <1>1. OneEntry /\ pending \subseteq Entry
    BY DEF Flat, TypeOK
  <1>2. /\ \A j \in Jobs : (\E e \in pending' : e.job = j) <=>
                              Registered(j) /\ j \notin {e.job : e \in gone}
        /\ \A e, f \in pending' : e.job = f.job => e = f
        /\ \A j \in {e.job : e \in gone} : j \in Jobs /\ Registered(j)
    BY <1>1 DEF OneEntry, Registered, Entry
  <1>3. \A j : Registered(j)' <=> \E e \in pending' : e.job = j
    BY DEF Registered
  <1>4. OneEntry' <=> \A e, f \in pending' : e.job = f.job => e = f
    BY DEF OneEntry
  <1>5. QED
    BY <1>2, <1>3, <1>4

(* Entries that leave settled leave custody behind them. *)
LEMMA SettledLeave ==
    ASSUME TypeOK, Flat, NEW gone, gone \subseteq pending, pending' = pending \ gone,
           NEW o \in Settled, fate' = Delivered({e.job : e \in gone}, o),
           UNCHANGED <<waiting, todo, here>>
    PROVE  Flat'
  <1> USE DEF TypeOK
  <1>1. /\ \A j \in Jobs : Registered(j)' <=> Registered(j) /\ j \notin {e.job : e \in gone}
        /\ OneEntry'
        /\ \A j \in {e.job : e \in gone} : j \in Jobs /\ Registered(j)
    BY RegistryShrinks
  <1>2. \A j \in Jobs : fate'[j] = IF j \in {e.job : e \in gone} THEN o ELSE fate[j]
    BY DEF Delivered
  <1>3. o # "owed"
    BY DEF Settled
  <1>4. OwedSomewhere'
    BY <1>1, <1>2, <1>3 DEF Flat, OwedSomewhere, OnePlace
  <1>5. OnePlace'
    BY <1>1 DEF Flat, OnePlace
  <1>6. QED
    BY <1>1, <1>4, <1>5 DEF Flat

(* One entry settled, by a reply, a cancel or a lane that refused it. *)
LEMMA OneSettled ==
    ASSUME TypeOK, Flat, NEW e \in pending, pending' = pending \ {e},
           NEW o \in Settled, fate' = Delivered({e.job}, o),
           UNCHANGED <<waiting, todo, here>>
    PROVE  Flat'
  <1>1. {x.job : x \in {e}} = {e.job}
    OBVIOUS
  <1>2. {e} \subseteq pending /\ fate' = Delivered({x.job : x \in {e}}, o)
    BY <1>1
  <1>3. QED
    BY <1>2, SettledLeave

(* A fallback run ends. *)
LEMMA RunEnds ==
    ASSUME TypeOK, Flat, NEW j \in here, here' = here \ {j},
           NEW o \in Settled, fate' = Delivered({j}, o),
           UNCHANGED <<pending, waiting, todo>>
    PROVE  Flat'
  <1> USE DEF TypeOK
  <1>1. \A k \in Jobs : fate'[k] = IF k = j THEN o ELSE fate[k]
    BY DEF Delivered
  <1>2. o # "owed"
    BY DEF Settled
  <1>3. (\A k \in Jobs : Registered(k)' <=> Registered(k)) /\ OneEntry'
    BY DEF Registered, Flat, OneEntry
  <1>4. OwedSomewhere'
    BY <1>1, <1>2, <1>3 DEF Flat, OwedSomewhere, OnePlace
  <1>5. OnePlace'
    BY <1>3 DEF Flat, OnePlace
  <1>6. QED
    BY <1>3, <1>4, <1>5 DEF Flat

(* Steps that move no job. *)
LEMMA FlatUnchanged ==
    ASSUME Flat, UNCHANGED <<pending, waiting, todo, here, fate>>
    PROVE  Flat'
  BY DEF Flat, OwedSomewhere, OnePlace, OneEntry, Registered

(* The empty queue. *)
LEMMA EmptyQueue == NoTwice(<<>>) /\ \A j : ~InQueue(j, <<>>)
  BY DEF NoTwice, InQueue

LEMMA FlatStep ==
    ASSUME TypeOK, Flat, FunnelNext
    PROVE  Flat'
  <1> USE DEF TypeOK
  <1>0. ASSUME NEW j \in Jobs, fate[j] = "new"
        PROVE  ~Registered(j) /\ ~InQueue(j, waiting) /\ ~InQueue(j, todo) /\ j \notin here
    BY <1>0 DEF Flat, OwedSomewhere
  <1>s. Settled = {"value", "nothing", "returned", "dropped"} /\ Outcomes \subseteq Settled
    BY DEF Settled, Outcomes
  <1>1. ASSUME NEW j \in Jobs, Offload(j) PROVE Flat'
    <2>1. Dispatch(j) /\ fate[j] = "new" /\ todo' = todo
      BY <1>1 DEF Offload
    <2>2. NoTwice(todo)
      BY DEF Flat
    <2>3. QED
      BY <1>0, <2>1, <2>2, DispatchCustody
  <1>2. ASSUME HandOver PROVE Flat'
    <2> DEFINE j == Head(todo)
    <2>1. todo # <<>> /\ Dispatch(j) /\ todo' = Tail(todo)
      BY <1>2 DEF HandOver
    <2>2. /\ j \in Jobs
          /\ InQueue(j, todo)
          /\ \A k : InQueue(k, todo) <=> k = j \/ InQueue(k, Tail(todo))
          /\ NoTwice(Tail(todo)) /\ ~InQueue(j, Tail(todo))
      BY <2>1, QueueTail DEF Flat
    <2> HIDE DEF j
    <2>3. ~Registered(j) /\ ~InQueue(j, waiting) /\ j \notin here
      BY <2>2 DEF Flat, OnePlace
    <2>4. /\ ~InQueue(j, todo') /\ NoTwice(todo')
          /\ \A k \in Jobs : k # j => (InQueue(k, todo') <=> InQueue(k, todo))
      BY <2>1, <2>2, Zenon
    <2>5. QED
      BY <2>1, <2>2, <2>3, <2>4, DispatchCustody
  <1>3. ASSUME NEW j \in Jobs, OffloadToLane(j) PROVE Flat'
    <2>1. /\ Register(j, lane) /\ fate[j] = "new" /\ fate' = [fate EXCEPT ![j] = "owed"]
          /\ UNCHANGED <<waiting, todo, here>>
      BY <1>3 DEF OffloadToLane, wait
    <2>2. (\A k \in Jobs : Registered(k)' <=> Registered(k) \/ k = j) /\ OneEntry'
      BY <1>0, <2>1, EntryArrives DEF Flat
    <2>3. OwedSomewhere'
      BY <2>1, <2>2 DEF Flat, OwedSomewhere
    <2>4. OnePlace'
      BY <1>0, <2>1, <2>2 DEF Flat, OnePlace
    <2>5. QED
      BY <2>1, <2>2, <2>3, <2>4 DEF Flat
  <1>4. ASSUME NEW j \in Jobs, RendersNothing(j) PROVE Flat'
    <2>1. /\ fate[j] = "new" /\ fate' = Delivered({j}, "nothing")
          /\ UNCHANGED <<pending, waiting, todo, here>>
      BY <1>4 DEF RendersNothing, wait
    <2>2. \A k \in Jobs : fate'[k] = IF k = j THEN "nothing" ELSE fate[k]
      BY <2>1 DEF Delivered
    <2>3. (\A k \in Jobs : Registered(k)' <=> Registered(k)) /\ OneEntry' /\ OnePlace'
      BY <2>1 DEF Registered, Flat, OneEntry, OnePlace
    <2>4. OwedSomewhere'
      BY <1>0, <2>1, <2>2, <2>3 DEF Flat, OwedSomewhere
    <2>5. QED
      BY <2>1, <2>3, <2>4 DEF Flat
  <1>5. ASSUME NEW j \in Jobs, Cancel(j) PROVE Flat'
    <2>1. PICK e \in pending : pending' = pending \ {e} /\ fate' = Delivered({e.job}, "nothing")
      BY <1>5 DEF Cancel
    <2>2. UNCHANGED <<waiting, todo, here>>
      BY <1>5 DEF Cancel, wait
    <2>3. QED
      BY <1>s, <2>1, <2>2, OneSettled
  <1>6. ASSUME NEW e \in pending, NEW o \in Outcomes, Reply(e, o) PROVE Flat'
    BY <1>s, <1>6, OneSettled DEF Reply, wait
  <1>7. ASSUME NEW j \in Jobs, NEW o \in HereOutcomes, FinishHere(j, o) PROVE Flat'
    BY <1>s, <1>7, RunEnds DEF FinishHere, HereOutcomes, Settled, wait
  <1>8. ASSUME NEW s \in sending, SendTaken(s) PROVE Flat'
    BY <1>8, FlatUnchanged DEF SendTaken, wait
  <1>9. ASSUME NEW s \in sending, SendRefused(s) PROVE Flat'
    <2>1. pending' = pending \ {s} /\ UNCHANGED <<waiting, todo>> /\ s.job \in Jobs
      BY <1>9 DEF SendRefused, wait, Entry
    <2>2. CASE s \in pending /\ here' = here \cup {s.job} /\ UNCHANGED fate
      <3>1. Registered(s.job) /\ pending \subseteq Entry /\ OneEntry
        BY <2>2 DEF Registered, Flat
      <3>2. \A k \in Jobs : Registered(k)' <=> Registered(k) /\ k # s.job
        BY <2>1, <2>2, <3>1 DEF Registered, OneEntry
      <3>3. OneEntry'
        BY <2>1, <3>1 DEF OneEntry
      <3>4. OwedSomewhere'
        BY <2>1, <2>2, <3>1, <3>2 DEF Flat, OwedSomewhere
      <3>5. OnePlace'
        BY <2>1, <2>2, <3>1, <3>2 DEF Flat, OnePlace
      <3>6. QED
        BY <2>1, <3>3, <3>4, <3>5 DEF Flat
    <2>3. CASE s \in pending /\ fate' = Delivered({s.job}, "returned") /\ UNCHANGED here
      BY <1>s, <2>1, <2>3, OneSettled
    <2>4. CASE s \notin pending /\ UNCHANGED <<here, fate>>
      BY <2>1, <2>4, FlatUnchanged
    <2>5. QED
      BY <1>9, <2>2, <2>3, <2>4 DEF SendRefused, StillOwed
  <1>10. CASE SetWorker
    <2> DEFINE gone == JobsOf(worker)
    <2>1. /\ todo = <<>> /\ todo' = waiting /\ waiting' = <<>> /\ here' = here
          /\ pending' = pending \ gone /\ gone \subseteq pending
          /\ fate' = Delivered({e.job : e \in gone}, "nothing")
      BY <1>10 DEF SetWorker, Abandon, JobsOf, Idle
    <2> HIDE DEF gone
    <2>2. /\ \A j \in Jobs : Registered(j)' <=> Registered(j) /\ j \notin {e.job : e \in gone}
          /\ OneEntry'
          /\ \A j \in {e.job : e \in gone} : j \in Jobs /\ Registered(j)
      BY <2>1, RegistryShrinks
    <2>3. \A j \in Jobs : fate'[j] = IF j \in {e.job : e \in gone} THEN "nothing" ELSE fate[j]
      BY <2>1 DEF Delivered
    <2>4. /\ \A j \in Jobs : ~InQueue(j, todo) /\ ~InQueue(j, waiting')
          /\ \A j \in Jobs : InQueue(j, todo') <=> InQueue(j, waiting)
          /\ NoTwice(waiting') /\ NoTwice(todo')
      BY <2>1, EmptyQueue, Zenon DEF Flat
    <2>5. OwedSomewhere'
      BY <2>1, <2>2, <2>3, <2>4 DEF Flat, OwedSomewhere, OnePlace
    <2>6. OnePlace'
      BY <2>1, <2>2, <2>4 DEF Flat, OnePlace
    <2>7. QED
      BY <2>2, <2>4, <2>5, <2>6 DEF Flat
  <1>11. CASE AbandonWorker
    BY <1>s, <1>11, SettledLeave DEF AbandonWorker, Abandon, JobsOf, wait
  <1>12. CASE SetLane
    BY <1>s, <1>12, SettledLeave DEF SetLane, Abandon, JobsOf, wait
  <1>13. CASE AbandonLane
    BY <1>s, <1>13, SettledLeave DEF AbandonLane, Abandon, JobsOf, wait
  <1>14. CASE ExpectSink
    BY <1>14, FlatUnchanged DEF ExpectSink
  <1>15. CASE DeadlinePasses
    BY <1>15, FlatUnchanged DEF DeadlinePasses
  <1>16. CASE FlushExpired
    <2>1. /\ waiting' = <<>> /\ here' = here \cup Queued(waiting)
          /\ UNCHANGED <<pending, todo, fate>>
      BY <1>16 DEF FlushExpired
    <2>2. (\A j \in Jobs : ~InQueue(j, waiting')) /\ NoTwice(waiting')
      BY <2>1, EmptyQueue, Zenon
    <2>3. \A j \in Jobs : j \in here' <=> j \in here \/ InQueue(j, waiting)
      BY <2>1 DEF Queued
    <2>4. (\A j \in Jobs : Registered(j)' <=> Registered(j)) /\ OneEntry'
      BY <2>1 DEF Registered, Flat, OneEntry
    <2>5. OwedSomewhere'
      BY <2>1, <2>2, <2>3, <2>4 DEF Flat, OwedSomewhere
    <2>6. OnePlace'
      BY <2>1, <2>2, <2>3, <2>4 DEF Flat, OnePlace
    <2>7. QED
      BY <2>1, <2>2, <2>4, <2>5, <2>6 DEF Flat
  <1>17. QED
    BY NextCases, <1>1, <1>2, <1>3, <1>4, <1>5, <1>6, <1>7, <1>8, <1>9, <1>10,
       <1>11, <1>12, <1>13, <1>14, <1>15, <1>16

-----------------------------------------------------------------------------
(* How one step may change a job's fate. *)
Moved(j) ==
    \/ fate'[j] = fate[j]
    \/ fate[j] = "new" /\ fate'[j] \in {"owed", "nothing"}
    \/ fate[j] = "owed" /\ fate'[j] \in Settled

LEMMA FateMoves ==
    ASSUME TypeOK, Flat, FunnelNext, NEW k \in Jobs
    PROVE  Moved(k)
  <1> USE DEF TypeOK, Moved
  <1>0. /\ Settled = {"value", "nothing", "returned", "dropped"}
        /\ Outcomes = {"value", "nothing"}
    BY DEF Settled, Outcomes
  <1>d. ASSUME NEW j \in Jobs, Dispatch(j), fate[j] \in {"new", "owed"},
               ~InQueue(j, waiting)
        PROVE  Moved(k)
    <2>1. CASE fate' = [fate EXCEPT ![j] = "owed"]
      BY <1>d, <2>1
    <2>2. CASE /\ Full
               /\ fate' = [fate EXCEPT ![j] = "owed", ![Head(waiting)] = "nothing"]
      <3> DEFINE out == Head(waiting)
      <3>1. waiting # <<>>
        BY <2>2, FunnelAssumption DEF Full
      <3>2. out \in Jobs /\ InQueue(out, waiting)
        BY <3>1, QueueTail
      <3>3. fate' = [fate EXCEPT ![j] = "owed", ![out] = "nothing"]
        BY <2>2
      <3> HIDE DEF out
      <3>4. fate[out] = "owed"
        BY <3>2 DEF Flat, OwedSomewhere
      <3>5. QED
        BY <1>0, <1>d, <3>2, <3>3, <3>4
    <2>3. QED
      BY <1>d, <2>1, <2>2 DEF Dispatch, WaitForSink
  <1>p. \A e \in pending : fate[e.job] = "owed"
    BY DEF Flat, OwedSomewhere, Registered, Entry
  <1>1. ASSUME NEW j \in Jobs, Offload(j) PROVE Moved(k)
    <2>1. Dispatch(j) /\ fate[j] = "new"
      BY <1>1 DEF Offload
    <2>2. ~InQueue(j, waiting)
      BY <2>1 DEF Flat, OwedSomewhere
    <2>3. QED
      BY <2>1, <2>2, <1>d
  <1>2. ASSUME HandOver PROVE Moved(k)
    <2> DEFINE j == Head(todo)
    <2>1. Dispatch(j) /\ todo # <<>>
      BY <1>2 DEF HandOver
    <2>2. j \in Jobs /\ InQueue(j, todo)
      BY <2>1, QueueTail
    <2> HIDE DEF j
    <2>3. fate[j] = "owed" /\ ~InQueue(j, waiting)
      BY <2>2 DEF Flat, OwedSomewhere, OnePlace
    <2>4. QED
      BY <2>1, <2>2, <2>3, <1>d
  <1>3. ASSUME NEW j \in Jobs, OffloadToLane(j) PROVE Moved(k)
    BY <1>3 DEF OffloadToLane
  <1>4. ASSUME NEW j \in Jobs, RendersNothing(j) PROVE Moved(k)
    BY <1>4 DEF RendersNothing, Delivered
  <1>5. ASSUME NEW j \in Jobs, Cancel(j) PROVE Moved(k)
    <2>1. PICK e \in pending : fate' = Delivered({e.job}, "nothing")
      BY <1>5 DEF Cancel
    <2>2. QED
      BY <1>0, <1>p, <2>1 DEF Delivered
  <1>6. ASSUME NEW e \in pending, NEW o \in Outcomes, Reply(e, o) PROVE Moved(k)
    BY <1>0, <1>6, <1>p DEF Reply, Delivered
  <1>h. \A j \in here : fate[j] = "owed"
    BY DEF Flat, OwedSomewhere
  <1>7. ASSUME NEW j \in Jobs, NEW o \in HereOutcomes, FinishHere(j, o) PROVE Moved(k)
    BY <1>0, <1>7, <1>h DEF FinishHere, HereOutcomes, Delivered
  <1>8. ASSUME NEW s \in sending, SendTaken(s) PROVE Moved(k)
    BY <1>8 DEF SendTaken
  <1>9. ASSUME NEW s \in sending, SendRefused(s) PROVE Moved(k)
    BY <1>0, <1>9, <1>p DEF SendRefused, StillOwed, Delivered
  <1>10. ASSUME NEW sink, Abandon(sink) PROVE Moved(k)
    BY <1>0, <1>10, <1>p DEF Abandon, JobsOf, Delivered
  <1>11. ASSUME UNCHANGED fate PROVE Moved(k)
    BY <1>11
  <1>12. QED
    BY NextCases, <1>1, <1>2, <1>3, <1>4, <1>5, <1>6, <1>7, <1>8, <1>9, <1>10, <1>11
       DEF SetWorker, AbandonWorker, SetLane, AbandonLane, ExpectSink, DeadlinePasses,
           FlushExpired

-----------------------------------------------------------------------------
FunnelInv == TypeOK /\ Owned /\ Flat

LEMMA InvInit == FunnelInit => FunnelInv
  <1> SUFFICES ASSUME FunnelInit PROVE FunnelInv
    OBVIOUS
  <1>1. TypeOK
    BY FunnelAssumption DEF FunnelInit, TypeOK, NoSink, NoWait, Fates
  <1>2. Owned
    BY DEF FunnelInit, Owned, RegistryOwned, WaitIsArmed, SendsOwned, NoSink, NoWait
  <1>3. Flat
    <2>1. NoTwice(waiting) /\ NoTwice(todo)
      BY EmptyQueue, Zenon DEF FunnelInit
    <2>2. \A j \in Jobs : ~InQueue(j, waiting) /\ ~InQueue(j, todo)
      BY EmptyQueue, Zenon DEF FunnelInit
    <2>3. \A j \in Jobs : ~Registered(j) /\ j \notin here /\ fate[j] = "new"
      BY DEF FunnelInit, Registered
    <2>4. OneEntry
      BY DEF FunnelInit, OneEntry
    <2>5. QED
      BY <2>1, <2>2, <2>3, <2>4 DEF Flat, OwedSomewhere, OnePlace
  <1>4. QED
    BY <1>1, <1>2, <1>3 DEF FunnelInv

LEMMA InvStep == FunnelInv /\ [FunnelNext]_funnelVars => FunnelInv'
  <1>1. ASSUME FunnelInv, FunnelNext PROVE FunnelInv'
    BY <1>1, TypeStep, OwnedStep, FlatStep DEF FunnelInv
  <1>2. ASSUME FunnelInv, UNCHANGED funnelVars PROVE FunnelInv'
    BY <1>2 DEF FunnelInv, TypeOK, Owned, RegistryOwned, WaitIsArmed, SendsOwned, Flat,
                OwedSomewhere, OnePlace, OneEntry, Registered, funnelVars
  <1>3. QED
    BY <1>1, <1>2

(* The funnel's inductive invariant: types, custody of the closures, owners and the wait, *)
(* which every step of offload.rs keeps together.                                         *)
THEOREM Invariance == FunnelSpec => []FunnelInv
  BY InvInit, InvStep, PTL DEF FunnelSpec

(* A `deliver` the funnel owes is in exactly one place, and one it does not owe in *)
(* none, however replies, cancels, refusals and installations interleave.         *)
THEOREM CustodyHolds == FunnelSpec => []Custody
  <1>1. FunnelInv => Custody
    BY CustodyIsFlat DEF FunnelInv
  <1>2. QED
    BY <1>1, Invariance, PTL

(* Every registry entry is owed by a sink that is installed now. *)
THEOREM Ownership == FunnelSpec => []RegistryOwned
  <1>1. FunnelInv => RegistryOwned
    BY DEF FunnelInv, Owned
  <1>2. QED
    BY <1>1, Invariance, PTL

(* A job is only held while a deadline is armed, and never beside a worker. *)
THEOREM Arming == FunnelSpec => []WaitIsArmed
  <1>1. FunnelInv => WaitIsArmed
    BY DEF FunnelInv, Owned
  <1>2. QED
    BY <1>1, Invariance, PTL

(* A settled job is never delivered to again. *)
THEOREM Final == FunnelSpec => SettledIsFinal
  <1>1. ASSUME FunnelInv, [FunnelNext]_funnelVars, NEW j \in Jobs, fate[j] \in Settled
        PROVE  fate'[j] = fate[j]
    <2>1. CASE FunnelNext
      BY <1>1, <2>1, FateMoves DEF FunnelInv, Moved, Settled
    <2>2. CASE UNCHANGED funnelVars
      BY <2>2 DEF funnelVars
    <2>3. QED
      BY <1>1, <2>1, <2>2
  <1>2. FunnelInv /\ [FunnelNext]_funnelVars
          => [\A j \in Jobs : fate[j] \in Settled => fate'[j] = fate[j]]_funnelVars
    BY <1>1
  <1>3. QED
    BY <1>2, Invariance, PTL DEF FunnelSpec, SettledIsFinal

(* Retiring the worker leaves the lane's jobs alone, and the other way round. *)
THEOREM Separation == FunnelSpec => RetiresOnlyItsOwn
  <1> DEFINE Apart == \A e \in pending :
                        /\ worker' # worker /\ e.sink = lane => e \in pending'
                        /\ lane' # lane /\ e.sink = worker => e \in pending'
  <1>1. ASSUME FunnelInv, FunnelNext PROVE Apart
    <2>1. RegistryOwned
      BY <1>1 DEF FunnelInv, Owned
    <2>2. \/ UNCHANGED <<worker, lane>>
          \/ pending' = pending \ JobsOf(worker) /\ lane' = lane
          \/ pending' = pending \ JobsOf(lane) /\ worker' = worker
      BY <1>1, NextCases DEF Offload, RendersNothing, OffloadToLane, Cancel, Reply, FinishHere,
         SendTaken, SendRefused, HandOver, SetWorker, AbandonWorker, SetLane,
         AbandonLane, ExpectSink, DeadlinePasses, FlushExpired, Abandon, sinks
    <2>3. QED
      BY <2>1, <2>2 DEF RegistryOwned, JobsOf
  <1>2. FunnelInv /\ [FunnelNext]_funnelVars => [Apart]_funnelVars
    BY <1>1
  <1>3. QED
    BY <1>2, Invariance, PTL DEF FunnelSpec, RetiresOnlyItsOwn

-----------------------------------------------------------------------------
(* The funnel implements the safety of its contract: each job is taken on once and *)
(* settled at most once.                                                           *)
THEOREM Refines == FunnelSpec => Contract!SafeSpec
  <1>1. FunnelInit => Contract!Init
    <2>1. ASSUME FunnelInit, NEW j \in Jobs PROVE Promise(j) = "open"
      BY <2>1 DEF FunnelInit, Promise, Outcomes
    <2>2. QED
      BY <2>1, Zenon DEF Contract!Init
  <1>2. ASSUME FunnelInv, [FunnelNext]_funnelVars
        PROVE  [Contract!Next]_([j \in Jobs |-> Promise(j)])
    <2>1. CASE FunnelNext
      <3>1. \A j \in Jobs : Moved(j)
        BY <1>2, <2>1, FateMoves DEF FunnelInv
      <3>2. fate \in [Jobs -> Fates] /\ fate' \in [Jobs -> Fates]
        BY <1>2, <2>1, TypeStep DEF FunnelInv, TypeOK
      <3>3. \A j \in Jobs : Promise(j) \in Contract!States /\ Promise(j)' \in Contract!States
        BY <3>2 DEF Promise, Fates, Outcomes, Contract!States
      <3>4. \A j \in Jobs : Promise(j)' # Promise(j)
                              => <<Promise(j), Promise(j)'>> \in Contract!Moves
        BY <3>1, <3>2 DEF Promise, Moved, Fates, Outcomes, Settled, Contract!Moves
      <3>5. QED
        BY <3>3, <3>4 DEF Contract!Next
    <2>2. CASE UNCHANGED funnelVars
      BY <2>2 DEF funnelVars, Promise
    <2>3. QED
      BY <1>2, <2>1, <2>2
  <1>3. QED
    BY <1>1, <1>2, Invariance, PTL DEF FunnelSpec, Contract!SafeSpec

-----------------------------------------------------------------------------
(* First in, first out: held jobs are lined up by their handles, whichever of the *)
(* wait and the hand-over list they are in.                                      *)

\* The held jobs, oldest first: the wait and the list are never both in use.
Line == IF todo # <<>> THEN todo ELSE waiting

InOrder == \A a, b \in 1..Len(Line) : a < b => handle[Line[a]] < handle[Line[b]]

LEMMA LineType ==
    ASSUME TypeOK
    PROVE  Line \in Seq(Jobs) /\ \A k : InQueue(k, Line) => k \in Jobs
  <1>1. Line \in Seq(Jobs)
    BY DEF TypeOK, Line
  <1>2. QED
    BY <1>1 DEF InQueue

LEMMA EmptyHasNone == Queued(<<>>) = {}
  BY EmptyQueue, Zenon DEF Queued

LEMMA OneQueue ==
    ASSUME NEW t, NEW w, t # <<>> => w = <<>>
    PROVE  Queued(t) \cup Queued(w) = Queued(IF t # <<>> THEN t ELSE w)
  BY EmptyHasNone

LEMMA HeldIsLine ==
    /\ Owned => Held = Queued(Line)
    /\ Owned' => Held' = Queued(Line')
  <1>1. ASSUME Owned PROVE Held = Queued(Line)
    <2>1. todo # <<>> => waiting = <<>>
      BY <1>1 DEF Owned, WaitIsArmed
    <2>2. QED
      BY <2>1, OneQueue, Zenon DEF Held, Line
  <1>2. ASSUME Owned' PROVE Held' = Queued(Line')
    <2>1. todo' # <<>> => waiting' = <<>>
      BY <1>2 DEF Owned, WaitIsArmed
    <2>2. Held' = Queued(todo') \cup Queued(waiting')
      BY DEF Held, Queued
    <2>3. QED
      BY <2>1, <2>2, OneQueue, Zenon DEF Line
  <1>3. QED
    BY <1>1, <1>2

\* What one step does to the line: the oldest leaves, a new handle joins, all leave.
NewlyJoins(j) == j \in Jobs /\ ~InQueue(j, Line) /\ handle'[j] = nextId

LineStep ==
    \/ Line' = Line
    \/ Line' = <<>>
    \/ Line # <<>> /\ Line' = Tail(Line)
    \/ \E j \in Jobs : NewlyJoins(j) /\ Line' = Append(Line, j)
    \/ \E j \in Jobs : NewlyJoins(j) /\ Line # <<>> /\ Line' = Append(Tail(Line), j)

KeepsHandles == \A k \in Jobs : InQueue(k, Line) => handle'[k] = handle[k]

LEMMA NewIsNotHeld ==
    ASSUME FunnelInv, NEW j \in Jobs, fate[j] = "new"
    PROVE  ~InQueue(j, Line)
  <1>1. ~InQueue(j, waiting) /\ ~InQueue(j, todo)
    BY DEF FunnelInv, Flat, OwedSomewhere
  <1>2. QED
    BY <1>1 DEF Line

LEMMA LineMoves ==
    ASSUME FunnelInv, FunnelNext
    PROVE  LineStep /\ KeepsHandles
  <1>0. /\ TypeOK /\ Owned
        /\ todo # <<>> => worker # NoSink /\ waiting = <<>>
        /\ worker # NoSink => waiting = <<>>
        /\ handle \in [Jobs -> Nat]
    BY DEF FunnelInv, Owned, WaitIsArmed, TypeOK
  <1>1. ASSUME NEW j \in Jobs, Offload(j) PROVE LineStep /\ KeepsHandles
    <2>1. /\ Dispatch(j) /\ todo' = todo
          /\ handle' = [handle EXCEPT ![j] = nextId]
          /\ fate[j] = "new"
      BY <1>1 DEF Offload
    <2>2. ~InQueue(j, Line)
      BY <2>1, NewIsNotHeld
    <2>3. KeepsHandles
      BY <1>0, <2>1, <2>2 DEF KeepsHandles
    <2>4. NewlyJoins(j)
      BY <1>0, <2>1, <2>2 DEF NewlyJoins
    <2>5. CASE worker # NoSink
      <3>1. waiting' = waiting
        BY <2>1, <2>5 DEF Dispatch
      <3>2. QED
        BY <2>1, <2>3, <3>1 DEF LineStep, Line
    <2>6. CASE worker = NoSink
      <3>1. Line = waiting /\ Line' = waiting'
        BY <1>0, <2>1, <2>6 DEF Line
      <3>2. WaitForSink(j)
        BY <2>1, <2>6 DEF Dispatch
      <3>3. \/ waiting' = waiting
            \/ waiting' = <<>>
            \/ waiting' = Append(waiting, j)
            \/ Full /\ waiting' = Append(Tail(waiting), j)
        BY <3>2 DEF WaitForSink
      <3>4. Full => waiting # <<>>
        BY <1>0, FunnelAssumption DEF Full, TypeOK
      <3>5. QED
        BY <2>3, <2>4, <3>1, <3>3, <3>4 DEF LineStep
    <2>7. QED
      BY <2>5, <2>6
  <1>2. ASSUME HandOver PROVE LineStep /\ KeepsHandles
    <2>1. /\ Dispatch(Head(todo)) /\ todo' = Tail(todo) /\ todo # <<>>
          /\ handle' = handle
      BY <1>2 DEF HandOver
    <2>2. waiting' = waiting /\ waiting = <<>>
      BY <1>0, <2>1 DEF Dispatch
    <2>3. Line = todo /\ Line' = Tail(todo)
      BY <2>1, <2>2 DEF Line
    <2>4. QED
      BY <2>1, <2>3 DEF LineStep, KeepsHandles
  <1>3. ASSUME NEW j \in Jobs, OffloadToLane(j) PROVE LineStep /\ KeepsHandles
    <2>1. /\ handle' = [handle EXCEPT ![j] = nextId]
          /\ fate[j] = "new" /\ UNCHANGED <<waiting, todo>>
      BY <1>3 DEF OffloadToLane, wait
    <2>2. ~InQueue(j, Line)
      BY <2>1, NewIsNotHeld
    <2>3. QED
      BY <1>0, <2>1, <2>2 DEF LineStep, KeepsHandles, Line
  <1>4. CASE SetWorker
    <2>1. todo = <<>> /\ todo' = waiting /\ waiting' = <<>> /\ handle' = handle
      BY <1>4 DEF SetWorker, Idle
    <2>2. Line' = Line
      BY <2>1 DEF Line
    <2>3. QED
      BY <2>1, <2>2 DEF LineStep, KeepsHandles
  <1>5. CASE FlushExpired
    <2>1. todo = <<>> /\ todo' = todo /\ waiting' = <<>> /\ handle' = handle
      BY <1>5 DEF FlushExpired, Idle
    <2>2. Line' = <<>>
      BY <2>1 DEF Line
    <2>3. QED
      BY <2>1, <2>2 DEF LineStep, KeepsHandles
  <1>6. ASSUME UNCHANGED <<waiting, todo, handle>> PROVE LineStep /\ KeepsHandles
    BY <1>6 DEF LineStep, KeepsHandles, Line
  <1>7. ASSUME NEW j \in Jobs, RendersNothing(j) \/ Cancel(j)
        PROVE  LineStep /\ KeepsHandles
    BY <1>6, <1>7 DEF RendersNothing, Cancel, wait
  <1>8. ASSUME NEW e \in pending, NEW o \in Outcomes, Reply(e, o)
        PROVE  LineStep /\ KeepsHandles
    BY <1>6, <1>8 DEF Reply, wait
  <1>9. ASSUME NEW j \in Jobs, NEW o \in HereOutcomes, FinishHere(j, o)
        PROVE  LineStep /\ KeepsHandles
    BY <1>6, <1>9 DEF FinishHere, wait
  <1>10. ASSUME NEW s \in sending, SendTaken(s) \/ SendRefused(s)
         PROVE  LineStep /\ KeepsHandles
    BY <1>6, <1>10 DEF SendTaken, SendRefused, wait
  <1>11. CASE AbandonWorker \/ SetLane \/ AbandonLane \/ ExpectSink \/ DeadlinePasses
    BY <1>6, <1>11 DEF AbandonWorker, SetLane, AbandonLane, ExpectSink, DeadlinePasses, wait
  <1>12. QED
    BY NextCases, <1>1, <1>2, <1>3, <1>4, <1>5, <1>7, <1>8, <1>9, <1>10, <1>11

-----------------------------------------------------------------------------
(* The line stays in order: its tail is, and a handle minted now is the greatest. *)
LEMMA OrderStep ==
    ASSUME FunnelInv, InOrder, FunnelNext
    PROVE  InOrder'
  <1> USE DEF InOrder
  <1>0. /\ Line \in Seq(Jobs) /\ handle \in [Jobs -> Nat] /\ nextId \in Nat
        /\ Len(Line) \in Nat
        /\ \A k \in Jobs : handle[k] < nextId
        /\ KeepsHandles
        /\ \A i \in 1..Len(Line) : Line[i] \in Jobs /\ handle'[Line[i]] = handle[Line[i]]
    <2>1. Line \in Seq(Jobs) /\ KeepsHandles
      BY LineType, LineMoves DEF FunnelInv
    <2>2. \A i \in 1..Len(Line) : Line[i] \in Jobs /\ InQueue(Line[i], Line)
      BY <2>1 DEF InQueue
    <2>3. QED
      BY <2>1, <2>2 DEF FunnelInv, TypeOK, KeepsHandles
  <1>1. CASE Line' = Line
    BY <1>0, <1>1
  <1>2. CASE Line' = <<>>
    BY <1>2
  <1>3. ASSUME Line # <<>>
        PROVE  /\ Len(Tail(Line)) = Len(Line) - 1 /\ Tail(Line) \in Seq(Jobs)
               /\ \A i \in 1..Len(Tail(Line)) : i + 1 \in 1..Len(Line) /\ Tail(Line)[i] = Line[i + 1]
    BY <1>0, <1>3, QueueTail
  <1>4. CASE Line # <<>> /\ Line' = Tail(Line)
    <2>1. SUFFICES ASSUME NEW a \in 1..Len(Tail(Line)), NEW b \in 1..Len(Tail(Line)), a < b
                   PROVE  handle'[Tail(Line)[a]] < handle'[Tail(Line)[b]]
      BY <1>4
    <2>2. a + 1 \in 1..Len(Line) /\ b + 1 \in 1..Len(Line) /\ a + 1 < b + 1
      BY <1>3, <1>4, <2>1
    <2>3. handle[Line[a + 1]] < handle[Line[b + 1]]
      BY <2>2
    <2>4. QED
      BY <1>0, <1>3, <1>4, <2>2, <2>3
  <1>5. ASSUME NEW q \in Seq(Jobs), NEW j \in Jobs, NewlyJoins(j), Line' = Append(q, j),
               \A i \in 1..Len(q) : q[i] \in Jobs /\ handle'[q[i]] < nextId,
               \A a, b \in 1..Len(q) : a < b => handle'[q[a]] < handle'[q[b]]
        PROVE  InOrder'
    <2>1. SUFFICES ASSUME NEW a \in 1..(Len(q) + 1), NEW b \in 1..(Len(q) + 1), a < b
                   PROVE  handle'[Append(q, j)[a]] < handle'[Append(q, j)[b]]
      BY <1>5, QueueAppend
    <2>2. a \in 1..Len(q) /\ Append(q, j)[a] = q[a]
      BY <2>1, QueueAppend
    <2>3. CASE b = Len(q) + 1
      BY <1>5, <2>2, <2>3, QueueAppend DEF NewlyJoins
    <2>4. CASE b \in 1..Len(q)
      BY <1>5, <2>1, <2>2, <2>4, QueueAppend
    <2>5. QED
      BY <2>3, <2>4
  <1>6. ASSUME NEW j \in Jobs, NewlyJoins(j), Line' = Append(Line, j) PROVE InOrder'
    <2>1. \A i \in 1..Len(Line) : Line[i] \in Jobs /\ handle'[Line[i]] < nextId
      BY <1>0
    <2>2. \A a, b \in 1..Len(Line) : a < b => handle'[Line[a]] < handle'[Line[b]]
      BY <1>0
    <2>3. QED
      BY <1>0, <1>5, <1>6, <2>1, <2>2
  <1>7. ASSUME NEW j \in Jobs, NewlyJoins(j), Line # <<>>, Line' = Append(Tail(Line), j)
        PROVE  InOrder'
    <2>1. \A i \in 1..Len(Tail(Line)) : Tail(Line)[i] \in Jobs /\ handle'[Tail(Line)[i]] < nextId
      BY <1>0, <1>3, <1>7
    <2>2. ASSUME NEW a \in 1..Len(Tail(Line)), NEW b \in 1..Len(Tail(Line)), a < b
          PROVE  handle'[Tail(Line)[a]] < handle'[Tail(Line)[b]]
      <3>1. a + 1 \in 1..Len(Line) /\ b + 1 \in 1..Len(Line) /\ a + 1 < b + 1
        BY <1>3, <1>7, <2>2
      <3>2. handle[Line[a + 1]] < handle[Line[b + 1]]
        BY <3>1
      <3>3. QED
        BY <1>0, <1>3, <1>7, <3>1, <3>2
    <2>3. QED
      BY <1>3, <1>5, <1>7, <2>1, <2>2
  <1>8. QED
    BY LineMoves, <1>1, <1>2, <1>4, <1>6, <1>7 DEF LineStep

(* Who leaves the line is its head, or everybody leaves. *)
LEMMA LeavesFirst ==
    ASSUME FunnelInv, InOrder, FunnelNext, NEW j \in Held, NEW k \in Held,
           handle[j] < handle[k], k \notin Held'
    PROVE  j \notin Held'
  <1>0. /\ Held = Queued(Line) /\ Held' = Queued(Line')
        /\ Line \in Seq(Jobs) /\ handle \in [Jobs -> Nat] /\ Len(Line) \in Nat
    <2>1. Owned /\ Owned' /\ TypeOK
      BY OwnedStep DEF FunnelInv
    <2>2. Held = Queued(Line)
      BY <2>1, HeldIsLine
    <2>3. Held' = Queued(Line')
      BY <2>1, HeldIsLine
    <2>4. QED
      BY <2>1, <2>2, <2>3, LineType DEF TypeOK
  <1>1. InQueue(j, Line) /\ InQueue(k, Line) /\ j \in Jobs /\ k \in Jobs /\ ~InQueue(k, Line')
    BY <1>0 DEF Queued
  <1>2. SUFFICES ASSUME Line' # <<>> PROVE FALSE
    BY <1>0, EmptyHasNone
  <1>3. ASSUME Line # <<>>, ~InQueue(k, Tail(Line)) PROVE FALSE
    <2>1. k = Head(Line) /\ Head(Line) = Line[1]
      BY <1>0, <1>1, <1>3, QueueTail
    <2>2. PICK i \in 1..Len(Line) : Line[i] = j
      BY <1>1 DEF InQueue
    <2>3. i # 1
      BY <1>0, <1>1, <2>1, <2>2
    <2>4. handle[Line[1]] < handle[Line[i]]
      BY <1>0, <2>2, <2>3 DEF InOrder
    <2>5. QED
      BY <1>0, <1>1, <2>1, <2>2, <2>4
  <1>4. CASE Line' = Line
    BY <1>1, <1>4
  <1>5. CASE Line # <<>> /\ Line' = Tail(Line)
    BY <1>1, <1>3, <1>5
  <1>6. ASSUME NEW n \in Jobs, Line' = Append(Line, n) PROVE FALSE
    BY <1>0, <1>1, <1>6, QueueAppend
  <1>7. ASSUME NEW n \in Jobs, Line # <<>>, Line' = Append(Tail(Line), n) PROVE FALSE
    <2>1. Tail(Line) \in Seq(Jobs)
      BY <1>0, <1>7, QueueTail
    <2>2. QED
      BY <1>1, <1>3, <1>7, <2>1, QueueAppend
  <1>8. QED
    BY LineMoves, <1>2, <1>4, <1>5, <1>6, <1>7 DEF LineStep

(* A held job never stays behind one that was handed over after it: eviction, hand- *)
(* over and expiry all take the oldest first.                                       *)
THEOREM FirstInFirstOut == FunnelSpec => OldestLeavesFirst
  <1> DEFINE Fair == \A j, k \in Held :
                       handle[j] < handle[k] /\ k \notin Held' => j \notin Held'
  <1>1. FunnelInit => InOrder
    BY DEF FunnelInit, InOrder, Line
  <1>2. FunnelInv /\ InOrder /\ [FunnelNext]_funnelVars => InOrder'
    <2>1. ASSUME InOrder, UNCHANGED funnelVars PROVE InOrder'
      BY <2>1 DEF InOrder, Line, funnelVars
    <2>2. QED
      BY <2>1, OrderStep
  <1>3. FunnelInv /\ InOrder /\ [FunnelNext]_funnelVars => [Fair]_funnelVars
    BY LeavesFirst
  <1>4. QED
    BY <1>1, <1>2, <1>3, Invariance, PTL DEF FunnelSpec, OldestLeavesFirst

=============================================================================
