------------------------- MODULE DiscardLedgerProofs -------------------------
(***************************************************************************)
(* Theorems about the two routes of a discard, for every set of payloads,  *)
(* every price and every way Drops discard one another.                    *)
(***************************************************************************)
EXTENDS DiscardLedger, FiniteSetTheorems, TLAPS

(* A price is a number of bytes. *)
LEMMA PriceType == \A p \in Payloads : Price(p) \in Nat
  <1>1. ASSUME NEW p \in Payloads
        PROVE  Price(p) \in Nat
    <2>1. Declared[p] \in Nat /\ Struct[p] \in Nat
      BY DiscardAssumption
    <2>2. \E x \in {Declared[p], Struct[p]} : \A y \in {Declared[p], Struct[p]} : x >= y
      BY <2>1
    <2>3. Max({Declared[p], Struct[p]}) \in {Declared[p], Struct[p]}
      BY <2>2 DEF Max
    <2>4. QED
      BY <2>1, <2>3 DEF Price
  <1>2. QED
    BY <1>1

(* A saturating subtraction stays a number of bytes. *)
LEMMA LessType == \A m \in Nat, n \in Nat : Less(m, n) \in Nat
  BY DEF Less

(* What the free thread does, it does because it lives; what the frame     *)
(* thread does outside its frame, and what it leaves behind when it rests. *)
LaneInv ==
    /\ falling["free"] # None => build.lane
    /\ hand["free"] # None => build.lane

FrameInv ==
    /\ falling["frame"] # None => phase = "drains"
    /\ hand["frame"] # None => phase \notin {"rests", "gate"}
    /\ phase = "warned" => build.target = "mobile"

RestInv == phase \in {"rests", "warned"} /\ deferred # <<>> /\ shown => asked

AwakeInv == TypeOK /\ LaneInv /\ FrameInv /\ RestInv

LEMMA AwakeInit == ASSUME DiscardInit PROVE AwakeInv
  <1>1. TypeOK
    <2>1. <<>> \in Seq(Payloads) /\ 0 \in Nat
      OBVIOUS
    <2>2. custody \in [Payloads -> {"kept", "handing", "lane", "deferred", "falling", "freed"}]
      BY DEF DiscardInit
    <2>3. /\ hand \in [Threads -> Payloads \cup {None}]
          /\ falling \in [Threads -> Payloads \cup {None}]
      BY DEF DiscardInit
    <2>4. phase \in Phases /\ asked \in BOOLEAN /\ shown \in BOOLEAN
      BY DEF DiscardInit, Phases
    <2>5. QED
      BY <2>1, <2>2, <2>3, <2>4 DEF DiscardInit, TypeOK
  <1>2. LaneInv /\ FrameInv /\ RestInv
    BY DEF DiscardInit, LaneInv, FrameInv, RestInv, Threads
  <1>3. QED
    BY <1>1, <1>2 DEF AwakeInv

(* A payload queued on the frame thread. *)
LEMMA FileType ==
    ASSUME TypeOK, NEW p \in Payloads, FileDeferred(p)
    PROVE  /\ custody' \in [Payloads -> {"kept", "handing", "lane", "deferred", "falling", "freed"}]
           /\ deferred' \in Seq(Payloads)
           /\ queued' \in Nat
  BY PriceType DEF TypeOK, FileDeferred

(* discard, from either thread. *)
LEMMA DiscardStep ==
    ASSUME AwakeInv, [target |-> "mobile", lane |-> FALSE] \notin Builds,
           NEW t \in Threads, Discard(t) \/ Hands(t)
    PROVE  AwakeInv'
  <1> USE DEF AwakeInv, laneVars, queueVars, frameVars
  <1>1. CASE \E p \in Payloads : DiscardToQueue(t, p)
    <2>1. PICK p \in Payloads : DiscardToQueue(t, p)
      BY <1>1
    <2>2. TypeOK'
      BY <2>1, FileType DEF DiscardToQueue, TypeOK
    <2>3. ~build.lane
      <3>1. build \in [target : {"wasm", "desktop", "mobile"}, lane : BOOLEAN]
        BY DiscardAssumption DEF TypeOK
      <3>2. build.lane => build = [target |-> "wasm", lane |-> TRUE]
        BY <2>1, <3>1 DEF DiscardToQueue
      <3>3. QED
        BY <3>2, DiscardAssumption DEF TypeOK
    <2>4. t = "frame" /\ phase \notin {"rests", "warned"}
      BY <2>1, <2>3 DEF DiscardToQueue, May, LaneInv, FrameInv, Threads
    <2>5. LaneInv' /\ FrameInv' /\ RestInv'
      BY <2>1, <2>4 DEF DiscardToQueue, LaneInv, FrameInv, RestInv
    <2>6. QED
      BY <2>2, <2>5
  <1>2. CASE \E p \in Payloads : PriceOntoLane(t, p)
    <2>1. PICK p \in Payloads : PriceOntoLane(t, p)
      BY <1>2
    <2>2. TypeOK'
      BY <2>1, PriceType DEF PriceOntoLane, TypeOK
    <2>3. LaneInv'
      BY <2>1 DEF PriceOntoLane, May, LaneInv, TypeOK, Threads
    <2>4. FrameInv' /\ RestInv'
      BY <2>1 DEF PriceOntoLane, May, FrameInv, RestInv, TypeOK, Threads
    <2>5. QED
      BY <2>2, <2>3, <2>4
  <1>3. CASE SendToLane(t)
    <2>1. TypeOK'
      BY <1>3 DEF SendToLane, TypeOK
    <2>2. LaneInv' /\ FrameInv' /\ RestInv'
      BY <1>3 DEF SendToLane, LaneInv, FrameInv, RestInv, TypeOK, Threads
    <2>3. QED
      BY <2>1, <2>2
  <1>4. CASE LaneRefuses(t)
    <2>1. hand[t] \in Payloads
      BY <1>4 DEF LaneRefuses, TypeOK
    <2>2. TypeOK'
      BY <1>4, <2>1, FileType, PriceType, LessType DEF LaneRefuses, TypeOK
    <2>3. t = "frame" /\ phase # "rests"
      BY <1>4 DEF LaneRefuses, LaneInv, FrameInv, Threads
    <2>4. phase # "warned"
      <3>1. build \in [target : {"wasm", "desktop", "mobile"}, lane : BOOLEAN]
        BY DiscardAssumption DEF TypeOK
      <3>2. build.target = "mobile" => build = [target |-> "mobile", lane |-> FALSE]
        BY <1>4, <3>1 DEF LaneRefuses
      <3>3. QED
        BY <3>2 DEF TypeOK, FrameInv
    <2>5. LaneInv' /\ FrameInv' /\ RestInv'
      BY <1>4, <2>3, <2>4 DEF LaneRefuses, LaneInv, FrameInv, RestInv, TypeOK, Threads
    <2>6. QED
      BY <2>2, <2>5
  <1>5. QED
    BY <1>1, <1>2, <1>3, <1>4 DEF Discard, Hands

(* The free thread: it touches neither the frame nor its queue. *)
LEMMA LaneStep == ASSUME AwakeInv, LaneSteps PROVE AwakeInv'
  <1> USE DEF AwakeInv, laneVars, queueVars, frameVars
  <1>1. CASE LaneTakes
    <2>1. Head(laneQueue) \in Payloads /\ Tail(laneQueue) \in Seq(Payloads)
      BY <1>1 DEF LaneTakes, TypeOK
    <2>2. TypeOK'
      BY <1>1, <2>1 DEF LaneTakes, TypeOK
    <2>3. LaneInv' /\ FrameInv' /\ RestInv'
      BY <1>1 DEF LaneTakes, LaneInv, FrameInv, RestInv, TypeOK, Threads
    <2>4. QED
      BY <2>2, <2>3
  <1>2. CASE LaneFrees
    <2>1. falling["free"] \in Payloads
      BY <1>2 DEF LaneFrees, Dropped, TypeOK, Threads
    <2>2. TypeOK'
      BY <1>2, <2>1, PriceType, LessType DEF LaneFrees, TypeOK
    <2>3. LaneInv' /\ FrameInv' /\ RestInv'
      BY <1>2 DEF LaneFrees, LaneInv, FrameInv, RestInv, TypeOK, Threads
    <2>4. QED
      BY <2>2, <2>3
  <1>3. CASE LanePanics
    <2>1. falling["free"] \in Payloads
      BY <1>3 DEF LanePanics, TypeOK, Threads
    <2>2. onLane' \in Nat
      BY <1>3, <2>1, PriceType, LessType DEF LanePanics, DepricedAfterPanic, TypeOK
    <2>3. custody' \in [Payloads -> {"kept", "handing", "lane", "deferred", "falling", "freed"}]
      BY <1>3 DEF LanePanics, TypeOK
    <2>4. TypeOK'
      BY <1>3, <2>2, <2>3 DEF LanePanics, TypeOK
    <2>5. LaneInv' /\ FrameInv' /\ RestInv'
      BY <1>3 DEF LanePanics, LaneInv, FrameInv, RestInv, TypeOK, Threads
    <2>6. QED
      BY <2>4, <2>5
  <1>4. QED
    BY <1>1, <1>2, <1>3 DEF LaneSteps

(* The drain. *)
LEMMA DrainStep == ASSUME AwakeInv, DrainSteps PROVE AwakeInv'
  <1> USE DEF AwakeInv, laneVars, queueVars, frameVars, FrameIdle
  <1>1. CASE DrainStarts
    BY <1>1 DEF DrainStarts, TypeOK, LaneInv, FrameInv, RestInv, Phases
  <1>2. CASE DrainPops
    <2>1. Head(deferred) \in Payloads /\ Tail(deferred) \in Seq(Payloads)
      BY <1>2 DEF DrainPops, TypeOK
    <2>2. TypeOK'
      BY <1>2, <2>1 DEF DrainPops, TypeOK
    <2>3. LaneInv' /\ FrameInv' /\ RestInv'
      BY <1>2 DEF DrainPops, LaneInv, FrameInv, RestInv, TypeOK, Threads
    <2>4. QED
      BY <2>2, <2>3
  <1>3. CASE DrainFrees
    <2>1. falling["frame"] \in Payloads
      BY <1>3 DEF DrainFrees, Dropped, TypeOK, Threads
    <2>2. TypeOK'
      BY <1>3, <2>1, PriceType, LessType DEF DrainFrees, TypeOK, Phases
    <2>3. LaneInv' /\ FrameInv' /\ RestInv'
      BY <1>3 DEF DrainFrees, Dropped, LaneInv, FrameInv, RestInv, TypeOK, Threads
    <2>4. QED
      BY <2>2, <2>3
  <1>4. CASE DrainEnds
    BY <1>4 DEF DrainEnds, TypeOK, LaneInv, FrameInv, RestInv, Phases
  <1>5. QED
    BY <1>1, <1>2, <1>3, <1>4 DEF DrainSteps

(* The rest of the frame, and what the platform does to it. *)
LEMMA FrameStep == ASSUME AwakeInv, FrameSteps \/ Platform PROVE AwakeInv'
  <1> USE DEF AwakeInv, laneVars, queueVars, TypeOK, LaneInv, FrameInv, RestInv, Phases
  <1>1. CASE Redraw
    BY <1>1 DEF Redraw
  <1>2. CASE DrainSteps
    BY <1>2, DrainStep
  <1>3. CASE Gate
    BY <1>3 DEF Gate
  <1>4. CASE FrameEnds
    BY <1>4 DEF FrameEnds, FrameIdle, HasDeferredDrops
  <1>5. CASE WarningEnds
    BY <1>5 DEF WarningEnds, FrameIdle
  <1>6. CASE AskForFrame
    BY <1>6 DEF AskForFrame
  <1>7. CASE HideOrShow
    BY <1>7 DEF HideOrShow
  <1>8. CASE MemoryWarning
    BY <1>8 DEF MemoryWarning
  <1>9. QED
    BY <1>1, <1>2, <1>3, <1>4, <1>5, <1>6, <1>7, <1>8 DEF FrameSteps, Platform

(* Where the free lane lives, or no warning comes between frames, the loop *)
(* never rests on a queue it will not be woken for: has_deferred_drops     *)
(* asked at the frame's end covers what its tail and its Drops filed.      *)
THEOREM LoopStaysAwake ==
    ASSUME [target |-> "mobile", lane |-> FALSE] \notin Builds
    PROVE  DiscardSpec => []QueueKeepsTheLoopAwake
  <1>1. AwakeInv /\ [Next]_vars => AwakeInv'
    <2> SUFFICES ASSUME AwakeInv, [Next]_vars
                 PROVE  AwakeInv'
      OBVIOUS
    <2>1. CASE \E t \in Threads : Discard(t) \/ Hands(t)
      BY <2>1, DiscardStep
    <2>2. CASE FrameSteps \/ Platform
      BY <2>2, FrameStep
    <2>3. CASE LaneSteps
      BY <2>3, LaneStep
    <2>4. CASE UNCHANGED vars
      BY <2>4 DEF vars, laneVars, queueVars, frameVars, AwakeInv, TypeOK, LaneInv, FrameInv, RestInv
    <2>5. QED
      BY <2>1, <2>2, <2>3, <2>4 DEF Next
  <1>2. AwakeInv => QueueKeepsTheLoopAwake
    BY DEF AwakeInv, RestInv, QueueKeepsTheLoopAwake
  <1>3. DiscardInit => AwakeInv
    BY AwakeInit
  <1>4. QED
    BY <1>1, <1>2, <1>3, PTL DEF DiscardSpec

-----------------------------------------------------------------------------
(* Sets of payloads and their bytes. *)

LEMMA PriceCharges == \A p \in Payloads : Price(p) \in Nat \ {0}
  <1>1. ASSUME NEW p \in Payloads PROVE Price(p) \in Nat \ {0}
    <2>1. Declared[p] \in Nat /\ Struct[p] \in Nat \ {0}
      BY DiscardAssumption
    <2>2. \E x \in {Declared[p], Struct[p]} : \A y \in {Declared[p], Struct[p]} : x >= y
      BY <2>1
    <2>3. /\ Max({Declared[p], Struct[p]}) \in {Declared[p], Struct[p]}
          /\ \A y \in {Declared[p], Struct[p]} : Max({Declared[p], Struct[p]}) >= y
      BY <2>2 DEF Max
    <2>4. QED
      BY <2>1, <2>3 DEF Price
  <1>2. QED
    BY <1>1

LEMMA OneCharge ==
    ASSUME NEW p \in Payloads
    PROVE  /\ IsFiniteSet({p} \X (1..Price(p))) /\ Cardinality({p} \X (1..Price(p))) = Price(p)
           /\ <<p, 1>> \in {p} \X (1..Price(p))
  <1>1. Price(p) \in Nat \ {0} /\ Price(p) \in Int /\ 1 \in Int
    BY PriceCharges
  <1>2. IsFiniteSet(1..Price(p)) /\ Cardinality(1..Price(p)) = Price(p)
    <2>1. /\ IsFiniteSet(1..Price(p))
          /\ Cardinality(1..Price(p)) = IF 1 > Price(p) THEN 0 ELSE Price(p) - 1 + 1
      BY <1>1, FS_Interval
    <2>2. QED
      BY <1>1, <2>1
  <1>3. IsFiniteSet({p}) /\ Cardinality({p}) = 1
    BY FS_Singleton
  <1>4. /\ IsFiniteSet({p} \X (1..Price(p)))
        /\ Cardinality({p} \X (1..Price(p))) = Cardinality({p}) * Cardinality(1..Price(p))
    BY <1>2, <1>3, FS_Product
  <1>5. QED
    BY <1>1, <1>2, <1>3, <1>4

LEMMA BytesFinite ==
    ASSUME NEW S \in SUBSET Payloads, IsFiniteSet(S)
    PROVE  IsFiniteSet(BytesOf(S)) /\ Bytes(S) \in Nat /\ (Bytes(S) = 0 <=> S = {})
  <1> DEFINE charge == [p \in S |-> {p} \X (1..Price(p))]
             T == {charge[p] : p \in S}
  <1>1. charge \in Surjection(S, T)
    BY DEF Surjection
  <1>2. \A p \in S : charge[p] = {p} \X (1..Price(p)) /\ IsFiniteSet(charge[p]) /\ <<p, 1>> \in charge[p]
    BY OneCharge
  <1>3. BytesOf(S) = UNION T
    BY DEF BytesOf
  <1> HIDE DEF charge
  <1>4. IsFiniteSet(T) /\ \A B \in T : IsFiniteSet(B)
    BY <1>1, <1>2, FS_Surjection
  <1>5. IsFiniteSet(BytesOf(S))
    <2> HIDE DEF T
    <2>1. QED
      BY <1>3, <1>4, FS_UNION
  <1>6. BytesOf(S) = {} <=> S = {}
    <2>1. ASSUME NEW p \in S PROVE <<p, 1>> \in BytesOf(S)
      <3>1. charge[p] \in T /\ <<p, 1>> \in charge[p]
        BY <1>2
      <3>2. QED
        BY <1>3, <3>1
    <2>2. S = {} => BytesOf(S) = {}
      BY DEF BytesOf
    <2>3. QED
      BY <2>1, <2>2
  <1>7. Bytes(S) \in Nat /\ (Bytes(S) = 0 <=> BytesOf(S) = {})
    BY <1>5, FS_CardinalityType, FS_EmptySet DEF Bytes
  <1>8. QED
    BY <1>5, <1>6, <1>7

LEMMA BytesAdd ==
    ASSUME NEW S \in SUBSET Payloads, IsFiniteSet(S), NEW p \in Payloads, p \notin S
    PROVE  Bytes(S \cup {p}) = Bytes(S) + Price(p)
  <1> DEFINE C == {p} \X (1..Price(p))
  <1>1. BytesOf(S \cup {p}) = BytesOf(S) \cup C
    BY DEF BytesOf
  <1>2. BytesOf(S) \cap C = {}
    BY DEF BytesOf
  <1>3. IsFiniteSet(BytesOf(S)) /\ IsFiniteSet(C) /\ Cardinality(C) = Price(p)
    BY BytesFinite, OneCharge
  <1> HIDE DEF C
  <1>4. Cardinality(BytesOf(S) \cup C) = Cardinality(BytesOf(S)) + Cardinality(C) - Cardinality(BytesOf(S) \cap C)
    BY <1>3, FS_Union
  <1>5. Cardinality(BytesOf(S) \cap C) = 0
    BY <1>2, FS_EmptySet
  <1>6. Cardinality(BytesOf(S)) \in Nat /\ Price(p) \in Nat
    BY BytesFinite, PriceType DEF Bytes
  <1>7. Bytes(S \cup {p}) = Cardinality(BytesOf(S) \cup C) /\ Bytes(S) = Cardinality(BytesOf(S))
    BY <1>1 DEF Bytes
  <1>8. Cardinality(BytesOf(S) \cup C) = Cardinality(BytesOf(S)) + Price(p)
    BY <1>3, <1>4, <1>5, <1>6
  <1>9. QED
    BY <1>7, <1>8

LEMMA BytesLess ==
    ASSUME NEW S \in SUBSET Payloads, IsFiniteSet(S), NEW p \in S
    PROVE  Less(Bytes(S), Price(p)) = Bytes(S \ {p})
  <1> DEFINE R == S \ {p}
  <1>1. R \in SUBSET Payloads /\ IsFiniteSet(R) /\ p \notin R /\ R \cup {p} = S /\ p \in Payloads
    BY FS_Difference
  <1> HIDE DEF R
  <1>2. Bytes(S) = Bytes(R) + Price(p) /\ Bytes(R) \in Nat /\ Price(p) \in Nat
    BY <1>1, BytesAdd, BytesFinite, PriceType
  <1>3. Less(Bytes(S), Price(p)) = Bytes(R)
    BY <1>2 DEF Less
  <1>4. QED
    BY <1>3 DEF R

-----------------------------------------------------------------------------
(* Queues without a payload twice. *)

NoTwice(q) == \A i, j \in 1..Len(q) : q[i] = q[j] => i = j

LEMMA Emptied == ToSet(<<>>) = {} /\ NoTwice(<<>>)
  BY DEF ToSet, NoTwice

LEMMA QueueFinite ==
    ASSUME NEW q \in Seq(Payloads)
    PROVE  /\ ToSet(q) \in SUBSET Payloads /\ IsFiniteSet(ToSet(q))
           /\ NoTwice(q) => Cardinality(ToSet(q)) = Len(q)
  <1> DEFINE D == 1..Len(q)
  <1>1. DOMAIN q = D /\ Len(q) \in Nat /\ q \in [D -> Payloads]
    OBVIOUS
  <1>2. ToSet(q) = {q[i] : i \in D}
    BY <1>1 DEF ToSet
  <1>3. ToSet(q) \in SUBSET Payloads
    BY <1>1, <1>2
  <1>4. IsFiniteSet(D) /\ Cardinality(D) = Len(q)
    <2>1. 1 \in Int /\ Len(q) \in Int
      BY <1>1
    <2>2. IsFiniteSet(D) /\ Cardinality(D) = IF 1 > Len(q) THEN 0 ELSE Len(q) - 1 + 1
      BY <2>1, FS_Interval
    <2>3. QED
      BY <1>1, <2>2
  <1>5. q \in Surjection(D, ToSet(q))
    BY <1>1, <1>2 DEF Surjection
  <1>6. NoTwice(q) => q \in Injection(D, ToSet(q))
    BY <1>1, <1>2 DEF NoTwice, Injection, IsInjective
  <1> HIDE DEF D
  <1>7. QED
    BY <1>3, <1>4, <1>5, <1>6, FS_Surjection

LEMMA QueueAppended ==
    ASSUME NEW q \in Seq(Payloads), NEW p \in Payloads
    PROVE  /\ ToSet(Append(q, p)) = ToSet(q) \cup {p}
           /\ NoTwice(q) /\ p \notin ToSet(q) => NoTwice(Append(q, p))
  <1> DEFINE a == Append(q, p)
             n == Len(q)
  <1>1. /\ n \in Nat /\ Len(a) = n + 1 /\ DOMAIN a = 1..(n + 1) /\ DOMAIN q = 1..n
        /\ \A i \in 1..n : a[i] = q[i]
        /\ a[n + 1] = p
    OBVIOUS
  <1> HIDE DEF a, n
  <1>2. ToSet(a) = {a[i] : i \in 1..(n + 1)} /\ ToSet(q) = {q[i] : i \in 1..n}
    BY <1>1 DEF ToSet
  <1>3. 1..(n + 1) = 1..n \cup {n + 1}
    BY <1>1
  <1>4. ToSet(a) = ToSet(q) \cup {p}
    BY <1>1, <1>2, <1>3
  <1>5. ASSUME NoTwice(q), p \notin ToSet(q) PROVE NoTwice(a)
    <2>1. \A i \in 1..n : a[i] # p
      BY <1>1, <1>2, <1>5
    <2>2. \A i, j \in 1..n : a[i] = a[j] => i = j
      BY <1>1, <1>5 DEF NoTwice, n
    <2>3. QED
      BY <1>1, <1>3, <2>1, <2>2 DEF NoTwice
  <1>6. QED
    BY <1>4, <1>5 DEF a

LEMMA QueueTaken ==
    ASSUME NEW q \in Seq(Payloads), q # <<>>, NoTwice(q)
    PROVE  /\ Head(q) \in ToSet(q) /\ Head(q) \in Payloads /\ Tail(q) \in Seq(Payloads)
           /\ ToSet(Tail(q)) = ToSet(q) \ {Head(q)} /\ NoTwice(Tail(q))
  <1> DEFINE t == Tail(q)
             n == Len(q)
  <1>1. /\ n \in Nat /\ n >= 1 /\ Len(t) = n - 1 /\ DOMAIN t = 1..(n - 1) /\ DOMAIN q = 1..n
        /\ \A i \in 1..(n - 1) : t[i] = q[i + 1]
        /\ Head(q) = q[1] /\ q[1] \in Payloads /\ t \in Seq(Payloads)
    OBVIOUS
  <1>2. \A i, j \in 1..n : q[i] = q[j] => i = j
    BY DEF NoTwice
  <1> HIDE DEF t, n
  <1>3. ToSet(t) = {t[i] : i \in 1..(n - 1)} /\ ToSet(q) = {q[i] : i \in 1..n}
    BY <1>1 DEF ToSet
  <1>4. NoTwice(t)
    BY <1>1, <1>2 DEF NoTwice
  <1>5. q[1] \in ToSet(q)
    BY <1>1, <1>3
  <1>6. ASSUME NEW x PROVE x \in ToSet(t) <=> x \in ToSet(q) /\ x # q[1]
    <2>1. ASSUME x \in ToSet(t) PROVE x \in ToSet(q) /\ x # q[1]
      <3>1. PICK i \in 1..(n - 1) : x = q[i + 1]
        BY <1>1, <1>3, <2>1
      <3>2. i + 1 \in 1..n /\ i + 1 # 1 /\ 1 \in 1..n
        BY <1>1
      <3>3. QED
        BY <1>2, <1>3, <3>1, <3>2
    <2>2. ASSUME x \in ToSet(q), x # q[1] PROVE x \in ToSet(t)
      <3>1. PICK i \in 1..n : x = q[i]
        BY <1>3, <2>2
      <3>2. i - 1 \in 1..(n - 1) /\ (i - 1) + 1 = i
        BY <1>1, <2>2, <3>1
      <3>3. t[i - 1] = q[i]
        BY <1>1, <3>2
      <3>4. QED
        BY <1>3, <3>1, <3>2, <3>3
    <2>3. QED
      BY <2>1, <2>2
  <1>7. QED
    BY <1>1, <1>4, <1>5, <1>6 DEF t

-----------------------------------------------------------------------------
(* The ledger.  Custody names the one place of each payload that is held. *)

One(f) == f["frame"] = f["free"] => f["frame"] = None
At(place) == {p \in Payloads : custody[p] = place}
In(f) == {f[t] : t \in Threads} \ {None}

Places ==
    /\ At("handing") = In(hand) /\ One(hand)
    /\ At("falling") = In(falling) /\ One(falling)
    /\ At("lane") = ToSet(laneQueue) /\ NoTwice(laneQueue)
    /\ At("deferred") = ToSet(deferred) /\ NoTwice(deferred)
Totals == onLane = Bytes(LaneHolds) /\ queued = Bytes(QueueHolds)
LedgerInv == TypeOK /\ Places /\ Totals

LEMMA HoldsFinite ==
    ASSUME TypeOK
    PROVE  /\ LaneHolds \in SUBSET Payloads /\ IsFiniteSet(LaneHolds)
           /\ QueueHolds \in SUBSET Payloads /\ IsFiniteSet(QueueHolds)
  <1>1. laneQueue \in Seq(Payloads) /\ deferred \in Seq(Payloads)
    BY DEF TypeOK
  <1>2. /\ ToSet(laneQueue) \in SUBSET Payloads /\ IsFiniteSet(ToSet(laneQueue))
        /\ ToSet(deferred) \in SUBSET Payloads /\ IsFiniteSet(ToSet(deferred))
    BY <1>1, QueueFinite
  <1>3. \A t \in Threads : hand[t] \in Payloads \cup {None} /\ falling[t] \in Payloads \cup {None}
    BY DEF TypeOK
  <1> DEFINE A == {falling["free"], hand["frame"], hand["free"]} \ {None}
             B == {falling["frame"]} \ {None}
  <1>4. A \in SUBSET Payloads /\ B \in SUBSET Payloads
    BY <1>3 DEF Threads
  <1>5. IsFiniteSet(A) /\ IsFiniteSet(B)
    <2>1. IsFiniteSet({}) 
      BY FS_EmptySet
    <2>2. IsFiniteSet(({} \cup {falling["frame"]}))
      BY <2>1, FS_AddElement
    <2>3. IsFiniteSet(({} \cup {falling["free"]}))
      BY <2>1, FS_AddElement
    <2>4. IsFiniteSet(({} \cup {falling["free"]}) \cup {hand["frame"]})
      BY <2>3, FS_AddElement
    <2>5. IsFiniteSet((({} \cup {falling["free"]}) \cup {hand["frame"]}) \cup {hand["free"]})
      BY <2>4, FS_AddElement
    <2>6. /\ A = ((({} \cup {falling["free"]}) \cup {hand["frame"]}) \cup {hand["free"]}) \ {None}
          /\ B = ({} \cup {falling["frame"]}) \ {None}
      OBVIOUS
    <2> HIDE DEF A, B
    <2>7. QED
      BY <2>2, <2>5, <2>6, FS_Difference
  <1> HIDE DEF A, B
  <1>6. LaneHolds = ToSet(laneQueue) \cup A /\ QueueHolds = ToSet(deferred) \cup B
    BY DEF LaneHolds, QueueHolds, A, B
  <1>7. QED
    BY <1>2, <1>4, <1>5, <1>6, FS_Union

(* What a step does to a route: nothing, a payload more, or one less. *)
Gains(S, T, p) == p \notin S /\ T = S \cup {p}
Loses(S, T, p) == p \in S /\ T = S \ {p}

LEMMA RouteMoves ==
    ASSUME NEW S \in SUBSET Payloads, IsFiniteSet(S), NEW n, n = Bytes(S),
           NEW p \in Payloads, NEW T, NEW m,
           \/ T = S /\ m = n
           \/ Gains(S, T, p) /\ m = n + Price(p)
           \/ Loses(S, T, p) /\ m = Less(n, Price(p))
    PROVE  m = Bytes(T) /\ m \in Nat
  <1>1. n \in Nat /\ Price(p) \in Nat
    BY BytesFinite, PriceType
  <1>2. CASE T = S /\ m = n
    BY <1>1, <1>2
  <1>3. CASE Gains(S, T, p) /\ m = n + Price(p)
    <2>1. Bytes(T) = Bytes(S) + Price(p)
      BY <1>3, BytesAdd DEF Gains
    <2>2. QED
      BY <1>1, <1>3, <2>1
  <1>4. CASE Loses(S, T, p) /\ m = Less(n, Price(p))
    <2>1. Less(Bytes(S), Price(p)) = Bytes(T)
      BY <1>4, BytesLess DEF Loses
    <2>2. QED
      BY <1>1, <1>4, <2>1, LessType
  <1>5. QED
    BY <1>2, <1>3, <1>4

LEMMA InThreads ==
    ASSUME NEW f \in [Threads -> Payloads \cup {None}]
    PROVE  In(f) = {f["frame"], f["free"]} \ {None}
  BY DEF In, Threads

(* A thread lets a payload go. *)
LEMMA ThreadLets ==
    ASSUME NEW f \in [Threads -> Payloads \cup {None}], One(f), NEW t \in Threads, f[t] # None
    PROVE  LET g == [f EXCEPT ![t] = None]
           IN /\ g \in [Threads -> Payloads \cup {None}] /\ One(g) /\ In(g) = In(f) \ {f[t]}
              /\ f[t] \in Payloads /\ f[t] \in In(f)
              /\ g[t] = None /\ \A u \in Threads \ {t} : g[u] = f[u]
  BY DEF One, In, Threads

(* A payload is in one place, so it is held by one route at most. *)
LEMMA WhereHeld ==
    ASSUME TypeOK, Places, NEW p \in Payloads
    PROVE  /\ p \in ToSet(laneQueue) <=> custody[p] = "lane"
           /\ p \in ToSet(deferred) <=> custody[p] = "deferred"
           /\ p \in In(hand) <=> custody[p] = "handing"
           /\ p \in In(falling) <=> custody[p] = "falling"
           /\ p \in LaneHolds <=> \/ custody[p] \in {"lane", "handing"}
                                  \/ custody[p] = "falling" /\ falling["free"] = p
           /\ p \in QueueHolds <=> \/ custody[p] = "deferred"
                                   \/ custody[p] = "falling" /\ falling["frame"] = p
  <1>1. /\ p \in ToSet(laneQueue) <=> custody[p] = "lane"
        /\ p \in ToSet(deferred) <=> custody[p] = "deferred"
        /\ p \in In(hand) <=> custody[p] = "handing"
        /\ p \in In(falling) <=> custody[p] = "falling"
    BY DEF Places, At
  <1>2. p # None
    BY DiscardAssumption
  <1>3. /\ p \in In(hand) <=> p \in {hand["frame"], hand["free"]}
        /\ p \in In(falling) <=> p \in {falling["frame"], falling["free"]}
    BY <1>2 DEF In, Threads
  <1>4. /\ p \in LaneHolds <=> p \in ToSet(laneQueue) \/ p \in {falling["free"], hand["frame"], hand["free"]}
        /\ p \in QueueHolds <=> p \in ToSet(deferred) \/ p = falling["frame"]
    BY <1>2 DEF LaneHolds, QueueHolds
  <1>5. QED
    BY <1>1, <1>3, <1>4

(* The routes of the next state, payload by payload. *)
LEMMA SameSet ==
    ASSUME NEW S \in SUBSET Payloads, NEW T \in SUBSET Payloads,
           \A p \in Payloads : p \in S <=> p \in T
    PROVE  S = T
  OBVIOUS

LEMMA TypesHoldNext ==
    ASSUME TypeOK'
    PROVE  LaneHolds' \in SUBSET Payloads /\ QueueHolds' \in SUBSET Payloads
  <1>1. laneQueue' \in Seq(Payloads) /\ deferred' \in Seq(Payloads)
    BY DEF TypeOK
  <1>2. ToSet(laneQueue') \in SUBSET Payloads /\ ToSet(deferred') \in SUBSET Payloads
    BY <1>1, QueueFinite
  <1>3. /\ hand'["frame"] \in Payloads \cup {None} /\ hand'["free"] \in Payloads \cup {None}
        /\ falling'["frame"] \in Payloads \cup {None} /\ falling'["free"] \in Payloads \cup {None}
    BY DEF TypeOK, Threads
  <1>4. QED
    BY <1>2, <1>3 DEF LaneHolds, QueueHolds

LEMMA WhereHeldNext ==
    ASSUME TypeOK', Places', NEW p \in Payloads
    PROVE  /\ p \in LaneHolds' <=> \/ custody'[p] \in {"lane", "handing"}
                                   \/ custody'[p] = "falling" /\ falling'["free"] = p
           /\ p \in QueueHolds' <=> \/ custody'[p] = "deferred"
                                    \/ custody'[p] = "falling" /\ falling'["frame"] = p
  <1>1. /\ p \in ToSet(laneQueue') <=> custody'[p] = "lane"
        /\ p \in ToSet(deferred') <=> custody'[p] = "deferred"
        /\ p \in In(hand') <=> custody'[p] = "handing"
        /\ p \in In(falling') <=> custody'[p] = "falling"
    BY DEF Places, At
  <1>2. p # None
    BY DiscardAssumption
  <1>3. /\ p \in In(hand') <=> p \in {hand'["frame"], hand'["free"]}
        /\ p \in In(falling') <=> p \in {falling'["frame"], falling'["free"]}
    BY <1>2 DEF In, Threads
  <1>4. /\ p \in LaneHolds' <=> p \in ToSet(laneQueue') \/ p \in {falling'["free"], hand'["frame"], hand'["free"]}
        /\ p \in QueueHolds' <=> p \in ToSet(deferred') \/ p = falling'["frame"]
    BY <1>2 DEF LaneHolds, QueueHolds
  <1>5. QED
    BY <1>1, <1>3, <1>4

(* The totals follow what each route gains and loses. *)
LEMMA TotalsMove ==
    ASSUME LedgerInv, NEW p \in Payloads,
           \/ LaneHolds' = LaneHolds /\ onLane' = onLane
           \/ Gains(LaneHolds, LaneHolds', p) /\ onLane' = onLane + Price(p)
           \/ Loses(LaneHolds, LaneHolds', p) /\ onLane' = Less(onLane, Price(p)),
           \/ QueueHolds' = QueueHolds /\ queued' = queued
           \/ Gains(QueueHolds, QueueHolds', p) /\ queued' = queued + Price(p)
           \/ Loses(QueueHolds, QueueHolds', p) /\ queued' = Less(queued, Price(p))
    PROVE  Totals' /\ onLane' \in Nat /\ queued' \in Nat
  <1>1. /\ LaneHolds \in SUBSET Payloads /\ IsFiniteSet(LaneHolds) /\ onLane = Bytes(LaneHolds)
        /\ QueueHolds \in SUBSET Payloads /\ IsFiniteSet(QueueHolds) /\ queued = Bytes(QueueHolds)
    BY HoldsFinite DEF LedgerInv, Totals
  <1>2. onLane' = Bytes(LaneHolds') /\ onLane' \in Nat
    BY <1>1, RouteMoves
  <1>3. queued' = Bytes(QueueHolds') /\ queued' \in Nat
    BY <1>1, RouteMoves
  <1>4. QED
    BY <1>2, <1>3 DEF Totals

(* One lemma for each way a payload moves. *)

LEMMA ToQueueLedger ==
    ASSUME LedgerInv, NEW t \in Threads, NEW p \in Payloads, DiscardToQueue(t, p)
    PROVE  LedgerInv'
  <1> USE DEF laneVars, frameVars, LedgerInv
  <1>1. /\ custody[p] = "kept" /\ custody' = [custody EXCEPT ![p] = "deferred"]
        /\ deferred' = Append(deferred, p) /\ queued' = queued + Price(p)
        /\ UNCHANGED <<build, hand, falling, laneQueue, onLane, phase, asked, shown>>
    BY DEF DiscardToQueue, FileDeferred, May
  <1>2. TypeOK'
    BY <1>1, PriceType DEF TypeOK
  <1>3. /\ At("deferred")' = At("deferred") \cup {p}
        /\ \A place \in {"handing", "lane", "falling"} : At(place)' = At(place)
        /\ p \notin At("deferred")
    BY <1>1 DEF At, TypeOK
  <1>4. ToSet(deferred') = ToSet(deferred) \cup {p} /\ NoTwice(deferred')
    BY <1>1, <1>3, QueueAppended DEF TypeOK, Places
  <1>5. Places'
    BY <1>1, <1>3, <1>4 DEF Places
  <1>6. LaneHolds' = LaneHolds
    BY <1>1 DEF LaneHolds
  <1>7. Gains(QueueHolds, QueueHolds', p)
    BY <1>1, <1>4, WhereHeld DEF Gains, QueueHolds
  <1>8. Totals'
    BY <1>1, <1>6, <1>7, TotalsMove
  <1>9. QED
    BY <1>2, <1>5, <1>8

LEMMA OntoLaneLedger ==
    ASSUME LedgerInv, NEW t \in Threads, NEW p \in Payloads, PriceOntoLane(t, p)
    PROVE  LedgerInv'
  <1> USE DEF queueVars, frameVars, LedgerInv
  <1>1. /\ custody[p] = "kept" /\ hand[t] = None /\ custody' = [custody EXCEPT ![p] = "handing"]
        /\ hand' = [hand EXCEPT ![t] = p] /\ onLane' = onLane + Price(p)
        /\ UNCHANGED <<build, falling, laneQueue, deferred, queued, phase, asked, shown>>
    BY DEF PriceOntoLane, May
  <1>2. TypeOK'
    BY <1>1, PriceType DEF TypeOK
  <1>3. /\ At("handing")' = At("handing") \cup {p}
        /\ \A place \in {"deferred", "lane", "falling"} : At(place)' = At(place)
        /\ p \notin At("handing")
    BY <1>1 DEF At, TypeOK
  <1>4. One(hand') /\ In(hand') = In(hand) \cup {p}
    <2>1. hand \in [Threads -> Payloads \cup {None}] /\ One(hand) /\ p \notin In(hand)
      BY <1>3 DEF TypeOK, Places
    <2>2. hand[t] = None
      BY <1>1
    <2>3. hand' = [hand EXCEPT ![t] = p]
      BY <1>1
    <2>4. QED
      BY <2>1, <2>2, <2>3, DiscardAssumption DEF One, In, Threads
  <1>5. Places'
    BY <1>1, <1>3, <1>4 DEF Places
  <1>6. QueueHolds' = QueueHolds
    BY <1>1 DEF QueueHolds
  <1>7. Gains(LaneHolds, LaneHolds', p)
    <2>1. p \notin LaneHolds
      BY <1>1, WhereHeld
    <2>2. \A q \in Payloads : q \in LaneHolds' <=> q \in LaneHolds \cup {p}
      BY <1>1, <1>2, <1>5, WhereHeld, WhereHeldNext DEF TypeOK
    <2>3. LaneHolds' = LaneHolds \cup {p}
      BY <1>2, <2>2, TypesHoldNext, HoldsFinite
    <2>4. QED
      BY <2>1, <2>3 DEF Gains
  <1>8. Totals'
    BY <1>1, <1>6, <1>7, TotalsMove
  <1>9. QED
    BY <1>2, <1>5, <1>8

(* What a thread hands over leaves its hand for a queue. *)
LEMMA SendLedger ==
    ASSUME LedgerInv, NEW t \in Threads, SendToLane(t)
    PROVE  LedgerInv'
  <1> DEFINE p == hand[t]
  <1> USE DEF queueVars, frameVars, LedgerInv
  <1>1. /\ p # None /\ custody' = [custody EXCEPT ![p] = "lane"]
        /\ hand' = [hand EXCEPT ![t] = None] /\ laneQueue' = Append(laneQueue, p)
        /\ UNCHANGED <<build, falling, onLane, deferred, queued, phase, asked, shown>>
    BY DEF SendToLane
  <1>2. /\ hand' \in [Threads -> Payloads \cup {None}] /\ One(hand') /\ In(hand') = In(hand) \ {p}
        /\ p \in Payloads /\ p \in In(hand)
    BY <1>1, ThreadLets DEF TypeOK, Places
  <1> HIDE DEF p
  <1>3. TypeOK'
    BY <1>1, <1>2 DEF TypeOK
  <1>4. custody[p] = "handing"
    BY <1>2, WhereHeld
  <1>5. /\ At("handing")' = At("handing") \ {p} /\ At("lane")' = At("lane") \cup {p}
        /\ \A place \in {"deferred", "falling"} : At(place)' = At(place)
        /\ p \notin At("lane")
    BY <1>1, <1>2, <1>4 DEF At, TypeOK
  <1>6. ToSet(laneQueue') = ToSet(laneQueue) \cup {p} /\ NoTwice(laneQueue')
    BY <1>1, <1>2, <1>5, QueueAppended DEF TypeOK, Places
  <1>7. Places'
    BY <1>1, <1>2, <1>5, <1>6 DEF Places
  <1>8. QueueHolds' = QueueHolds
    BY <1>1 DEF QueueHolds
  <1>9. LaneHolds' = LaneHolds
    <2>1. \A q \in Payloads : q \in LaneHolds' <=> q \in LaneHolds
      BY <1>1, <1>2, <1>3, <1>4, <1>7, WhereHeld, WhereHeldNext DEF TypeOK
    <2>2. QED
      BY <1>3, <2>1, TypesHoldNext, HoldsFinite
  <1>10. Totals'
    BY <1>1, <1>2, <1>8, <1>9, TotalsMove
  <1>11. QED
    BY <1>3, <1>7, <1>10

LEMMA RefuseLedger ==
    ASSUME LedgerInv, NEW t \in Threads, LaneRefuses(t)
    PROVE  LedgerInv'
  <1> DEFINE p == hand[t]
  <1> USE DEF queueVars, frameVars, LedgerInv
  <1>1. /\ p # None /\ custody' = [custody EXCEPT ![p] = "deferred"]
        /\ hand' = [hand EXCEPT ![t] = None] /\ deferred' = Append(deferred, p)
        /\ onLane' = Less(onLane, Price(p)) /\ queued' = queued + Price(p)
        /\ UNCHANGED <<build, falling, laneQueue, phase, asked, shown>>
    BY DEF LaneRefuses, FileDeferred
  <1>2. /\ hand' \in [Threads -> Payloads \cup {None}] /\ One(hand') /\ In(hand') = In(hand) \ {p}
        /\ p \in Payloads /\ p \in In(hand)
    BY <1>1, ThreadLets DEF TypeOK, Places
  <1> HIDE DEF p
  <1>3. TypeOK'
    <2>1. onLane' \in Nat /\ queued' \in Nat /\ deferred' \in Seq(Payloads)
      <3>1. onLane \in Nat /\ queued \in Nat /\ deferred \in Seq(Payloads) /\ Price(p) \in Nat
        BY <1>2, PriceType DEF TypeOK
      <3>2. Less(onLane, Price(p)) \in Nat
        BY <3>1, LessType
      <3>3. QED
        BY <1>1, <1>2, <3>1, <3>2
    <2>2. custody' \in [Payloads -> {"kept", "handing", "lane", "deferred", "falling", "freed"}]
      BY <1>1, <1>2 DEF TypeOK
    <2>3. QED
      BY <1>1, <1>2, <2>1, <2>2 DEF TypeOK
  <1>4. custody[p] = "handing"
    BY <1>2, WhereHeld
  <1>5. /\ At("handing")' = At("handing") \ {p} /\ At("deferred")' = At("deferred") \cup {p}
        /\ \A place \in {"lane", "falling"} : At(place)' = At(place)
        /\ p \notin At("deferred")
    BY <1>1, <1>2, <1>4 DEF At, TypeOK
  <1>6. ToSet(deferred') = ToSet(deferred) \cup {p} /\ NoTwice(deferred')
    BY <1>1, <1>2, <1>5, QueueAppended DEF TypeOK, Places
  <1>7. Places'
    BY <1>1, <1>2, <1>5, <1>6 DEF Places
  <1>8. Gains(QueueHolds, QueueHolds', p)
    <2>1. p \notin QueueHolds
      BY <1>2, <1>4, WhereHeld
    <2>2. QED
      BY <1>1, <1>6, <2>1, <1>2, DiscardAssumption DEF Gains, QueueHolds
  <1>9. Loses(LaneHolds, LaneHolds', p)
    <2>1. p \in LaneHolds
      BY <1>2, <1>4, WhereHeld
    <2>2. \A q \in Payloads : q \in LaneHolds' <=> q \in LaneHolds \ {p}
      BY <1>1, <1>2, <1>3, <1>4, <1>7, WhereHeld, WhereHeldNext DEF TypeOK
    <2>3. LaneHolds' = LaneHolds \ {p}
      BY <1>3, <2>2, TypesHoldNext, HoldsFinite
    <2>4. QED
      BY <2>1, <2>3 DEF Loses
  <1>10. Totals'
    BY <1>1, <1>2, <1>8, <1>9, TotalsMove
  <1>11. QED
    BY <1>3, <1>7, <1>10

(* What a thread takes off a queue, it drops. *)
LEMMA TakeLedger ==
    ASSUME LedgerInv, LaneTakes
    PROVE  LedgerInv'
  <1> DEFINE p == Head(laneQueue)
  <1> USE DEF queueVars, frameVars, LedgerInv
  <1>1. /\ laneQueue # <<>> /\ falling["free"] = None /\ custody' = [custody EXCEPT ![p] = "falling"]
        /\ falling' = [falling EXCEPT !["free"] = p] /\ laneQueue' = Tail(laneQueue)
        /\ UNCHANGED <<build, hand, onLane, deferred, queued, phase, asked, shown>>
    BY DEF LaneTakes
  <1>2. /\ p \in ToSet(laneQueue) /\ p \in Payloads /\ laneQueue' \in Seq(Payloads)
        /\ ToSet(laneQueue') = ToSet(laneQueue) \ {p} /\ NoTwice(laneQueue')
    BY <1>1, QueueTaken DEF TypeOK, Places
  <1> HIDE DEF p
  <1>3. TypeOK'
    BY <1>1, <1>2 DEF TypeOK, Threads
  <1>4. custody[p] = "lane"
    BY <1>2, WhereHeld
  <1>5. /\ At("lane")' = At("lane") \ {p} /\ At("falling")' = At("falling") \cup {p}
        /\ \A place \in {"deferred", "handing"} : At(place)' = At(place)
        /\ p \notin At("falling")
    BY <1>1, <1>2, <1>4 DEF At, TypeOK
  <1>6. One(falling') /\ In(falling') = In(falling) \cup {p} /\ falling'["frame"] = falling["frame"] /\ falling'["free"] = p
    <2>1. falling \in [Threads -> Payloads \cup {None}] /\ One(falling) /\ p \notin In(falling)
      BY <1>5 DEF TypeOK, Places
    <2>2. "frame" \in Threads /\ "free" \in Threads /\ "frame" # "free"
      BY DEF Threads
    <2>3. falling["free"] = None /\ p \in Payloads
      BY <1>1, <1>2
    <2>4. falling' = [falling EXCEPT !["free"] = p]
      BY <1>1
    <2>5. QED
      BY <2>1, <2>2, <2>3, <2>4, DiscardAssumption DEF One, In, Threads
  <1>7. Places'
    BY <1>1, <1>2, <1>5, <1>6 DEF Places
  <1>8. QueueHolds' = QueueHolds
    BY <1>1, <1>6 DEF QueueHolds
  <1>9. LaneHolds' = LaneHolds
    <2>1. \A q \in Payloads : q # p => custody'[q] = custody[q]
      BY <1>1 DEF TypeOK
    <2>2. custody'[p] = "falling" /\ p # None
      BY <1>1, <1>2, DiscardAssumption DEF TypeOK
    <2>3. \A q \in Payloads : q \in LaneHolds' <=> q \in LaneHolds
      <3>1. p \in LaneHolds' /\ p \in LaneHolds
        BY <1>2, <1>3, <1>4, <1>6, <1>7, <2>2, WhereHeld, WhereHeldNext
      <3>2. ASSUME NEW q \in Payloads, q # p PROVE q \in LaneHolds' <=> q \in LaneHolds
        <4>1. falling'["free"] # q /\ falling["free"] # q
          BY <1>1, <1>6, <3>2, DiscardAssumption
        <4>2. QED
          BY <1>3, <1>7, <2>1, <3>2, <4>1, WhereHeld, WhereHeldNext
      <3>3. QED
        BY <3>1, <3>2
    <2>4. QED
      BY <1>3, <2>3, TypesHoldNext, HoldsFinite
  <1>10. Totals'
    BY <1>1, <1>2, <1>8, <1>9, TotalsMove
  <1>11. QED
    BY <1>3, <1>7, <1>10

LEMMA PopLedger ==
    ASSUME LedgerInv, DrainPops
    PROVE  LedgerInv'
  <1> DEFINE p == Head(deferred)
  <1> USE DEF laneVars, frameVars, LedgerInv
  <1>1. /\ deferred # <<>> /\ falling["frame"] = None /\ custody' = [custody EXCEPT ![p] = "falling"]
        /\ falling' = [falling EXCEPT !["frame"] = p] /\ deferred' = Tail(deferred)
        /\ UNCHANGED <<build, hand, laneQueue, onLane, queued, phase, asked, shown>>
    BY DEF DrainPops, FrameIdle
  <1>2. /\ p \in ToSet(deferred) /\ p \in Payloads /\ deferred' \in Seq(Payloads)
        /\ ToSet(deferred') = ToSet(deferred) \ {p} /\ NoTwice(deferred')
    BY <1>1, QueueTaken DEF TypeOK, Places
  <1> HIDE DEF p
  <1>3. TypeOK'
    BY <1>1, <1>2 DEF TypeOK, Threads
  <1>4. custody[p] = "deferred"
    BY <1>2, WhereHeld
  <1>5. /\ At("deferred")' = At("deferred") \ {p} /\ At("falling")' = At("falling") \cup {p}
        /\ \A place \in {"lane", "handing"} : At(place)' = At(place)
        /\ p \notin At("falling")
    BY <1>1, <1>2, <1>4 DEF At, TypeOK
  <1>6. One(falling') /\ In(falling') = In(falling) \cup {p} /\ falling'["free"] = falling["free"] /\ falling'["frame"] = p
    <2>1. falling \in [Threads -> Payloads \cup {None}] /\ One(falling) /\ p \notin In(falling)
      BY <1>5 DEF TypeOK, Places
    <2>2. "frame" \in Threads /\ "free" \in Threads /\ "frame" # "free"
      BY DEF Threads
    <2>3. falling["frame"] = None /\ p \in Payloads
      BY <1>1, <1>2
    <2>4. falling' = [falling EXCEPT !["frame"] = p]
      BY <1>1
    <2>5. QED
      BY <2>1, <2>2, <2>3, <2>4, DiscardAssumption DEF One, In, Threads
  <1>7. Places'
    BY <1>1, <1>2, <1>5, <1>6 DEF Places
  <1>8. LaneHolds' = LaneHolds
    BY <1>1, <1>6 DEF LaneHolds
  <1>9. QueueHolds' = QueueHolds
    BY <1>1, <1>2, <1>6, DiscardAssumption DEF QueueHolds
  <1>10. Totals'
    BY <1>1, <1>2, <1>8, <1>9, TotalsMove
  <1>11. QED
    BY <1>3, <1>7, <1>10

(* A drop ends, whole or by a panic that frees what it had not discarded. *)
LEMMA LaneFreesLedger ==
    ASSUME LedgerInv, LaneFrees \/ LanePanics
    PROVE  LedgerInv'
  <1> DEFINE p == falling["free"]
  <1> USE DEF queueVars, frameVars, LedgerInv
  <1>1. /\ p # None /\ falling' = [falling EXCEPT !["free"] = None]
        /\ onLane' = Less(onLane, Price(p))
        /\ UNCHANGED <<build, hand, laneQueue, deferred, queued, phase, asked, shown>>
    BY DEF LaneFrees, LanePanics, Dropped, DepricedAfterPanic
  <1>2. /\ falling' \in [Threads -> Payloads \cup {None}] /\ One(falling') /\ In(falling') = In(falling) \ {p}
        /\ p \in Payloads /\ p \in In(falling) /\ falling'["frame"] = falling["frame"] /\ falling'["free"] = None
    BY <1>1, ThreadLets DEF TypeOK, Places, Threads
  <1>3. /\ custody' \in [Payloads -> {"kept", "handing", "lane", "deferred", "falling", "freed"}]
        /\ custody'[p] = "freed"
        /\ \A q \in Payloads : q # p => custody'[q] = custody[q] \/ (custody[q] = "kept" /\ custody'[q] = "freed")
    BY <1>2 DEF LaneFrees, LanePanics, TypeOK
  <1> HIDE DEF p
  <1>4. TypeOK'
    BY <1>1, <1>2, <1>3, PriceType, LessType DEF TypeOK
  <1>5. custody[p] = "falling"
    BY <1>2, WhereHeld
  <1>6. /\ At("falling")' = At("falling") \ {p}
        /\ \A place \in {"lane", "handing", "deferred"} : At(place)' = At(place)
    BY <1>2, <1>3, <1>5 DEF At
  <1>7. Places'
    BY <1>1, <1>2, <1>6 DEF Places
  <1>8. QueueHolds' = QueueHolds
    BY <1>1, <1>2 DEF QueueHolds
  <1>9. Loses(LaneHolds, LaneHolds', p)
    <2>1. p \in LaneHolds
      BY <1>2, <1>5, WhereHeld DEF p
    <2>2. \A q \in Payloads : q \in LaneHolds' <=> q \in LaneHolds \ {p}
      <3>1. p = falling["free"]
        BY DEF p
      <3>2. QED
        BY <1>2, <1>3, <1>4, <1>5, <1>7, <3>1, WhereHeld, WhereHeldNext, DiscardAssumption
    <2>3. LaneHolds' = LaneHolds \ {p}
      BY <1>4, <2>2, TypesHoldNext, HoldsFinite
    <2>4. QED
      BY <2>1, <2>3 DEF Loses
  <1>10. Totals'
    BY <1>1, <1>2, <1>8, <1>9, TotalsMove
  <1>11. QED
    BY <1>4, <1>7, <1>10

LEMMA DrainFreesLedger ==
    ASSUME LedgerInv, DrainFrees
    PROVE  LedgerInv'
  <1> DEFINE p == falling["frame"]
  <1> USE DEF laneVars, LedgerInv
  <1>1. /\ p # None /\ falling' = [falling EXCEPT !["frame"] = None]
        /\ queued' = Less(queued, Price(p)) /\ custody' = [custody EXCEPT ![p] = "freed"]
        /\ phase' \in {"drains", "gate"}
        /\ UNCHANGED <<build, hand, laneQueue, onLane, deferred, asked, shown>>
    BY DEF DrainFrees, Dropped
  <1>2. /\ falling' \in [Threads -> Payloads \cup {None}] /\ One(falling') /\ In(falling') = In(falling) \ {p}
        /\ p \in Payloads /\ p \in In(falling) /\ falling'["free"] = falling["free"] /\ falling'["frame"] = None
    BY <1>1, ThreadLets DEF TypeOK, Places, Threads
  <1> HIDE DEF p
  <1>3. TypeOK'
    BY <1>1, <1>2, PriceType, LessType DEF TypeOK, Phases
  <1>4. custody[p] = "falling"
    BY <1>2, WhereHeld
  <1>5. /\ At("falling")' = At("falling") \ {p}
        /\ \A place \in {"lane", "handing", "deferred"} : At(place)' = At(place)
    BY <1>1, <1>2, <1>4 DEF At, TypeOK
  <1>6. Places'
    BY <1>1, <1>2, <1>5 DEF Places
  <1>7. LaneHolds' = LaneHolds
    BY <1>1, <1>2 DEF LaneHolds
  <1>8. Loses(QueueHolds, QueueHolds', p)
    <2>1. p = falling["frame"] /\ p \in QueueHolds
      BY <1>2, <1>4, WhereHeld DEF p
    <2>2. p \notin ToSet(deferred)
      BY <1>2, <1>4, WhereHeld
    <2>3. QED
      BY <1>1, <1>2, <2>1, <2>2 DEF Loses, QueueHolds
  <1>9. Totals'
    BY <1>1, <1>2, <1>7, <1>8, TotalsMove
  <1>10. QED
    BY <1>3, <1>6, <1>9

(* The rest moves no payload. *)
LEMMA IdleLedger ==
    ASSUME LedgerInv, phase' \in Phases, asked' \in BOOLEAN, shown' \in BOOLEAN,
           UNCHANGED <<build, custody, hand, falling, laneVars, queueVars>>
    PROVE  LedgerInv'
  <1> USE DEF laneVars, queueVars
  <1>1. TypeOK'
    BY DEF LedgerInv, TypeOK
  <1>2. Places'
    BY DEF LedgerInv, Places, At
  <1>3. Totals'
    BY DEF LedgerInv, Totals, LaneHolds, QueueHolds
  <1>4. QED
    BY <1>1, <1>2, <1>3 DEF LedgerInv

LEMMA LedgerStep == LedgerInv /\ [Next]_vars => LedgerInv'
  <1> SUFFICES ASSUME LedgerInv, [Next]_vars PROVE LedgerInv'
    OBVIOUS
  <1>1. CASE \E t \in Threads : Discard(t) \/ Hands(t)
    BY <1>1, ToQueueLedger, OntoLaneLedger, SendLedger, RefuseLedger DEF Discard, Hands
  <1>2. CASE LaneSteps
    BY <1>2, TakeLedger, LaneFreesLedger DEF LaneSteps
  <1>3. CASE DrainPops \/ DrainFrees
    BY <1>3, PopLedger, DrainFreesLedger
  <1>4. ASSUME \/ Redraw \/ DrainStarts \/ DrainEnds \/ Gate \/ FrameEnds \/ WarningEnds
               \/ Platform \/ UNCHANGED vars
        PROVE  LedgerInv'
    <2>1. UNCHANGED <<build, custody, hand, falling, laneVars, queueVars>>
      BY <1>4 DEF Redraw, DrainStarts, DrainEnds, Gate, FrameEnds, WarningEnds, Platform, AskForFrame,
             HideOrShow, MemoryWarning, vars, laneVars, queueVars
    <2>2. phase' \in Phases /\ asked' \in BOOLEAN /\ shown' \in BOOLEAN
      <3> USE DEF LedgerInv, TypeOK, Phases
      <3>1. CASE Redraw \/ DrainStarts \/ DrainEnds \/ Gate
        BY <3>1 DEF Redraw, DrainStarts, DrainEnds, Gate
      <3>2. CASE FrameEnds \/ WarningEnds
        BY <3>2 DEF FrameEnds, WarningEnds, HasDeferredDrops
      <3>3. CASE Platform
        BY <3>3 DEF Platform, AskForFrame, HideOrShow, MemoryWarning
      <3>4. CASE UNCHANGED vars
        BY <3>4 DEF vars, frameVars
      <3>5. QED
        BY <1>4, <3>1, <3>2, <3>3, <3>4
    <2>3. QED
      BY <2>1, <2>2, IdleLedger
  <1>5. QED
    BY <1>1, <1>2, <1>3, <1>4 DEF Next, FrameSteps, DrainSteps

LEMMA LedgerInit == DiscardInit => LedgerInv
  <1> SUFFICES ASSUME DiscardInit PROVE LedgerInv
    OBVIOUS
  <1>1. TypeOK
    BY AwakeInit DEF AwakeInv
  <1>2. \A place \in {"handing", "lane", "deferred", "falling"} : At(place) = {}
    BY DEF DiscardInit, At
  <1>3. In(hand) = {} /\ One(hand) /\ In(falling) = {} /\ One(falling)
    BY DEF DiscardInit, In, One, Threads
  <1>4. Places
    BY <1>2, <1>3, Emptied DEF Places, DiscardInit
  <1>5. LaneHolds = {} /\ QueueHolds = {}
    BY Emptied DEF DiscardInit, LaneHolds, QueueHolds, Threads
  <1>6. Totals
    BY <1>1, <1>5, HoldsFinite, BytesFinite DEF Totals, DiscardInit
  <1>7. QED
    BY <1>1, <1>4, <1>6 DEF LedgerInv

-----------------------------------------------------------------------------
(* The theorems. *)

LEMMA HoldsCount ==
    ASSUME NEW f \in [Threads -> Payloads \cup {None}], One(f)
    PROVE  /\ IsFiniteSet(In(f)) /\ In(f) \in SUBSET Payloads
           /\ Cardinality(In(f)) = Cardinality({t \in Threads : f[t] # None})
  <1> DEFINE T == {t \in Threads : f[t] # None}
             g == [t \in T |-> f[t]]
  <1>1. IsFiniteSet(T)
    <2>1. IsFiniteSet({} \cup {"frame"})
      BY FS_EmptySet, FS_AddElement
    <2>2. IsFiniteSet(({} \cup {"frame"}) \cup {"free"})
      BY <2>1, FS_AddElement
    <2>3. T \in SUBSET (({} \cup {"frame"}) \cup {"free"})
      BY DEF Threads
    <2> HIDE DEF T
    <2>4. QED
      BY <2>2, <2>3, FS_Subset
  <1>2. g \in Surjection(T, In(f))
    BY DEF Surjection, In
  <1>3. g \in Injection(T, In(f))
    BY DEF Injection, IsInjective, In, One, Threads
  <1> HIDE DEF T, g
  <1>4. IsFiniteSet(In(f)) /\ Cardinality(In(f)) = Cardinality(T)
    BY <1>1, <1>2, <1>3, FS_Surjection
  <1>5. In(f) \in SUBSET Payloads
    BY DEF In
  <1>6. QED
    BY <1>4, <1>5 DEF T

LEMMA DisjointCount ==
    ASSUME NEW A, NEW B, IsFiniteSet(A), IsFiniteSet(B), A \cap B = {}
    PROVE  IsFiniteSet(A \cup B) /\ Cardinality(A \cup B) = Cardinality(A) + Cardinality(B)
  <1>1. /\ IsFiniteSet(A \cup B)
        /\ Cardinality(A \cup B) = Cardinality(A) + Cardinality(B) - Cardinality(A \cap B)
    BY FS_Union
  <1>2. Cardinality(A \cap B) = 0
    BY FS_EmptySet
  <1>3. Cardinality(A) \in Nat /\ Cardinality(B) \in Nat
    BY FS_CardinalityType
  <1>4. QED
    BY <1>1, <1>2, <1>3

LEMMA LedgerExact == LedgerInv => LedgerIsExact
  <1> SUFFICES ASSUME LedgerInv PROVE LedgerIsExact
    OBVIOUS
  <1> USE DEF LedgerInv
  <1>1. onLane = Bytes(LaneHolds) /\ queued = Bytes(QueueHolds)
    BY DEF Totals
  <1>2. /\ LaneHolds \in SUBSET Payloads /\ IsFiniteSet(LaneHolds)
        /\ QueueHolds \in SUBSET Payloads /\ IsFiniteSet(QueueHolds)
    BY HoldsFinite
  <1>3. onLane + queued = 0 <=> LaneHolds \cup QueueHolds = {}
    <2>1. /\ onLane \in Nat /\ queued \in Nat
          /\ (onLane = 0 <=> LaneHolds = {}) /\ (queued = 0 <=> QueueHolds = {})
      BY <1>1, <1>2, BytesFinite
    <2>2. onLane + queued = 0 <=> onLane = 0 /\ queued = 0
      BY <2>1
    <2>3. QED
      BY <2>1, <2>2
  <1>4. \A p \in Payloads :
           /\ p \in LaneHolds <=> \/ custody[p] \in {"lane", "handing"}
                                  \/ custody[p] = "falling" /\ falling["free"] = p
           /\ p \in QueueHolds <=> \/ custody[p] = "deferred"
                                   \/ custody[p] = "falling" /\ falling["frame"] = p
           /\ custody[p] = "falling" <=> p \in In(falling)
    BY WhereHeld
  <1>5. \A p \in Payloads :
           /\ custody[p] = "falling" <=> (p = falling["frame"] \/ p = falling["free"])
           /\ ~(p = falling["frame"] /\ p = falling["free"])
    BY <1>4, DiscardAssumption DEF In, Threads, Places, One
  <1>6. LaneHolds \cap QueueHolds = {}
    BY <1>2, <1>4, <1>5
  <1>7. LaneHolds \cup QueueHolds = {p \in Payloads : custody[p] \notin {"kept", "freed"}}
    <2>1. \A p \in Payloads : custody[p] \in {"kept", "handing", "lane", "deferred", "falling", "freed"}
      BY DEF TypeOK
    <2>2. QED
      BY <1>2, <1>4, <1>5, <2>1
  <1>8. Cardinality(LaneHolds \cup QueueHolds) =
          Len(laneQueue) + Len(deferred)
            + Cardinality({t \in Threads : hand[t] # None})
            + Cardinality({t \in Threads : falling[t] # None})
    <2> DEFINE L == ToSet(laneQueue)
               D == ToSet(deferred)
               H == In(hand)
               F == In(falling)
    <2>1. /\ IsFiniteSet(L) /\ Cardinality(L) = Len(laneQueue)
          /\ IsFiniteSet(D) /\ Cardinality(D) = Len(deferred)
      BY QueueFinite DEF TypeOK, Places
    <2>2. /\ IsFiniteSet(H) /\ Cardinality(H) = Cardinality({t \in Threads : hand[t] # None})
          /\ IsFiniteSet(F) /\ Cardinality(F) = Cardinality({t \in Threads : falling[t] # None})
      BY HoldsCount DEF TypeOK, Places
    <2>3. L \cap D = {} /\ (L \cup D) \cap H = {} /\ ((L \cup D) \cup H) \cap F = {}
      BY DEF Places, At
    <2>4. LaneHolds \cup QueueHolds = ((L \cup D) \cup H) \cup F
      BY DEF LaneHolds, QueueHolds, In, Threads
    <2> HIDE DEF L, D, H, F
    <2>5. IsFiniteSet(L \cup D) /\ Cardinality(L \cup D) = Cardinality(L) + Cardinality(D)
      BY <2>1, <2>3, DisjointCount
    <2>6. /\ IsFiniteSet((L \cup D) \cup H)
          /\ Cardinality((L \cup D) \cup H) = Cardinality(L \cup D) + Cardinality(H)
      BY <2>2, <2>3, <2>5, DisjointCount
    <2>7. Cardinality(((L \cup D) \cup H) \cup F) = Cardinality((L \cup D) \cup H) + Cardinality(F)
      BY <2>2, <2>3, <2>6, DisjointCount
    <2>8. QED
      BY <2>1, <2>2, <2>4, <2>5, <2>6, <2>7
  <1>9. QED
    BY <1>1, <1>3, <1>6, <1>7, <1>8 DEF LedgerIsExact

(* The ledger's inductive invariant: who has which payload, what its price is, and which *)
(* count of the two routes it is in (discard_ledger.rs).                                 *)
THEOREM LedgerInvariant == DiscardSpec => []LedgerInv
  <1>1. DiscardInit => LedgerInv
    BY LedgerInit
  <1>2. LedgerInv /\ [Next]_vars => LedgerInv'
    BY LedgerStep
  <1>3. QED
    BY <1>1, <1>2, PTL DEF DiscardSpec

(* Every variable of the two routes stays in its range, on every target, with or       *)
(* without a free thread.                                                              *)
THEOREM DiscardTypeCorrect == DiscardSpec => []TypeOK
  <1>1. LedgerInv => TypeOK
    BY DEF LedgerInv
  <1>2. QED
    BY <1>1, LedgerInvariant, PTL

(* Each route's total is the price of what it holds, whatever both threads file and    *)
(* retire at once, whichever handover is refused and whichever Drop panics; the census *)
(* is zero exactly when nothing is held, and each payload is held once                 *)
(* (discard_ledger.rs).                                                                *)
THEOREM TheLedgerIsExact == DiscardSpec => []LedgerIsExact
  <1>1. LedgerInv => LedgerIsExact
    BY LedgerExact
  <1>2. QED
    BY <1>1, LedgerInvariant, PTL

=============================================================================
