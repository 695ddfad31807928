-------------------------- MODULE LoopVolumesProofs --------------------------
(***************************************************************************)
(* Theorems about the volumes of a loop: the errands and their marks, the   *)
(* archive behind a released base, and the forms a listed frame keeps, for  *)
(* any set of addresses, any ceilings and any number of moves.              *)
(***************************************************************************)
EXTENDS LoopVolumes, FiniteSetTheorems, WellFoundedInduction, TLAPS

(* The value that stands for nothing is no address, no plan and no base. *)
NoneIsNothing == None \notin Nat \cup SUBSET Stamps \cup [at : Nat, whole : BOOLEAN]

-----------------------------------------------------------------------------
(* Finite sets of numbers, and the first of a set. *)

LEMMA LeastOf ==
    ASSUME NEW T \in SUBSET Nat, T # {}
    PROVE  \E n \in T : \A m \in T : n <= m
  <1> DEFINE R == OpToRel(<, Nat)
  <1>1. IsWellFoundedOn(R, Nat)
    BY NatLessThanWellFounded
  <1>2. \A x, y \in Nat : <<x, y>> \in R <=> x < y
    BY DEF OpToRel
  <1> HIDE DEF R
  <1>3. PICK n \in T : \A y \in T : ~ (<<y, n>> \in R)
    BY <1>1, WFMin
  <1>4. ASSUME NEW m \in T PROVE n <= m
    <2>1. n \in Nat /\ m \in Nat /\ ~ (m < n)
      BY <1>2, <1>3
    <2>2. QED
      BY <2>1
  <1>5. QED
    BY <1>4

LEMMA StampSets ==
    ASSUME NEW S \in SUBSET Stamps
    PROVE  IsFiniteSet(S) /\ Cardinality(S) \in Nat /\ S \in SUBSET Nat
  BY LoopAssumption, FS_Subset, FS_CardinalityType

LEMMA MinIn == ASSUME NEW S \in SUBSET Stamps, S # {} PROVE Min(S) \in S
  BY StampSets, LeastOf DEF Min

(* The member with the fewest above it is the greatest. *)
LEMMA MaxIn == ASSUME NEW S \in SUBSET Stamps, S # {} PROVE Max(S) \in S
  <1> DEFINE U(x) == {y \in S : x < y}
             T == {Cardinality(U(x)) : x \in S}
  <1>1. \A x \in S : U(x) \in SUBSET S /\ IsFiniteSet(U(x)) /\ Cardinality(U(x)) \in Nat
    BY StampSets
  <1>2. T \in SUBSET Nat /\ T # {}
    BY <1>1
  <1>3. PICK n \in T : \A m \in T : n <= m
    <2> HIDE DEF T
    <2>1. QED
      BY <1>2, LeastOf
  <1>4. PICK x \in S : n = Cardinality(U(x))
    BY <1>3
  <1>5. ASSUME NEW y \in S PROVE x >= y
    <2> SUFFICES ASSUME x < y PROVE FALSE
      BY StampSets
    <2>1. \A z \in S : z \in Nat
      BY StampSets
    <2>2. U(y) \subseteq U(x) /\ y \in U(x) /\ y \notin U(y)
      BY <2>1
    <2>3. U(y) \in SUBSET U(x) /\ U(y) # U(x)
      BY <2>2
    <2>4. Cardinality(U(x)) <= Cardinality(U(y))
      BY <1>3, <1>4
    <2>5. IsFiniteSet(U(x)) /\ IsFiniteSet(U(y)) /\ Cardinality(U(x)) \in Nat /\ Cardinality(U(y)) \in Nat
      BY <1>1
    <2> HIDE DEF U
    <2>6. QED
      BY <2>3, <2>4, <2>5, FS_Subset
  <1>6. QED
    BY <1>5 DEF Max

(* Each of the first n has another number of members before it. *)
LEMMA FirstCount ==
    ASSUME NEW S, S \in SUBSET Stamps, NEW ahead, NEW n \in Nat,
           \A a \in S : a \notin ahead[a],
           \A a, b \in S : a # b => a \in ahead[b] \/ b \in ahead[a],
           \A a, b \in S : a \in ahead[b] => S \cap ahead[a] \subseteq ahead[b]
    PROVE  First(S, ahead, n) \subseteq S /\ Cardinality(First(S, ahead, n)) <= n
  <1> DEFINE F == First(S, ahead, n)
             U(a) == S \cap ahead[a]
             f == [a \in F |-> Cardinality(U(a))]
  <1>1. F \subseteq S /\ F \in SUBSET Stamps
    BY DEF First
  <1>2. \A a \in S : U(a) \in SUBSET S /\ IsFiniteSet(U(a)) /\ Cardinality(U(a)) \in Nat
    <2>1. \A a \in S : U(a) \in SUBSET Stamps /\ U(a) \in SUBSET S
      OBVIOUS
    <2>2. QED
      BY <2>1, StampSets
  <1>3. \A a \in F : Cardinality(U(a)) \in 0..(n - 1)
    BY <1>1, <1>2 DEF First
  <1>4. ASSUME NEW a \in S, NEW b \in S, a \in ahead[b]
        PROVE  Cardinality(U(a)) # Cardinality(U(b))
    <2>1. U(a) \in SUBSET U(b) /\ a \in U(b) /\ a \notin U(a)
      BY <1>4
    <2>2. U(a) # U(b)
      BY <2>1
    <2>3. IsFiniteSet(U(b))
      BY <1>2
    <2> HIDE DEF U
    <2>4. QED
      BY <2>1, <2>2, <2>3, FS_Subset
  <1> HIDE DEF U, F
  <1>5. f \in Injection(F, 0..(n - 1))
    <2>1. f \in [F -> 0..(n - 1)]
      BY <1>3
    <2>2. \A a, b \in F : f[a] = f[b] => a = b
      BY <1>1, <1>4
    <2> HIDE DEF f
    <2>3. QED
      BY <2>1, <2>2 DEF Injection, IsInjective
  <1> HIDE DEF f
  <1>6. IsFiniteSet(0..(n - 1)) /\ Cardinality(0..(n - 1)) = n
    <2>1. 0 \in Int /\ n - 1 \in Int
      OBVIOUS
    <2>2. Cardinality(0..(n - 1)) = IF 0 > n - 1 THEN 0 ELSE (n - 1) - 0 + 1
      BY <2>1, FS_Interval
    <2>3. IsFiniteSet(0..(n - 1))
      BY <2>1, FS_Interval
    <2>4. QED
      BY <2>2, <2>3
  <1>7. Cardinality(F) <= n
    BY <1>5, <1>6, FS_Injection
  <1>8. QED
    BY <1>1, <1>7 DEF F

LEMMA FirstPart ==
    ASSUME NEW S \in SUBSET Stamps, NEW ahead, NEW n \in Nat, NEW k \in Nat, k <= n
    PROVE  /\ First(S, ahead, k) \subseteq First(S, ahead, n) /\ First(S, ahead, n) \subseteq S
           /\ n = 0 => First(S, ahead, n) = {}
  <1>1. \A a \in S : Cardinality(S \cap ahead[a]) \in Nat
    BY StampSets
  <1>2. QED
    BY <1>1 DEF First

-----------------------------------------------------------------------------
(* The manager. *)

Wants == {None} \cup UNION {[S -> Nat] : S \in SUBSET Stamps}
Managers == [decoded : SUBSET Stamps, heap : SUBSET Stamps, spilled : SUBSET Stamps,
             known : SUBSET Stamps, marked : SUBSET Stamps, reserved : SUBSET Stamps,
             count : Nat, plan : {None} \cup SUBSET Stamps, queue : SUBSET Stamps,
             wants : Wants, out : SUBSET Errand]

SameForms(m, n) == /\ n.decoded = m.decoded /\ n.heap = m.heap
                   /\ n.spilled = m.spilled /\ n.known = m.known
SameWork(m, n) == /\ n.marked = m.marked /\ n.reserved = m.reserved
                  /\ n.count = m.count /\ n.out = m.out
SamePlan(m, n) == n.plan = m.plan /\ n.queue = m.queue /\ n.wants = m.wants

(* One errand for each mark, and none without. *)
OneErrand(m) ==
    /\ \A e \in m.out : e.at \in m.marked
    /\ \A a \in m.marked : \E e \in m.out : e.at = a
    /\ \A e, f \in m.out : e.at = f.at => e = f
Busy(m) == OneErrand(m) /\ m.reserved \subseteq m.marked /\ m.count <= Cap
Planned(m) == m.queue \subseteq (IF m.plan = None THEN {} ELSE m.plan)
Apart(m) == m.heap \cap m.spilled = {}
Sound(m) == m \in Managers /\ Busy(m) /\ Planned(m) /\ Apart(m)

(* What is held and what is known only grow. *)
Grows(m, n) == /\ m.decoded \subseteq n.decoded /\ Held(m) \subseteq Held(n)
               /\ m.known \subseteq n.known
LEMMA CacheScanIs ==
    ASSUME NEW m \in Managers, NEW at \in SUBSET Stamps
    PROVE  LET n == CacheScan(m, at)
           IN /\ n \in Managers /\ n.decoded = m.decoded \cup at /\ n.known = m.known \cup at
              /\ n.heap = m.heap /\ n.spilled = m.spilled
              /\ SameWork(m, n) /\ SamePlan(m, n)
  BY DEF Managers, CacheScan, SameWork, SamePlan

LEMMA CacheArchiveIs ==
    ASSUME NEW m \in Managers, NEW at \in SUBSET Stamps
    PROVE  LET n == CacheArchive(m, at)
           IN /\ n \in Managers /\ n.decoded = m.decoded /\ n.known = m.known
              /\ n.heap = m.heap \cup at /\ n.spilled = m.spilled \ at
              /\ SameWork(m, n) /\ SamePlan(m, n)
  BY DEF Managers, CacheArchive, SameWork, SamePlan

LEMMA MinTwin ==
    ASSUME NEW m \in Managers, NEW a \in Stamps
    PROVE  \E at \in SUBSET Stamps :
              ShareWithTwin(m, a) = m \/ ShareWithTwin(m, a) = CacheArchive(m, at)
  <1>1. Twins(m, a) \in SUBSET Stamps
    BY DEF Twins, Managers
  <1>2. CASE a \in m.known /\ Twins(m, a) # {}
    <2>1. {Min(Twins(m, a))} \in SUBSET Stamps
      BY <1>1, <1>2, MinIn
    <2>2. QED
      BY <1>2, <2>1 DEF ShareWithTwin
  <1>3. QED
    BY <1>2 DEF ShareWithTwin

(* Filing a volume adds forms and starts no errand. *)
LEMMA FiledIs ==
    ASSUME Sound(mgr), NEW a \in Stamps, NEW archive \in BOOLEAN
    PROVE  LET n == Filed(a, archive)
           IN Sound(n) /\ Grows(mgr, n)
  <1> DEFINE Fine(n) == n \in Managers /\ Grows(mgr, n) /\ SameWork(mgr, n) /\ SamePlan(mgr, n) /\ Apart(n)
             scan == CacheScan(mgr, {a})
             twin == ShareWithTwin(scan, a)
             whole == CacheArchive(twin, {a})
  <1>1. Fine(scan)
    BY CacheScanIs DEF Sound, Grows, Apart, Held
  <1>2. ASSUME NEW m, Fine(m), NEW at \in SUBSET Stamps PROVE Fine(CacheArchive(m, at))
    BY <1>2, CacheArchiveIs DEF Grows, Apart, Held, SameWork, SamePlan
  <1>3. ASSUME NEW n, Fine(n) PROVE Sound(n) /\ Grows(mgr, n)
    BY <1>3 DEF Sound, Busy, OneErrand, Planned, SameWork, SamePlan
  <1> HIDE DEF Fine
  <1>4. scan \in Managers
    BY <1>1 DEF Fine
  <1>5. Fine(twin)
    BY <1>1, <1>2, <1>4, MinTwin
  <1>6. Fine(whole)
    BY <1>2, <1>5
  <1>7. Filed(a, archive) \in {scan, whole}
    BY DEF Filed
  <1>8. QED
    BY <1>1, <1>3, <1>6, <1>7

(* Errands are sent to stamps without a mark, so each is the first of its stamp. *)
LEMMA SendIs ==
    ASSUME NEW m \in Managers, OneErrand(m), NEW at \in SUBSET Stamps, at \cap m.marked = {},
           NEW stage \in {"fetch", "decode"}
    PROVE  LET n == Send(m, at, stage)
           IN /\ n \in Managers /\ OneErrand(n)
              /\ n.marked = m.marked \cup at /\ n.reserved = m.reserved /\ n.count = m.count
              /\ SameForms(m, n) /\ SamePlan(m, n)
  <1> DEFINE new == {[at |-> a, stage |-> stage, nth |-> 1] : a \in at}
             n == Send(m, at, stage)
  <1>1. \A a \in at : Cardinality({e \in m.out : e.at = a}) + 1 = 1
    <2>1. \A a \in at : {e \in m.out : e.at = a} = {}
      BY DEF OneErrand
    <2>2. QED
      BY <2>1, FS_EmptySet
  <1>2. {[at |-> a, stage |-> stage, nth |-> Cardinality({e \in m.out : e.at = a}) + 1] : a \in at} = new
    BY <1>1
  <1>3. n = [m EXCEPT !.marked = @ \cup at, !.out = @ \cup new]
    BY <1>2 DEF Send
  <1>4. new \subseteq Errand
    BY DEF Errand, Replies
  <1>5. /\ n \in Managers /\ n.marked = m.marked \cup at /\ n.out = m.out \cup new
        /\ n.reserved = m.reserved /\ n.count = m.count /\ SameForms(m, n) /\ SamePlan(m, n)
    <2> HIDE DEF new
    <2>1. QED
      BY <1>3, <1>4 DEF Managers, SameForms, SamePlan
  <1>6. /\ \A e \in new : e.at \in at
        /\ \A a \in at : \E e \in new : e.at = a
        /\ \A e, f \in new : e.at = f.at => e = f
    <2> DEFINE r(a) == [at |-> a, stage |-> stage, nth |-> 1]
    <2>1. \A a \in at : r(a).at = a /\ r(a) \in new
      OBVIOUS
    <2>2. \A e \in new : \E a \in at : e = r(a)
      OBVIOUS
    <2> HIDE DEF r, new
    <2>3. QED
      BY <2>1, <2>2
  <1>7. \A e \in m.out : e.at \notin at
    BY DEF OneErrand
  <1> HIDE DEF new, n
  <1>8. OneErrand(n)
    BY <1>5, <1>6, <1>7 DEF OneErrand
  <1>9. QED
    BY <1>5, <1>8 DEF n

LEMMA SendDecodesIs ==
    ASSUME NEW m, Sound(m), NEW at \in SUBSET Stamps, at \cap m.marked = {}
    PROVE  LET n == SendDecodes(m, at)
           IN Sound(n) /\ n.marked = m.marked \cup at /\ n.count = m.count
              /\ SameForms(m, n) /\ SamePlan(m, n)
  <1> DEFINE s == Send(m, at, "decode")
             n == SendDecodes(m, at)
  <1>1. /\ s \in Managers /\ OneErrand(s) /\ s.marked = m.marked \cup at
        /\ s.reserved = m.reserved /\ s.count = m.count /\ SameForms(m, s) /\ SamePlan(m, s)
    BY SendIs DEF Sound, Busy
  <1>2. n = [s EXCEPT !.reserved = @ \cup at]
    BY DEF SendDecodes
  <1> HIDE DEF s, n
  <1>3. /\ n \in Managers /\ n.reserved = m.reserved \cup at /\ n.marked = s.marked
        /\ n.out = s.out /\ n.count = m.count /\ SameForms(s, n) /\ SamePlan(s, n)
    BY <1>1, <1>2 DEF Managers, SameForms, SamePlan
  <1>4. OneErrand(n)
    BY <1>1, <1>3 DEF OneErrand
  <1>5. Sound(n)
    BY <1>1, <1>3, <1>4 DEF Sound, Busy, Planned, Apart, SameForms, SamePlan
  <1>6. QED
    BY <1>1, <1>3, <1>5 DEF n, SameForms, SamePlan

LEMMA ErrandsFinite ==
    ASSUME NEW m, Sound(m), NEW out \in SUBSET m.out
    PROVE  IsFiniteSet(out) /\ Cardinality(out) \in Nat
  <1> DEFINE f == [e \in out |-> e.at]
  <1>1. out \subseteq Errand
    BY DEF Sound, Managers
  <1>2. f \in [out -> Stamps]
    BY <1>1 DEF Errand
  <1>3. \A e, g \in out : f[e] = f[g] => e = g
    BY DEF Sound, Busy, OneErrand
  <1> HIDE DEF f
  <1>4. f \in Injection(out, Stamps)
    BY <1>2, <1>3 DEF Injection, IsInjective
  <1>5. IsFiniteSet(out)
    BY <1>4, LoopAssumption, FS_Injection
  <1>6. QED
    BY <1>5, FS_CardinalityType

(* The replies are filed and their errands are over. *)
LEMMA CompletedIs ==
    ASSUME NEW m, Sound(m)
    PROVE  LET n == CompleteBatch(Completed(m))
           IN Sound(n) /\ Grows(m, n)
  <1> DEFINE over == Stage(m, Replies)
             archives == Stage(m, {"archive", "volume"})
             volumes == Stage(m, {"volume"})
             cleared == CompleteDownload(m, over)
             filed == CacheArchive(cleared, archives)
             c == CacheScan(filed, volumes)
             replies == {e \in c.out : e.stage \in Replies}
             n == CompleteBatch(c)
  <1>1. over \in SUBSET Stamps /\ archives \in SUBSET Stamps /\ volumes \in SUBSET Stamps
    BY DEF Sound, Managers, Stage, Errand
  <1>2. \A a : a \in over <=> \E e \in m.out : e.stage \in Replies /\ e.at = a
    BY DEF Stage
  <1>3. Completed(m) = c
    BY DEF Completed
  <1> HIDE DEF over, archives, volumes
  <1>4. /\ cleared \in Managers /\ cleared.marked = m.marked \ over
        /\ cleared.reserved = m.reserved \ over /\ cleared.count = m.count /\ cleared.out = m.out
        /\ SameForms(m, cleared) /\ SamePlan(m, cleared)
    BY DEF CompleteDownload, Sound, Managers, SameForms, SamePlan
  <1> HIDE DEF cleared
  <1>5. /\ filed \in Managers /\ filed.decoded = cleared.decoded /\ filed.known = cleared.known
        /\ filed.heap = cleared.heap \cup archives /\ filed.spilled = cleared.spilled \ archives
        /\ SameWork(cleared, filed) /\ SamePlan(cleared, filed)
    BY <1>1, <1>4, CacheArchiveIs
  <1> HIDE DEF filed
  <1>6. /\ c \in Managers /\ c.decoded = filed.decoded \cup volumes
        /\ c.known = filed.known \cup volumes /\ c.heap = filed.heap /\ c.spilled = filed.spilled
        /\ SameWork(filed, c) /\ SamePlan(filed, c)
    BY <1>1, <1>5, CacheScanIs
  <1> HIDE DEF c
  <1>7. c.out = m.out /\ c.marked = m.marked \ over /\ c.reserved = m.reserved \ over /\ c.count = m.count
    BY <1>4, <1>5, <1>6 DEF SameWork
  <1>8. Grows(m, c) /\ SamePlan(m, c) /\ Apart(c)
    BY <1>4, <1>5, <1>6 DEF Grows, SamePlan, SameForms, Apart, Held, Sound
  <1>9. Cardinality(replies) \in Nat
    BY <1>7, ErrandsFinite
  <1>10. n = [c EXCEPT !.count = Less(@, Cardinality(replies)), !.out = @ \ replies]
    BY DEF CompleteBatch
  <1>11. Less(c.count, Cardinality(replies)) \in Nat /\ Less(c.count, Cardinality(replies)) <= Cap
    BY <1>6, <1>7, <1>9, LoopAssumption DEF Less, Managers, Sound, Busy
  <1> HIDE DEF replies, n
  <1>12. /\ n \in Managers /\ n.out = m.out \ replies /\ n.marked = m.marked \ over
         /\ n.reserved = m.reserved \ over /\ n.count <= Cap
         /\ SameForms(c, n) /\ SamePlan(c, n)
    BY <1>6, <1>7, <1>10, <1>11 DEF Managers, SameForms, SamePlan
  <1>13. \A e \in m.out : e \in replies <=> e.stage \in Replies
    BY <1>7 DEF replies
  <1>14. OneErrand(n)
    BY <1>2, <1>12, <1>13 DEF Sound, Busy, OneErrand
  <1>15. Sound(n) /\ Grows(m, n)
    BY <1>8, <1>12, <1>14 DEF Sound, Busy, Planned, Apart, Grows, Held, SameForms, SamePlan
  <1>16. QED
    BY <1>3, <1>15 DEF n

LEMMA DecodesAre ==
    ASSUME NEW m, Sound(m), m.plan # None, m.count < Cap
    PROVE  /\ DecodesNow(m) \in SUBSET Stamps /\ DecodesNow(m) \cap m.marked = {}
           /\ Cardinality(DecodesNow(m)) \in Nat
           /\ m.count + Cardinality(DecodesNow(m)) <= Cap
  <1> DEFINE slots == Less(Cap, m.count)
             room == Less(DecodedCeiling, Committed(m))
             k == IF slots < room THEN slots ELSE room
             S == Offers(m)
             rank(a) == Nearness(m, a)
             ahead == Nearer(m)
  <1>1. S \in SUBSET Stamps /\ S \cap m.marked = {}
    BY DEF Offers, NeedsDecode, Held, Sound, Managers
  <1>2. \A a \in S : rank(a) \in Nat /\ a \in Nat
    <2> SUFFICES ASSUME NEW a \in S PROVE rank(a) \in Nat /\ a \in Nat
      OBVIOUS
    <2>1. a \in Nat
      BY <1>1, LoopAssumption
    <2>2. CASE m.wants = None \/ a \notin m.plan
      BY <2>1, <2>2 DEF Nearness
    <2>3. CASE m.wants # None /\ a \in m.plan
      <3>1. a \in DOMAIN m.wants
        BY <2>3 DEF Offers
      <3>2. \E D \in SUBSET Stamps : m.wants \in [D -> Nat]
        BY <2>3 DEF Sound, Managers, Wants
      <3>3. QED
        BY <2>1, <2>3, <3>1, <3>2 DEF Nearness
    <2>4. QED
      BY <2>2, <2>3
  <1>3. slots \in Nat /\ slots = Cap - m.count /\ Cap \in Nat /\ m.count \in Nat
    BY LoopAssumption DEF Less, Sound, Managers
  <1>4. room \in Nat
    <2>1. m.decoded \in SUBSET Stamps /\ m.reserved \in SUBSET Stamps
      BY DEF Sound, Managers
    <2>2. Cardinality(m.decoded) \in Nat /\ Cardinality(m.reserved) \in Nat
      BY <2>1, StampSets
    <2>3. Committed(m) \in Nat
      BY <2>2 DEF Committed
    <2>4. QED
      BY <2>3, LoopAssumption DEF Less
  <1>5. k \in Nat /\ k <= Cap - m.count
    BY <1>3, <1>4
  <1>6. \A a \in S : ahead[a] =
           {b \in S : \/ b \in m.plan /\ a \notin m.plan
                      \/ /\ b \in m.plan <=> a \in m.plan
                         /\ rank(b) < rank(a) \/ (rank(b) = rank(a) /\ b < a)}
    BY DEF Nearer
  <1>7. DecodesNow(m) = First(S, ahead, k)
    BY DEF DecodesNow
  <1> HIDE DEF S, rank, ahead, slots, room, k
  <1>8. \A a \in S : a \notin ahead[a]
    BY <1>2, <1>6
  <1>9. \A a, b \in S : a # b => a \in ahead[b] \/ b \in ahead[a]
    BY <1>2, <1>6
  <1>10. \A a, b \in S : a \in ahead[b] => S \cap ahead[a] \subseteq ahead[b]
    <2> SUFFICES ASSUME NEW a \in S, NEW b \in S, a \in ahead[b], NEW c \in S, c \in ahead[a]
                 PROVE  c \in ahead[b]
      OBVIOUS
    <2>1. QED
      BY <1>2, <1>6
  <1>11. First(S, ahead, k) \subseteq S /\ Cardinality(First(S, ahead, k)) <= k
    BY <1>1, <1>5, <1>8, <1>9, <1>10, FirstCount
  <1>12. Cardinality(First(S, ahead, k)) \in Nat
    BY <1>1, <1>11, StampSets
  <1>13. QED
    BY <1>1, <1>3, <1>5, <1>7, <1>11, <1>12

LEMMA BatchIs ==
    ASSUME NEW m, Sound(m), NEW slots \in Nat, NEW listed
    PROVE  /\ Batch(m, slots) \in SUBSET m.queue /\ Batch(m, slots) \cap m.marked = {}
           /\ Cardinality(Batch(m, slots) \cap listed) \in Nat
           /\ Cardinality(Batch(m, slots) \cap listed) <= slots
  <1> DEFINE S == m.queue \ Spare(m)
             B == Batch(m, slots)
  <1>1. S \in SUBSET Stamps /\ \A a \in Stamps : a \in Nat
    BY LoopAssumption DEF Sound, Managers
  <1>2. \A a \in S : Older[a] = {b \in Stamps : b < a}
    BY <1>1 DEF Older
  <1> HIDE DEF S
  <1>3. /\ \A a \in S : a \notin Older[a]
        /\ \A a, b \in S : a # b => a \in Older[b] \/ b \in Older[a]
        /\ \A a, b \in S : a \in Older[b] => S \cap Older[a] \subseteq Older[b]
    BY <1>1, <1>2
  <1>4. B = First(S, Older, slots)
    BY DEF Batch, S
  <1>5. B \subseteq S /\ Cardinality(B) <= slots
    BY <1>1, <1>3, <1>4, FirstCount
  <1>6. B \in SUBSET Stamps /\ B \cap listed \in SUBSET Stamps
    BY <1>1, <1>5
  <1>7. Cardinality(B) \in Nat /\ Cardinality(B \cap listed) \in Nat /\ IsFiniteSet(B)
    BY <1>6, StampSets
  <1>8. B \cap listed \in SUBSET B
    OBVIOUS
  <1> HIDE DEF B
  <1>9. Cardinality(B \cap listed) <= Cardinality(B)
    BY <1>7, <1>8, FS_Subset
  <1>10. B \in SUBSET m.queue /\ B \cap m.marked = {}
    BY <1>5 DEF S, Spare
  <1>11. QED
    BY <1>5, <1>7, <1>9, <1>10 DEF B

(* The pump takes slots that are free, for stamps without an errand. *)
LEMMA PumpIs ==
    ASSUME NEW m, Sound(m), Pump(m)
    PROVE  Sound(mgr') /\ SameForms(m, mgr')
  <1>1. CASE m.plan = None \/ m.count >= Cap
    BY <1>1 DEF Pump, SameForms
  <1>2. CASE ~(m.plan = None \/ m.count >= Cap)
    <2> DEFINE decodes == DecodesNow(m)
               d == SendDecodes(m, decodes)
               slots == Cap - m.count - Cardinality(decodes)
               batch == Batch(d, slots)
               s == Send(d, batch \cap Named, "fetch")
    <2>1. mgr' = [s EXCEPT !.queue = Left(d, batch, slots),
                           !.count = @ + Cardinality(batch \cap Named)]
      BY <1>2 DEF Pump
    <2>2. m.count \in Nat /\ Cap \in Nat
      BY LoopAssumption DEF Sound, Managers
    <2>3. /\ decodes \in SUBSET Stamps /\ decodes \cap m.marked = {}
          /\ Cardinality(decodes) \in Nat /\ m.count + Cardinality(decodes) <= Cap
      BY <1>2, <2>2, DecodesAre
    <2>4. slots \in Nat
      BY <2>2, <2>3
    <2>5. Sound(d) /\ d.count = m.count /\ SameForms(m, d)
      BY <2>3, SendDecodesIs
    <2> HIDE DEF decodes, d
    <2>6. /\ batch \in SUBSET d.queue /\ batch \cap d.marked = {}
          /\ Cardinality(batch \cap Named) \in Nat /\ Cardinality(batch \cap Named) <= slots
      BY <2>4, <2>5, BatchIs
    <2>7. Left(d, batch, slots) \subseteq d.queue
      BY DEF Left
    <2> HIDE DEF batch
    <2>8. batch \cap Named \in SUBSET Stamps /\ (batch \cap Named) \cap d.marked = {}
      BY <2>6, LoopAssumption
    <2>9. /\ s \in Managers /\ OneErrand(s) /\ s.marked = d.marked \cup (batch \cap Named)
          /\ s.reserved = d.reserved /\ s.count = d.count /\ SameForms(d, s) /\ SamePlan(d, s)
      BY <2>5, <2>8, SendIs DEF Sound, Busy
    <2> HIDE DEF s
    <2>10. /\ mgr' \in Managers /\ mgr'.queue \subseteq d.queue /\ mgr'.plan = d.plan
           /\ mgr'.count = m.count + Cardinality(batch \cap Named)
           /\ mgr'.out = s.out /\ mgr'.marked = s.marked /\ mgr'.reserved = d.reserved
           /\ SameForms(s, mgr')
      <3> DEFINE q == Left(d, batch, slots)
                 c == Cardinality(batch \cap Named)
      <3>1. mgr' = [s EXCEPT !.queue = q, !.count = @ + c]
        BY <2>1
      <3>2. q \subseteq s.queue /\ q \subseteq d.queue /\ c \in Nat /\ s.plan = d.plan
        BY <2>6, <2>7, <2>9 DEF SamePlan
      <3>3. s \in Managers /\ s.count = m.count /\ s.reserved = d.reserved
        BY <2>5, <2>9
      <3> HIDE DEF q, c
      <3>4. mgr' = [s EXCEPT !.queue = q, !.count = m.count + c]
        BY <3>1, <3>3 DEF Managers
      <3>5. m.count + c \in Nat /\ q \in SUBSET Stamps
        BY <2>2, <3>2, <3>3 DEF Managers
      <3>6. QED
        BY <3>2, <3>3, <3>4, <3>5 DEF Managers, SameForms, c
    <2>11. mgr'.count <= Cap
      BY <2>2, <2>3, <2>4, <2>6, <2>10
    <2>12. Busy(mgr')
      BY <2>5, <2>9, <2>10, <2>11 DEF Sound, Busy, OneErrand
    <2>13. Planned(mgr')
      BY <2>5, <2>10 DEF Sound, Planned
    <2>14. SameForms(m, mgr')
      BY <2>5, <2>9, <2>10 DEF SameForms
    <2>15. Apart(mgr')
      BY <2>14 DEF Sound, Apart, SameForms
    <2>16. QED
      BY <2>10, <2>12, <2>13, <2>14, <2>15 DEF Sound
  <1>3. QED
    BY <1>1, <1>2

(* Plans. *)
LEMMA PlanIs ==
    ASSUME NoneIsNothing, NEW m, Sound(m), NEW frames \in SUBSET Stamps
    PROVE  Sound(Plan(m, frames)) /\ SameForms(m, Plan(m, frames))
  <1>1. frames # None
    BY DEF NoneIsNothing
  <1>2. Plan(m, frames) = [m EXCEPT !.plan = frames, !.queue = frames]
    BY DEF Plan
  <1>3. QED
    BY <1>1, <1>2 DEF Sound, Managers, Busy, OneErrand, Planned, Apart, SameForms

LEMMA ReplanIs ==
    ASSUME NEW m, Sound(m), m.plan # None
    PROVE  Sound(Replan(m)) /\ SameForms(m, Replan(m))
  <1>1. Replan(m) = [m EXCEPT !.queue = m.plan]
    BY DEF Replan
  <1>2. QED
    BY <1>1 DEF Sound, Managers, Busy, OneErrand, Planned, Apart, SameForms

LEMMA RemovePendingIs ==
    ASSUME NEW m, Sound(m)
    PROVE  Sound(RemovePending(m)) /\ SameForms(m, RemovePending(m))
  <1>1. RemovePending(m) = [m EXCEPT !.plan = None, !.queue = {}]
    BY DEF RemovePending
  <1>2. QED
    BY <1>1 DEF Sound, Managers, Busy, OneErrand, Planned, Apart, SameForms

-----------------------------------------------------------------------------
(* The sweep's operations, each of which takes forms away. *)

LEMMA RetainPlanFramesIs ==
    ASSUME NoneIsNothing, NEW m, Sound(m), NEW kept
    PROVE  LET n == RetainPlanFrames(m, kept)
           IN Sound(n) /\ SameForms(m, n) /\ SameWork(m, n)
  <1>1. CASE m.plan = None
    BY <1>1 DEF RetainPlanFrames, SameForms, SameWork
  <1>2. CASE m.plan # None
    <2>1. RetainPlanFrames(m, kept) = [m EXCEPT !.plan = @ \cap kept, !.queue = @ \cap kept]
      BY <1>2 DEF RetainPlanFrames
    <2>2. m.plan \in SUBSET Stamps /\ m.plan \cap kept # None
      BY <1>2 DEF Sound, Managers, NoneIsNothing
    <2> DEFINE n == RetainPlanFrames(m, kept)
    <2> HIDE DEF n
    <2>3. /\ n \in Managers /\ SameForms(m, n) /\ SameWork(m, n)
          /\ n.plan = m.plan \cap kept /\ n.queue = m.queue \cap kept
      <3>1. n = [m EXCEPT !.plan = m.plan \cap kept, !.queue = m.queue \cap kept]
        BY <2>1 DEF n
      <3>2. m \in Managers /\ m.plan \cap kept \in SUBSET Stamps /\ m.queue \cap kept \in SUBSET Stamps
        BY <2>2 DEF Sound, Managers
      <3>3. QED
        BY <3>1, <3>2 DEF Managers, SameForms, SameWork
    <2>4. Planned(n)
      BY <1>2, <2>2, <2>3 DEF Sound, Planned
    <2>5. Busy(n) /\ Apart(n)
      BY <2>3 DEF Sound, Busy, OneErrand, Apart, SameForms, SameWork
    <2>6. QED
      BY <2>3, <2>4, <2>5 DEF Sound, n
  <1>3. QED
    BY <1>1, <1>2

LEMMA RetainArchivesIs ==
    ASSUME NEW m, Sound(m), NEW kept
    PROVE  LET n == RetainArchives(m, kept)
           IN /\ Sound(n) /\ SameWork(m, n) /\ SamePlan(m, n) /\ n.decoded = m.decoded
              /\ n.heap \subseteq m.heap /\ Held(n) = Held(m) \cap kept
              /\ n.known = m.known \ (Held(m) \ kept)
  <1> DEFINE n == RetainArchives(m, kept)
  <1>1. n = [m EXCEPT !.heap = @ \cap kept, !.spilled = @ \cap kept,
                      !.known = @ \ (Held(m) \ kept)]
    BY DEF RetainArchives
  <1> HIDE DEF n
  <1>2. /\ n \in Managers /\ SameWork(m, n) /\ SamePlan(m, n) /\ n.decoded = m.decoded
        /\ n.heap = m.heap \cap kept /\ n.spilled = m.spilled \cap kept
        /\ n.known = m.known \ (Held(m) \ kept)
    BY <1>1 DEF Sound, Managers, SameWork, SamePlan
  <1>3. Sound(n)
    BY <1>2 DEF Sound, Busy, OneErrand, Planned, Apart, SameWork, SamePlan
  <1>4. QED
    BY <1>2, <1>3 DEF n, Held

(* Of the volumes of a site, those that are decoded change, and nothing else. *)
Redecoded(m, n) == /\ Sound(n) /\ SameWork(m, n) /\ SamePlan(m, n)
                   /\ n.heap = m.heap /\ n.spilled = m.spilled /\ n.known = m.known

LEMMA DecodedChanges ==
    ASSUME NEW m, Sound(m), NEW D \in SUBSET Stamps
    PROVE  LET n == [m EXCEPT !.decoded = D] IN Redecoded(m, n) /\ n.decoded = D
  BY DEF Redecoded, Sound, Managers, Busy, OneErrand, Planned, Apart, SameWork, SamePlan

LEMMA RetainScansIs ==
    ASSUME NEW m, Sound(m), NEW kept
    PROVE  LET n == RetainScans(m, kept)
           IN Redecoded(m, n) /\ n.decoded = m.decoded \cap kept
  <1>1. RetainScans(m, kept) = [m EXCEPT !.decoded = m.decoded \cap kept]
    BY DEF RetainScans
  <1>2. m.decoded \cap kept \in SUBSET Stamps
    BY DEF Sound, Managers
  <1>3. QED
    BY <1>1, <1>2, DecodedChanges

LEMMA EvictDecodedExceptIs ==
    ASSUME NEW m, Sound(m), NEW kept
    PROVE  LET n == EvictDecodedExcept(m, kept)
           IN Redecoded(m, n) /\ n.decoded = m.decoded \ (Held(m) \ kept)
  <1> DEFINE D == m.decoded \ (Held(m) \ kept)
  <1>1. EvictDecodedExcept(m, kept) = [m EXCEPT !.decoded = D]
    BY DEF EvictDecodedExcept
  <1>2. D \in SUBSET Stamps
    BY DEF Sound, Managers
  <1>3. QED
    BY <1>1, <1>2, DecodedChanges

LEMMA EvictDecodedToCeilingIs ==
    ASSUME NEW m, Sound(m), NEW rank, NEW pinned
    PROVE  LET n == EvictDecodedToCeiling(m, rank, pinned)
           IN Redecoded(m, n) /\ n.decoded \subseteq m.decoded /\ m.decoded \ Held(m) \subseteq n.decoded
  <1> DEFINE leaving == First((m.decoded \cap Held(m)) \ pinned, Further(rank),
                              Less(Cardinality(m.decoded), DecodedCeiling))
             D == m.decoded \ leaving
  <1>1. EvictDecodedToCeiling(m, rank, pinned) = [m EXCEPT !.decoded = D]
    BY DEF EvictDecodedToCeiling
  <1>2. leaving \subseteq Held(m)
    BY DEF First
  <1>3. D \in SUBSET Stamps
    BY DEF Sound, Managers
  <1> HIDE DEF leaving
  <1>4. QED
    BY <1>1, <1>2, <1>3, DecodedChanges

(* Archives are dropped from the heap only, from what is not pinned, and only when the *)
(* heap is over its ceiling.                                                           *)
LEMMA EvictArchivesToCeilingIs ==
    ASSUME NEW m, Sound(m), NEW rank, NEW pinned
    PROVE  LET n == EvictArchivesToCeiling(m, rank, pinned)
           IN /\ Sound(n) /\ SameWork(m, n) /\ SamePlan(m, n) /\ n.decoded = m.decoded
              /\ Held(n) \subseteq Held(m) /\ Held(m) \cap pinned \subseteq Held(n)
              /\ n.known \subseteq m.known
              /\ \A a \in m.known : a \in pinned => a \in n.known
              /\ Held(n) = Held(m) \/ Cardinality(m.heap) > ArchiveCeiling
  <1> DEFINE over == Less(Cardinality(m.heap), ArchiveCeiling)
             room == Less(SpillCeiling, Cardinality(m.spilled))
             k == IF over < room THEN over ELSE room
             S == m.heap \ pinned
             leaving == First(S, Further(rank), over)
             spilling == First(S, Further(rank), k)
             n == EvictArchivesToCeiling(m, rank, pinned)
  <1>1. n = [m EXCEPT !.heap = @ \ leaving, !.spilled = @ \cup spilling,
                      !.known = @ \ (leaving \ spilling)]
    BY DEF EvictArchivesToCeiling
  <1>2. S \in SUBSET Stamps /\ m.heap \in SUBSET Stamps /\ m.spilled \in SUBSET Stamps
    BY DEF Sound, Managers
  <1>3. Cardinality(m.heap) \in Nat /\ Cardinality(m.spilled) \in Nat
    BY <1>2, StampSets
  <1>4. over \in Nat /\ (over # 0 => Cardinality(m.heap) > ArchiveCeiling)
    BY <1>3, LoopAssumption DEF Less
  <1>5. room \in Nat
    BY <1>3, LoopAssumption DEF Less
  <1>6. k \in Nat /\ k <= over
    BY <1>4, <1>5
  <1> HIDE DEF over, room, k
  <1>7. spilling \subseteq leaving /\ leaving \subseteq S /\ (over = 0 => leaving = {})
    BY <1>2, <1>4, <1>6, FirstPart
  <1> HIDE DEF leaving, spilling, n
  <1>8. /\ n \in Managers /\ SameWork(m, n) /\ SamePlan(m, n) /\ n.decoded = m.decoded
        /\ n.heap = m.heap \ leaving /\ n.spilled = m.spilled \cup spilling
        /\ n.known = m.known \ (leaving \ spilling)
    BY <1>1, <1>7 DEF Sound, Managers, SameWork, SamePlan
  <1>9. Sound(n)
    BY <1>7, <1>8 DEF Sound, Busy, OneErrand, Planned, Apart, SameWork, SamePlan
  <1>10. Held(n) = Held(m) \ (leaving \ spilling)
    BY <1>7, <1>8 DEF Sound, Apart, Held
  <1>11. QED
    BY <1>4, <1>7, <1>8, <1>9, <1>10 DEF n

-----------------------------------------------------------------------------
(* What every state keeps to. *)

FramesOK ==
    /\ list \in SUBSET Stamps /\ textured \in SUBSET list
    /\ loop \in {"off", "settling", "overdue", "listed"}
    /\ loop = "off" => list = {}
    /\ playhead \in list \/ (list = {} /\ playhead = None)
BaseOK ==
    /\ parked \in {None} \cup Nat
    /\ base \in {None} \cup [at : Nat, whole : BOOLEAN]
WayOpen(m, time) == \E a \in Held(m) \cap m.known : CollectedAt[a] = time
LoopInv ==
    /\ Sound(mgr) /\ FramesOK /\ BaseOK
    /\ Released => WayOpen(mgr, base.at)

(* A way back is an archive that ArchiveForIdentity finds. *)
LEMMA WayIsFound ==
    ASSUME NoneIsNothing, NEW m, Sound(m), NEW time
    PROVE  ArchiveForIdentity(m, time) # None <=> WayOpen(m, time)
  <1> DEFINE found == {a \in Held(m) \cap m.known : CollectedAt[a] = time}
  <1>1. found \in SUBSET Stamps
    BY DEF Sound, Managers, Held
  <1>2. ArchiveForIdentity(m, time) = IF found = {} THEN None ELSE Min(found)
    BY DEF ArchiveForIdentity
  <1>3. found # {} <=> WayOpen(m, time)
    BY DEF WayOpen
  <1> HIDE DEF found
  <1>4. ASSUME found # {} PROVE Min(found) # None
    <2>1. Min(found) \in Stamps
      BY <1>1, <1>4, MinIn
    <2>2. QED
      BY <2>1, LoopAssumption DEF NoneIsNothing
  <1>5. QED
    BY <1>2, <1>3, <1>4

LEMMA WayStaysOpen ==
    ASSUME NEW m, NEW n, NEW time, Grows(m, n), WayOpen(m, time)
    PROVE  WayOpen(n, time)
  BY DEF Grows, WayOpen

LEMMA AheadIsNatural ==
    ASSUME FramesOK, list # {}, NEW f \in list PROVE Ahead(f) \in Nat
  <1> DEFINE I(a) == {b \in list : b < a}
  <1>1. IsFiniteSet(list) /\ Cardinality(list) \in Nat
    BY StampSets DEF FramesOK
  <1>2. Cardinality(list) # 0
    BY <1>1, FS_EmptySet
  <1>3. \A a : I(a) \in SUBSET list /\ I(a) \in SUBSET Stamps
    BY DEF FramesOK
  <1>4. \A a : Cardinality(I(a)) \in Nat /\ Cardinality(I(a)) <= Cardinality(list)
    <2> HIDE DEF I
    <2>1. QED
      BY <1>1, <1>3, FS_Subset, StampSets
  <1>5. Ahead(f) = (Cardinality(I(f)) + Cardinality(list) - Cardinality(I(playhead))) % Cardinality(list)
    BY DEF Ahead
  <1> HIDE DEF I
  <1>6. Cardinality(I(f)) + Cardinality(list) - Cardinality(I(playhead)) \in Nat
    BY <1>1, <1>4
  <1>7. QED
    BY <1>1, <1>2, <1>5, <1>6

LEMMA PublishedIs ==
    ASSUME FramesOK, Sound(mgr)
    PROVE  LET n == Published(mgr, Wanted)
           IN Sound(n) /\ SameForms(mgr, n) /\ SameWork(mgr, n)
  <1> DEFINE w == IF loop = "off" THEN None ELSE [f \in Wanted |-> Ahead(f)]
             n == Published(mgr, Wanted)
  <1>1. w \in Wants
    <2>1. Wanted \in SUBSET list /\ Wanted \in SUBSET Stamps
      BY DEF Wanted, FramesOK
    <2>2. \A f \in Wanted : Ahead(f) \in Nat
      BY <2>1, AheadIsNatural
    <2>3. [f \in Wanted |-> Ahead(f)] \in [Wanted -> Nat]
      BY <2>2
    <2> HIDE DEF Wanted
    <2>4. QED
      BY <2>1, <2>3 DEF Wants
  <1>2. n = [mgr EXCEPT !.wants = w]
    BY DEF Published
  <1> HIDE DEF w, n
  <1>3. /\ n \in Managers /\ SameForms(mgr, n) /\ SameWork(mgr, n)
        /\ n.plan = mgr.plan /\ n.queue = mgr.queue
    BY <1>1, <1>2 DEF Sound, Managers, SameForms, SameWork
  <1>4. Sound(n)
    BY <1>3 DEF Sound, Busy, OneErrand, Planned, Apart, SameForms, SameWork
  <1>5. QED
    BY <1>3, <1>4 DEF n

(* What the sweep leaves: the manager sound, the way back of a released base open, and  *)
(* of each frame of the list a form, unless the archives are over their ceiling.        *)
Swept == Bounded(EvictDecodedExcept(Retained(Published(mgr, Wanted), Kept(WayBack)), Pinned \cup Wanted),
                 Distance, Pinned, WayBack)
KeepsForms(m, n) ==
    \A a \in list :
        /\ a \in m.decoded /\ a \notin Held(m) => a \in n.decoded /\ a \notin Held(n)
        /\ a \in Held(m) => \/ a \in Held(n)
                            \/ Cardinality(m.heap) > ArchiveCeiling

LEMMA SweptIs ==
    ASSUME NoneIsNothing, LoopInv
    PROVE  /\ Sound(Swept) /\ KeepsForms(mgr, Swept)
           /\ Released => WayOpen(Swept, base.at)
  <1> DEFINE published == Published(mgr, Wanted)
             planned == RetainPlanFrames(published, Keep)
             keep == Kept(WayBack)
             archived == RetainArchives(planned, keep)
             only == IF loop = "off" THEN Parked ELSE Keep
             kept == RetainScans(archived, only)
             traded == EvictDecodedExcept(kept, Pinned \cup Wanted)
             decoded == EvictDecodedToCeiling(traded, Distance, Pinned)
             swept == EvictArchivesToCeiling(decoded, Distance, WayBack)
  <1>1. Swept = swept
    BY DEF Swept, Bounded, Retained
  <1>2. Sound(published) /\ SameForms(mgr, published)
    BY PublishedIs DEF LoopInv
  <1> HIDE DEF published
  <1>3. Sound(planned) /\ SameForms(published, planned)
    BY <1>2, RetainPlanFramesIs
  <1> HIDE DEF planned
  <1>4. /\ Sound(archived) /\ archived.decoded = planned.decoded /\ archived.heap \subseteq planned.heap
        /\ Held(archived) = Held(planned) \cap keep
        /\ archived.known = planned.known \ (Held(planned) \ keep)
    BY <1>3, RetainArchivesIs
  <1> HIDE DEF archived
  <1>5. Redecoded(archived, kept) /\ kept.decoded = archived.decoded \cap only
    BY <1>4, RetainScansIs
  <1> HIDE DEF kept
  <1>6. Redecoded(kept, traded) /\ kept.decoded \ Held(kept) \subseteq traded.decoded
    BY <1>5, EvictDecodedExceptIs DEF Redecoded
  <1> HIDE DEF traded
  <1>7. Redecoded(traded, decoded) /\ traded.decoded \ Held(traded) \subseteq decoded.decoded
    BY <1>6, EvictDecodedToCeilingIs DEF Redecoded
  <1> HIDE DEF decoded
  <1>8. /\ Sound(swept) /\ swept.decoded = decoded.decoded
        /\ Held(swept) \subseteq Held(decoded) /\ Held(decoded) \cap WayBack \subseteq Held(swept)
        /\ \A a \in decoded.known : a \in WayBack => a \in swept.known
        /\ Held(swept) = Held(decoded) \/ Cardinality(decoded.heap) > ArchiveCeiling
    BY <1>7, EvictArchivesToCeilingIs DEF Redecoded
  <1> HIDE DEF swept
  <1>9. Held(decoded) = Held(archived) /\ decoded.known = archived.known /\ decoded.heap = archived.heap
    BY <1>5, <1>6, <1>7 DEF Redecoded, Held
  <1>10. Held(kept) = Held(archived) /\ Held(traded) = Held(archived)
    BY <1>5, <1>6 DEF Redecoded, Held
  <1>11. /\ Held(planned) = Held(mgr) /\ planned.decoded = mgr.decoded
         /\ planned.known = mgr.known /\ planned.heap = mgr.heap
    BY <1>2, <1>3 DEF SameForms, Held
  <1>12. Cardinality(decoded.heap) > ArchiveCeiling => Cardinality(mgr.heap) > ArchiveCeiling
    <2>1. mgr.heap \in SUBSET Stamps /\ decoded.heap \in SUBSET mgr.heap
      BY <1>4, <1>9, <1>11 DEF LoopInv, Sound, Managers
    <2>2. decoded.heap \in SUBSET Stamps
      BY <2>1
    <2>3. /\ IsFiniteSet(mgr.heap) /\ Cardinality(mgr.heap) \in Nat
          /\ Cardinality(decoded.heap) \in Nat
      BY <2>1, <2>2, StampSets
    <2>4. Cardinality(decoded.heap) <= Cardinality(mgr.heap)
      BY <2>1, <2>3, FS_Subset
    <2>5. QED
      BY <2>3, <2>4, LoopAssumption
  <1>13. list \subseteq keep /\ list \subseteq Keep /\ (loop = "off" => list = {}) /\ WayBack \subseteq keep
    BY DEF Kept, Keep, Needed, LoopInv, FramesOK
  <1>14. KeepsForms(mgr, swept)
    <2> SUFFICES ASSUME NEW a \in list
                 PROVE  /\ a \in mgr.decoded /\ a \notin Held(mgr) => a \in swept.decoded /\ a \notin Held(swept)
                        /\ a \in Held(mgr) => a \in Held(swept) \/ Cardinality(mgr.heap) > ArchiveCeiling
      BY DEF KeepsForms
    <2>1. a \in keep /\ a \in only
      BY <1>13
    <2>2. QED
      BY <1>4, <1>5, <1>6, <1>7, <1>8, <1>9, <1>10, <1>11, <1>12, <2>1
  <1>15. Released => WayOpen(swept, base.at)
    <2> SUFFICES ASSUME Released PROVE WayOpen(swept, base.at)
      OBVIOUS
    <2>1. PICK a \in Held(mgr) \cap mgr.known : CollectedAt[a] = base.at
      BY DEF LoopInv, WayOpen
    <2>2. a \in WayBack
      BY <2>1 DEF WayBack, With
    <2>3. a \in Held(swept) \cap swept.known
      BY <1>4, <1>8, <1>9, <1>11, <1>13, <2>1, <2>2
    <2>4. QED
      BY <2>1, <2>3 DEF WayOpen
  <1>16. QED
    BY <1>1, <1>8, <1>14, <1>15

-----------------------------------------------------------------------------
(* One lemma for each action. *)

KeepsStep ==
    \A a \in list \cap list' :
        /\ a \in mgr.decoded /\ a \notin Held(mgr) => a \in mgr'.decoded
        /\ a \in Held(mgr) => \/ a \in mgr'.decoded \cup Held(mgr')
                              \/ Cardinality(mgr.heap) > ArchiveCeiling
Step == LoopInv' /\ KeepsStep
BaseKept == BaseOK' /\ (Released' => Released /\ base'.at = base.at)

LEMMA SameGrows == ASSUME NEW m, NEW n, SameForms(m, n) PROVE Grows(m, n)
  BY DEF SameForms, Grows, Held

LEMMA GrowsOn ==
    ASSUME NEW m, NEW n, NEW o, Grows(m, n), SameForms(n, o) PROVE Grows(m, o)
  BY DEF SameForms, Grows, Held

LEMMA GrowingStep ==
    ASSUME LoopInv, Sound(mgr'), Grows(mgr, mgr'), FramesOK', BaseKept
    PROVE  Step
  <1>1. KeepsStep
    BY DEF KeepsStep, Grows
  <1>2. ASSUME Released' PROVE WayOpen(mgr', base'.at)
    <2>1. Released /\ base'.at = base.at
      BY <1>2 DEF BaseKept
    <2>2. QED
      BY <2>1, WayStaysOpen DEF LoopInv
  <1>3. LoopInv'
    BY <1>2 DEF LoopInv, BaseKept
  <1>4. QED
    BY <1>1, <1>3 DEF Step

LEMMA SameBase ==
    ASSUME LoopInv, UNCHANGED <<parked, baseVars>> PROVE BaseKept
  BY DEF LoopInv, BaseKept, BaseOK, baseVars, Released

LEMMA SameFrames ==
    ASSUME LoopInv, UNCHANGED loopVars PROVE FramesOK'
  BY DEF LoopInv, FramesOK, loopVars

LEMMA EvictUnshownStep == ASSUME NoneIsNothing, LoopInv, EvictUnshown PROVE Step
  <1>1. PICK owed \in BOOLEAN :
           LET releases == Releasable(Swept, owed)
           IN /\ mgr' = IF releases THEN Release(Swept) ELSE Swept
              /\ base' = IF releases THEN [base EXCEPT !.whole = FALSE] ELSE base
              /\ UNCHANGED <<loopVars, parked>>
    BY DEF EvictUnshown, Swept
  <1>2. Sound(Swept) /\ KeepsForms(mgr, Swept) /\ (Released => WayOpen(Swept, base.at))
    BY SweptIs
  <1>3. FramesOK'
    BY <1>1, SameFrames
  <1>4. CASE ~Releasable(Swept, owed)
    <2>1. mgr' = Swept /\ base' = base /\ parked' = parked
      BY <1>1, <1>4
    <2>2. KeepsStep
      BY <1>2, <2>1 DEF KeepsStep, KeepsForms
    <2>3. BaseOK' /\ (Released' => WayOpen(mgr', base'.at))
      BY <1>2, <2>1 DEF LoopInv, BaseOK, Released
    <2>4. QED
      BY <1>2, <1>3, <2>1, <2>2, <2>3 DEF Step, LoopInv
  <1>5. CASE Releasable(Swept, owed)
    <2> DEFINE kept == Stamps \ {ArchiveForIdentity(Swept, base.at)}
    <2>1. mgr' = EvictDecodedExcept(Swept, kept) /\ base' = [base EXCEPT !.whole = FALSE] /\ parked' = parked
      BY <1>1, <1>5 DEF Release
    <2>2. ArchiveForIdentity(Swept, base.at) # None /\ base # None
      BY <1>5 DEF Releasable
    <2>3. WayOpen(Swept, base.at)
      BY <1>2, <2>2, WayIsFound
    <2> HIDE DEF kept
    <2>4. Redecoded(Swept, mgr') /\ mgr'.decoded = Swept.decoded \ (Held(Swept) \ kept)
      BY <1>2, <2>1, EvictDecodedExceptIs
    <2>5. Sound(mgr') /\ Held(mgr') = Held(Swept) /\ mgr'.known = Swept.known
      BY <2>4 DEF Redecoded, Held
    <2>6. base'.at = base.at /\ BaseOK'
      BY <2>1, <2>2 DEF LoopInv, BaseOK
    <2>7. WayOpen(mgr', base'.at)
      BY <2>3, <2>5, <2>6 DEF WayOpen
    <2>8. KeepsStep
      BY <1>2, <2>4, <2>5 DEF KeepsStep, KeepsForms
    <2>9. QED
      BY <1>3, <2>5, <2>6, <2>7, <2>8 DEF Step, LoopInv
  <1>6. QED
    BY <1>4, <1>5

(* An errand goes on to its next stage, with its stamp. *)
LEMMA GoesIs ==
    ASSUME Sound(mgr), NEW e \in mgr.out, NEW stage \in {"fetch", "decode"} \cup Replies,
           Goes(e, stage)
    PROVE  Sound(mgr') /\ SameForms(mgr, mgr')
  <1> DEFINE g == [e EXCEPT !.stage = stage]
  <1>1. e \in Errand
    BY DEF Sound, Managers
  <1>2. g \in Errand /\ g.at = e.at
    BY <1>1 DEF Errand
  <1> HIDE DEF g
  <1>3. mgr' = [mgr EXCEPT !.out = (mgr.out \ {e}) \cup {g}]
    BY DEF Goes, g
  <1>4. /\ mgr' \in Managers /\ mgr'.out = (mgr.out \ {e}) \cup {g}
        /\ mgr'.marked = mgr.marked /\ mgr'.reserved = mgr.reserved /\ mgr'.count = mgr.count
        /\ SameForms(mgr, mgr') /\ SamePlan(mgr, mgr')
    BY <1>2, <1>3 DEF Sound, Managers, SameForms, SamePlan
  <1>5. OneErrand(mgr')
    BY <1>2, <1>4 DEF Sound, Busy, OneErrand
  <1>6. QED
    BY <1>4, <1>5 DEF Sound, Busy, Planned, Apart, SameForms, SamePlan

LEMMA ErrandStep ==
    ASSUME LoopInv, NEW e \in mgr.out, NEW stage \in {"fetch", "decode"} \cup Replies,
           Goes(e, stage), UNCHANGED <<loopVars, parked, baseVars>>
    PROVE  Step
  <1>1. Sound(mgr') /\ SameForms(mgr, mgr')
    BY GoesIs DEF LoopInv
  <1>2. QED
    BY <1>1, SameGrows, SameBase, SameFrames, GrowingStep

LEMMA TakeStep == ASSUME LoopInv, NEW a \in Stamps, TakeLoopFrameArchive(a) PROVE Step
  <1>1. PICK e \in mgr.out :
           /\ Goes(e, "nothing") \/ Goes(e, IF RoomFor(mgr) THEN "decode" ELSE "archive")
           /\ UNCHANGED <<loopVars, parked, baseVars>>
    BY DEF TakeLoopFrameArchive
  <1>2. \E stage \in {"fetch", "decode"} \cup Replies : Goes(e, stage)
    BY <1>1 DEF Replies
  <1>3. QED
    BY <1>1, <1>2, ErrandStep

LEMMA DecodedStep ==
    ASSUME LoopInv, NEW a \in Stamps, Decoded(a) \/ DecodeLost(a) PROVE Step
  <1>1. \E e \in mgr.out, stage \in {"fetch", "decode"} \cup Replies :
           Goes(e, stage) /\ UNCHANGED <<loopVars, parked, baseVars>>
    BY DEF Decoded, DecodeLost, Replies
  <1>2. QED
    BY <1>1, ErrandStep

LEMMA PollStep == ASSUME LoopInv, PollResults PROVE Step
  <1> DEFINE m == CompleteBatch(Completed(mgr))
  <1>1. Sound(m) /\ Grows(mgr, m)
    BY CompletedIs DEF LoopInv
  <1>2. /\ Pump(m) /\ UNCHANGED <<loopVars, parked>>
        /\ \/ base' = base
           \/ Released /\ base' = [base EXCEPT !.whole = TRUE]
    BY DEF PollResults
  <1> HIDE DEF m
  <1>3. Sound(mgr') /\ SameForms(m, mgr')
    BY <1>1, <1>2, PumpIs
  <1>4. Grows(mgr, mgr')
    BY <1>1, <1>3, GrowsOn
  <1>5. BaseKept
    BY <1>2 DEF LoopInv, BaseKept, BaseOK, Released
  <1>6. QED
    BY <1>2, <1>3, <1>4, <1>5, SameFrames, GrowingStep

LEMMA EnsureStep == ASSUME NoneIsNothing, LoopInv, EnsureBaseWhole PROVE Step
  <1> DEFINE address == ArchiveForIdentity(mgr, base.at)
             found == {a \in Held(mgr) \cap mgr.known : CollectedAt[a] = base.at}
  <1>1. Sound(mgr') /\ SameForms(mgr, mgr')
    <2>1. CASE address \in {None} \cup mgr.decoded \cup mgr.marked
      BY <2>1 DEF EnsureBaseWhole, LoopInv, SameForms
    <2>2. CASE address \notin {None} \cup mgr.decoded \cup mgr.marked
      <3>1. mgr' = SendDecodes(mgr, {address})
        BY <2>2 DEF EnsureBaseWhole
      <3>2. found \in SUBSET Stamps /\ address = IF found = {} THEN None ELSE Min(found)
        BY DEF ArchiveForIdentity, LoopInv, Sound, Managers, Held
      <3> HIDE DEF found, address
      <3>3. address \in Stamps
        BY <2>2, <3>2, MinIn
      <3>4. {address} \in SUBSET Stamps /\ {address} \cap mgr.marked = {}
        BY <2>2, <3>3
      <3>5. QED
        BY <3>1, <3>4, SendDecodesIs DEF LoopInv
    <2>3. QED
      BY <2>1, <2>2
  <1>2. /\ UNCHANGED <<loopVars, parked>>
        /\ base' = base \/ (Released /\ base' = [base EXCEPT !.whole = TRUE])
    BY DEF EnsureBaseWhole
  <1>3. BaseKept
    BY <1>2 DEF LoopInv, BaseKept, BaseOK, Released
  <1>4. QED
    BY <1>1, <1>2, <1>3, SameGrows, SameFrames, GrowingStep

(* A plan is made, and the pump works it off. *)
LEMMA PlannedStep ==
    ASSUME NoneIsNothing, LoopInv, NEW frames \in SUBSET Stamps, Pump(Plan(mgr, frames)),
           FramesOK', UNCHANGED <<parked, baseVars>>
    PROVE  Step
  <1> DEFINE m == Plan(mgr, frames)
  <1>1. Sound(m) /\ SameForms(mgr, m)
    BY PlanIs DEF LoopInv
  <1> HIDE DEF m
  <1>2. Sound(mgr') /\ SameForms(m, mgr')
    BY <1>1, PumpIs DEF m
  <1>3. Grows(mgr, mgr')
    BY <1>1, <1>2, SameGrows, GrowsOn
  <1>4. QED
    BY <1>2, <1>3, SameBase, GrowingStep

LEMMA ListingStep == ASSUME NoneIsNothing, LoopInv, ListingLands PROVE Step
  <1>1. PICK frames \in (SUBSET Named) \ {{}} :
           /\ loop' = "listed" /\ list' = frames /\ textured' = {} /\ playhead' = Max(frames)
           /\ Pump(Plan(mgr, frames)) /\ UNCHANGED <<parked, baseVars>>
    BY DEF ListingLands
  <1>2. frames \in SUBSET Stamps /\ frames # {}
    BY LoopAssumption
  <1>3. Max(frames) \in frames
    BY <1>2, MaxIn
  <1>4. FramesOK'
    BY <1>1, <1>2, <1>3 DEF FramesOK
  <1>5. QED
    BY <1>1, <1>2, <1>4, PlannedStep

LEMMA RederiveStep == ASSUME NoneIsNothing, LoopInv, Rederive PROVE Step
  <1>1. Pump(Plan(mgr, list)) /\ UNCHANGED <<loopVars, parked, baseVars>>
    BY DEF Rederive
  <1>2. list \in SUBSET Stamps
    BY DEF LoopInv, FramesOK
  <1>3. QED
    BY <1>1, <1>2, SameFrames, PlannedStep

LEMMA RetargetStep == ASSUME LoopInv, Retarget PROVE Step
  <1>1. /\ UNCHANGED <<loop, list, playhead, parked, baseVars>> /\ textured' = {}
        /\ mgr' = mgr \/ (mgr.plan # None /\ Pump(Replan(mgr)))
    BY DEF Retarget
  <1>2. FramesOK' /\ BaseKept
    BY <1>1, SameBase DEF LoopInv, FramesOK
  <1>3. Sound(mgr') /\ Grows(mgr, mgr')
    <2>1. CASE mgr' = mgr
      BY <2>1 DEF LoopInv, Grows
    <2>2. CASE mgr.plan # None /\ Pump(Replan(mgr))
      <3> DEFINE m == Replan(mgr)
      <3>1. Sound(m) /\ SameForms(mgr, m)
        BY <2>2, ReplanIs DEF LoopInv
      <3> HIDE DEF m
      <3>2. Sound(mgr') /\ SameForms(m, mgr')
        BY <2>2, <3>1, PumpIs DEF m
      <3>3. QED
        BY <3>1, <3>2, SameGrows, GrowsOn
    <2>3. QED
      BY <1>1, <2>1, <2>2
  <1>4. QED
    BY <1>2, <1>3, GrowingStep

LEMMA SwitchStep == ASSUME LoopInv, EnableLoop \/ DisableLoop PROVE Step
  <1>1. /\ mgr' = RemovePending(mgr) /\ loop' \in {"settling", "off"}
        /\ list' = {} /\ textured' = {} /\ playhead' = None /\ UNCHANGED <<parked, baseVars>>
    BY DEF EnableLoop, DisableLoop
  <1>2. Sound(mgr') /\ SameForms(mgr, mgr')
    BY <1>1, RemovePendingIs DEF LoopInv
  <1>3. FramesOK'
    BY <1>1 DEF FramesOK
  <1>4. QED
    BY <1>1, <1>2, <1>3, SameGrows, SameBase, GrowingStep

LEMMA IdleStep ==
    ASSUME LoopInv, NEW f \in Stamps,
           GracePasses \/ PlayheadMoves \/ ReaderComesOrGoes \/ Render(f) \/ UNCHANGED vars
    PROVE  Step
  <1>1. mgr' = mgr /\ UNCHANGED <<parked, baseVars>>
    BY DEF GracePasses, PlayheadMoves, ReaderComesOrGoes, Render, vars, baseVars
  <1>2. Sound(mgr') /\ Grows(mgr, mgr')
    BY <1>1 DEF LoopInv, Grows
  <1>3. FramesOK'
    BY DEF LoopInv, FramesOK, GracePasses, Settling, PlayheadMoves, ReaderComesOrGoes, Render,
           vars, loopVars
  <1>4. QED
    BY <1>1, <1>2, <1>3, SameBase, GrowingStep

LEMMA ArrivalStep ==
    ASSUME LoopInv, NEW a \in Stamps, NEW archive \in BOOLEAN, VolumeArrives(a, archive)
    PROVE  Step
  <1>1. Sound(mgr') /\ Grows(mgr, mgr')
    BY FiledIs DEF LoopInv, VolumeArrives
  <1>2. BaseKept
    <2>1. CollectedAt[a] \in Nat
      BY LoopAssumption
    <2>2. /\ parked' \in {parked, CollectedAt[a]}
          /\ base' = [at |-> CollectedAt[a], whole |-> TRUE] \/ base' = base
      BY DEF VolumeArrives
    <2>3. parked' \in {None} \cup Nat
      BY <2>1, <2>2 DEF LoopInv, BaseOK
    <2>4. CASE base' = base
      BY <2>3, <2>4 DEF LoopInv, BaseKept, BaseOK, Released
    <2>5. CASE base' = [at |-> CollectedAt[a], whole |-> TRUE]
      <3>1. base' \in [at : Nat, whole : BOOLEAN] /\ base'.whole
        BY <2>1, <2>5
      <3>2. QED
        BY <2>3, <3>1 DEF BaseKept, BaseOK, Released
    <2>6. QED
      BY <2>2, <2>4, <2>5
  <1>3. FramesOK'
    <2>1. FrameAppended(a)
      BY DEF VolumeArrives
    <2>2. CASE loop = "off"
      BY <2>1, <2>2, SameFrames DEF FrameAppended
    <2>3. CASE loop # "off"
      <3>1. \E kept \in SUBSET (list \cup {a}) :
               /\ loop' = loop /\ list' = kept /\ textured' = textured \cap kept /\ PlayheadIn(kept)
        <4> DEFINE Newer == [b \in Stamps |-> {c \in Stamps : b < c}]
                   kept == First(list \cup {a}, Newer, MaxFrames)
        <4>1. loop' = loop /\ list' = kept /\ textured' = textured \cap kept /\ PlayheadIn(kept)
          BY <2>1, <2>3 DEF FrameAppended
        <4>2. kept \in SUBSET (list \cup {a})
          BY DEF First
        <4>3. QED
          BY <4>1, <4>2
      <3>2. PICK kept \in SUBSET (list \cup {a}) :
               /\ loop' = loop /\ list' = kept /\ textured' = textured \cap kept /\ PlayheadIn(kept)
        BY <3>1
      <3>3. playhead' \in kept /\ kept \in SUBSET Stamps
        BY <3>2 DEF PlayheadIn, LoopInv, FramesOK
      <3>4. QED
        BY <2>3, <3>2, <3>3 DEF LoopInv, FramesOK
    <2>4. QED
      BY <2>2, <2>3
  <1>4. QED
    BY <1>1, <1>2, <1>3, GrowingStep

-----------------------------------------------------------------------------
(* The theorems. *)

LEMMA LoopInit == NoneIsNothing /\ Init => LoopInv
  <1> SUFFICES ASSUME NoneIsNothing, Init PROVE LoopInv
    OBVIOUS
  <1>1. mgr \in Managers
    BY DEF Init, NoManager, Managers, Wants
  <1>2. Sound(mgr)
    BY <1>1, LoopAssumption DEF Init, NoManager, Sound, Busy, OneErrand, Planned, Apart
  <1>3. QED
    BY <1>2 DEF Init, LoopInv, FramesOK, BaseOK, Released

LEMMA LoopStep == NoneIsNothing /\ LoopInv /\ [Next]_vars => Step
  <1> SUFFICES ASSUME NoneIsNothing, LoopInv, [Next]_vars PROVE Step
    OBVIOUS
  <1>1. CASE EvictUnshown
    BY <1>1, EvictUnshownStep
  <1>2. CASE PollResults
    BY <1>2, PollStep
  <1>3. CASE EnsureBaseWhole
    BY <1>3, EnsureStep
  <1>4. CASE ListingLands
    BY <1>4, ListingStep
  <1>5. CASE Rederive
    BY <1>5, RederiveStep
  <1>6. ASSUME NEW a \in Stamps, TakeLoopFrameArchive(a) PROVE Step
    BY <1>6, TakeStep
  <1>7. ASSUME NEW a \in Stamps, Decoded(a) \/ DecodeLost(a) PROVE Step
    BY <1>7, DecodedStep
  <1>8. ASSUME NEW f \in Stamps, Render(f) PROVE Step
    BY <1>8, IdleStep
  <1>9. CASE EnableLoop \/ DisableLoop
    BY <1>9, SwitchStep
  <1>10. CASE Retarget
    BY <1>10, RetargetStep
  <1>11. ASSUME NEW a \in Stamps, NEW archive \in BOOLEAN, VolumeArrives(a, archive) PROVE Step
    BY <1>11, ArrivalStep
  <1>12. CASE GracePasses \/ PlayheadMoves \/ ReaderComesOrGoes \/ UNCHANGED vars
    <2>1. mgr' = mgr /\ UNCHANGED <<parked, baseVars>>
      BY <1>12 DEF GracePasses, PlayheadMoves, ReaderComesOrGoes, vars, baseVars
    <2>2. Sound(mgr') /\ Grows(mgr, mgr')
      BY <2>1 DEF LoopInv, Grows
    <2>3. FramesOK'
      BY <1>12 DEF LoopInv, FramesOK, GracePasses, Settling, PlayheadMoves, ReaderComesOrGoes,
             vars, loopVars
    <2>4. QED
      BY <2>1, <2>2, <2>3, SameBase, GrowingStep
  <1>13. QED
    BY <1>1, <1>2, <1>3, <1>4, <1>5, <1>6, <1>7, <1>8, <1>9, <1>10, <1>11, <1>12
    DEF Next, Disturbance

LEMMA LoopInvImplies ==
    ASSUME NoneIsNothing, LoopInv
    PROVE  TypeOK /\ OneErrandPerMark /\ ReleasedBaseHasWayBack
  <1>1. TypeOK
    <2>1. DOMAIN mgr = DOMAIN NoManager
      BY DEF LoopInv, Sound, Managers, NoManager
    <2>2. mgr.count \in 0..Cap
      BY LoopAssumption DEF LoopInv, Sound, Managers, Busy
    <2>3. /\ \A held \in {mgr.decoded, mgr.heap, mgr.spilled, mgr.known, mgr.marked, mgr.queue, list} :
                held \subseteq Stamps
          /\ mgr.out \subseteq Errand
      BY DEF LoopInv, Sound, Managers, FramesOK
    <2>4. /\ mgr.heap \cap mgr.spilled = {} /\ mgr.reserved \subseteq mgr.marked
          /\ mgr.queue \subseteq (IF mgr.plan = None THEN {} ELSE mgr.plan)
      BY DEF LoopInv, Sound, Busy, Planned, Apart
    <2>5. /\ textured \subseteq list /\ loop \in {"off", "settling", "overdue", "listed"}
          /\ playhead \in list \/ (list = {} /\ playhead = None)
          /\ base = None \/ (base.at \in Nat /\ base.whole \in BOOLEAN)
      BY DEF LoopInv, FramesOK, BaseOK
    <2>6. QED
      BY <2>1, <2>2, <2>3, <2>4, <2>5 DEF TypeOK
  <1>2. OneErrandPerMark
    <2> SUFFICES ASSUME NEW a \in Stamps
                 PROVE  Cardinality({e \in mgr.out : e.at = a}) = IF a \in mgr.marked THEN 1 ELSE 0
      BY DEF OneErrandPerMark
    <2>1. OneErrand(mgr)
      BY DEF LoopInv, Sound, Busy
    <2>2. CASE a \in mgr.marked
      <3>1. PICK e \in mgr.out : e.at = a
        BY <2>1, <2>2 DEF OneErrand
      <3>2. {f \in mgr.out : f.at = a} = {e}
        BY <2>1, <3>1 DEF OneErrand
      <3>3. QED
        BY <2>2, <3>2, FS_Singleton
    <2>3. CASE a \notin mgr.marked
      <3>1. {f \in mgr.out : f.at = a} = {}
        BY <2>1, <2>3 DEF OneErrand
      <3>2. QED
        BY <2>3, <3>1, FS_EmptySet
    <2>4. QED
      BY <2>2, <2>3
  <1>3. ReleasedBaseHasWayBack
    BY WayIsFound DEF LoopInv, ReleasedBaseHasWayBack
  <1>4. QED
    BY <1>1, <1>2, <1>3

(* The loop's inductive invariant: the manager, the errands, the base and the list of frames *)
(* agree with one another after every step of the frame thread and of the pools.             *)
THEOREM LoopInvariant == NoneIsNothing => (Spec => []LoopInv)
  <1> SUFFICES ASSUME NoneIsNothing PROVE Spec => []LoopInv
    OBVIOUS
  <1>1. Init => LoopInv
    BY LoopInit
  <1>2. LoopInv /\ [Next]_vars => LoopInv'
    BY LoopStep DEF Step
  <1>3. QED
    BY <1>1, <1>2, PTL DEF Spec

(* The manager's state is well formed: the plan's queue is part of it, no archive is   *)
(* on the heap and on the medium at once, what is reserved is marked, and the slots in *)
(* use are no more than there are (LoopDownloadManager).                               *)
THEOREM LoopTypeCorrect == NoneIsNothing => (Spec => []TypeOK)
  <1> SUFFICES ASSUME NoneIsNothing PROVE Spec => []TypeOK
    OBVIOUS
  <1>1. LoopInv => TypeOK
    BY LoopInvImplies
  <1>2. QED
    BY <1>1, LoopInvariant, PTL

(* A stamp is marked in flight exactly while one errand of its is under way, whatever  *)
(* the order of downloads, decodes, polls, plans and sweeps (in_flight_set).           *)
THEOREM MarksAreErrands == NoneIsNothing => (Spec => []OneErrandPerMark)
  <1> SUFFICES ASSUME NoneIsNothing PROVE Spec => []OneErrandPerMark
    OBVIOUS
  <1>1. LoopInv => OneErrandPerMark
    BY LoopInvImplies
  <1>2. QED
    BY <1>1, LoopInvariant, PTL

(* A base whose gates were released has an archive to decode them from, in every state *)
(* (release_unneeded_base_gates, ensure_base_whole).                                   *)
THEOREM BaseHasWayBack == NoneIsNothing => (Spec => []ReleasedBaseHasWayBack)
  <1> SUFFICES ASSUME NoneIsNothing PROVE Spec => []ReleasedBaseHasWayBack
    OBVIOUS
  <1>1. LoopInv => ReleasedBaseHasWayBack
    BY LoopInvImplies
  <1>2. QED
    BY <1>1, LoopInvariant, PTL

(* No step takes the last form of a frame's volume while the frame is in the list,     *)
(* unless the archives are over their ceiling (evict_unshown_scans).                   *)
THEOREM FramesKeepAForm == NoneIsNothing => (Spec => ListedFramesKeepAForm)
  <1> SUFFICES ASSUME NoneIsNothing PROVE Spec => ListedFramesKeepAForm
    OBVIOUS
  <1>1. LoopInv /\ [Next]_vars => [KeepsStep]_vars
    BY LoopStep DEF Step
  <1>2. Spec => [][KeepsStep]_vars
    BY <1>1, LoopInvariant, PTL DEF Spec
  <1>3. QED
    BY <1>2 DEF ListedFramesKeepAForm, KeepsStep
=============================================================================
