---------------------------- MODULE WfqMuxProofs ----------------------------
(***************************************************************************)
(* Proofs about muxWFQ, for any inputs, connections, shares, limits of the *)
(* queues and any limit of the spacing time.                               *)
(*                                                                         *)
(* Sorted is inductive once the insertion into the sort queue is           *)
(* understood (Inserted).  Share follows from Lag: a cell of w sent while  *)
(* v waits moves w on by delta[w], so that w soon lies behind v.           *)
(***************************************************************************)
EXTENDS WfqMux, WellFoundedInduction, TLAPS

(* The cells of w sent while the first cell of v waits, in virtual time.   *)
Work(v, w) == passed[v][w] * delta[w]

(* They have moved w on, from where it was when v was queued.              *)
Lag ==
  \A v \in Queued : \A w \in VC \ {v} :
    /\ w \in Queued => time[v] + Work(v, w) <= time[w] + delta[v]
    /\ time[v] + Work(v, w) <= spacTime + delta[v] + delta[w]

IInv == TypeOK /\ Sorted /\ Lag

-----------------------------------------------------------------------------
(* A set of numbers has a smallest element.                                *)
LEMMA SmallestExists ==
  ASSUME NEW S, S \subseteq Nat, S # {}
  PROVE  \E x \in S : \A y \in S : x <= y
<1> DEFINE R == OpToRel(<, Nat)
<1>1. IsWellFoundedOn(R, Nat)
  BY NatLessThanWellFounded
<1>2. \A x, y \in Nat : <<x, y>> \in R <=> x < y
  BY DEF OpToRel
<1> HIDE DEF R
<1>3. PICK x \in S : \A y \in S : ~ (<<y, x>> \in R)
  BY <1>1, WFMin
<1>4. ASSUME NEW y \in S PROVE x <= y
  <2>1. x \in Nat /\ y \in Nat
    OBVIOUS
  <2>2. ~ (y < x)
    BY <1>2, <1>3, <2>1
  <2> QED
    BY <2>1, <2>2
<1> QED
  BY <1>4

(* Where enqTime puts a new entry.                                         *)
LEMMA PlaceExists ==
  ASSUME NEW s \in Seq(VC), NEW v \in VC, NEW t \in [VC -> Nat]
  PROVE  /\ Place(s, v, t) \in 1 .. Len(s) + 1
         /\ \A j \in 1 .. Place(s, v, t) - 1 : t[s[j]] < t[v]
         /\ Place(s, v, t) <= Len(s) => t[s[Place(s, v, t)]] >= t[v]
<1> DEFINE Fits(k) == /\ \A j \in 1 .. k - 1 : t[s[j]] < t[v]
                      /\ k <= Len(s) => t[s[k]] >= t[v]
           Behind == {k \in 1 .. Len(s) : t[s[k]] >= t[v]}
<1>1. Len(s) \in Nat /\ \A k \in 1 .. Len(s) : s[k] \in VC /\ t[s[k]] \in Nat
  OBVIOUS
<1>2. \E k \in 1 .. Len(s) + 1 : Fits(k)
  <2>1. CASE Behind = {}
    <3>1. Fits(Len(s) + 1)
      BY <1>1, <2>1
    <3> QED
      BY <1>1, <3>1
  <2>2. CASE Behind # {}
    <3>1. Behind \subseteq Nat
      BY <1>1
    <3>2. PICK k \in Behind : \A j \in Behind : k <= j
      BY <2>2, <3>1, SmallestExists
    <3>3. ASSUME NEW j \in 1 .. k - 1 PROVE t[s[j]] < t[v]
      <4>1. j \in 1 .. Len(s) /\ ~ (k <= j)
        BY <1>1, <3>2
      <4>2. j \notin Behind
        BY <3>2, <4>1
      <4> QED
        BY <1>1, <4>1, <4>2
    <3> QED
      BY <1>1, <3>2, <3>3
  <2> QED
    BY <2>1, <2>2
<1>3. Place(s, v, t) = CHOOSE k \in 1 .. Len(s) + 1 : Fits(k)
  BY DEF Place
<1> QED
  BY <1>2, <1>3

(* Entries in order of their times, none twice.                            *)
InOrder(s, t) ==
  /\ \A j, k \in DOMAIN s : j # k => s[j] # s[k]
  /\ \A j, k \in DOMAIN s : j < k => t[s[j]] <= t[s[k]]

(* enqTime adds one entry and keeps the order.                             *)
LEMMA Inserted ==
  ASSUME NEW s \in Seq(VC), NEW v \in VC, NEW t \in [VC -> Nat],
         v \notin ToSet(s), InOrder(s, t)
  PROVE  /\ enqTime(s, v, t) \in Seq(VC)
         /\ ToSet(enqTime(s, v, t)) = ToSet(s) \cup {v}
         /\ InOrder(enqTime(s, v, t), t)
<1> DEFINE k == Place(s, v, t)
           r == enqTime(s, v, t)
           n == Len(s)
<1>1. /\ k \in 1 .. n + 1
      /\ \A j \in 1 .. k - 1 : t[s[j]] < t[v]
      /\ k <= n => t[s[k]] >= t[v]
  BY PlaceExists
<1>2. r = [j \in 1 .. n + 1 |-> IF j < k THEN s[j] ELSE IF j = k THEN v ELSE s[j - 1]]
  BY DEF enqTime
<1>3. n \in Nat /\ DOMAIN s = 1 .. n /\ \A j \in 1 .. n : s[j] \in VC /\ t[s[j]] \in Nat
  OBVIOUS
<1> HIDE DEF k, r, n
<1>4. /\ DOMAIN r = 1 .. n + 1
      /\ r[k] = v
      /\ \A j \in 1 .. n + 1 : j < k => j \in 1 .. n /\ r[j] = s[j]
      /\ \A j \in 1 .. n + 1 : j > k => j - 1 \in 1 .. n /\ j - 1 >= k /\ r[j] = s[j - 1]
  BY <1>1, <1>2, <1>3
<1>5. \A j \in 1 .. n + 1 : r[j] \in VC
  BY <1>1, <1>3, <1>4
<1>6. r \in Seq(VC)
  BY <1>2, <1>3, <1>5
<1>7. ToSet(r) = ToSet(s) \cup {v}
  <2>1. ToSet(s) = {s[j] : j \in 1 .. n} /\ ToSet(r) = {r[j] : j \in 1 .. n + 1}
    BY <1>3, <1>4 DEF ToSet
  <2>2. ASSUME NEW j \in 1 .. n + 1 PROVE r[j] \in ToSet(s) \cup {v}
    BY <1>1, <1>3, <1>4, <2>1
  <2>3. ASSUME NEW j \in 1 .. n PROVE s[j] \in ToSet(r)
    <3>1. CASE j < k
      BY <1>1, <1>3, <1>4, <2>1, <3>1
    <3>2. CASE j >= k
      <4>1. j + 1 \in 1 .. n + 1 /\ j + 1 > k /\ (j + 1) - 1 = j
        BY <1>1, <1>3, <3>2
      <4>2. r[j + 1] = s[j]
        BY <1>4, <4>1
      <4> QED
        BY <2>1, <4>1, <4>2
    <3> QED
      BY <1>1, <1>3, <3>1, <3>2
  <2>4. v \in ToSet(r)
    BY <1>1, <1>3, <1>4, <2>1
  <2> QED
    BY <2>1, <2>2, <2>3, <2>4
<1>8. ASSUME NEW i \in 1 .. n + 1, NEW j \in 1 .. n + 1, i < j
      PROVE  r[i] # r[j] /\ t[r[i]] <= t[r[j]]
  <2>1. \A x \in 1 .. n : s[x] # v
    BY <1>3 DEF ToSet
  <2>2. /\ \A x, y \in 1 .. n : x # y => s[x] # s[y]
        /\ \A x, y \in 1 .. n : x < y => t[s[x]] <= t[s[y]]
    BY <1>3 DEF InOrder
  <2>3. CASE j < k
    <3>1. i \in 1 .. n /\ j \in 1 .. n /\ i < k /\ i # j /\ r[i] = s[i] /\ r[j] = s[j]
      BY <1>1, <1>3, <1>4, <1>8, <2>3
    <3> QED
      BY <1>8, <2>2, <3>1
  <2>4. CASE j = k
    <3>1. i \in 1 .. k - 1 /\ i \in 1 .. n /\ r[i] = s[i] /\ r[j] = v
      BY <1>1, <1>3, <1>4, <1>8, <2>4
    <3>2. t[s[i]] < t[v] /\ t[s[i]] \in Nat /\ t[v] \in Nat
      BY <1>1, <1>3, <3>1
    <3> QED
      BY <2>1, <3>1, <3>2
  <2>5. CASE j > k /\ i < k
    <3>1. i \in 1 .. n /\ j - 1 \in 1 .. n /\ i < j - 1 /\ r[i] = s[i] /\ r[j] = s[j - 1]
      BY <1>1, <1>3, <1>4, <1>8, <2>5
    <3> QED
      BY <2>2, <3>1
  <2>6. CASE j > k /\ i = k
    <3>1. j - 1 \in 1 .. n /\ k <= j - 1 /\ r[i] = v /\ r[j] = s[j - 1] /\ k \in 1 .. n
      BY <1>1, <1>3, <1>4, <1>8, <2>6
    <3>2. t[s[k]] >= t[v] /\ t[s[k]] <= t[s[j - 1]]
      <4>1. CASE k = j - 1
        BY <1>1, <1>3, <3>1, <4>1
      <4>2. CASE k < j - 1
        BY <1>1, <1>3, <2>2, <3>1, <4>2
      <4> QED
        BY <1>1, <1>3, <3>1, <4>1, <4>2
    <3>3. t[s[k]] \in Nat /\ t[s[j - 1]] \in Nat /\ t[v] \in Nat
      BY <1>3, <3>1
    <3> QED
      BY <2>1, <3>1, <3>2, <3>3
  <2>7. CASE j > k /\ i > k
    <3>1. /\ i - 1 \in 1 .. n /\ j - 1 \in 1 .. n /\ i - 1 < j - 1
          /\ r[i] = s[i - 1] /\ r[j] = s[j - 1]
      BY <1>1, <1>3, <1>4, <1>8, <2>7
    <3> QED
      BY <2>2, <3>1
  <2> QED
    BY <1>1, <1>3, <2>3, <2>4, <2>5, <2>6, <2>7
<1>9. InOrder(r, t)
  <2>1. ASSUME NEW i \in 1 .. n + 1, NEW j \in 1 .. n + 1, i # j PROVE r[i] # r[j]
    <3>1. i < j \/ j < i
      BY <1>3, <2>1
    <3> QED
      BY <1>8, <3>1
  <2> QED
    BY <1>4, <1>8, <2>1 DEF InOrder
<1> QED
  BY <1>6, <1>7, <1>9 DEF r

-----------------------------------------------------------------------------
LEMMA Products ==
  ASSUME NEW n \in Nat, NEW d \in Nat
  PROVE  n * d \in Nat /\ (n + 1) * d = n * d + d /\ 0 * d = 0
OBVIOUS

LEMMA Types ==
  ASSUME TypeOK
  PROVE  /\ \A v \in VC : /\ delta[v] \in Nat \ {0} /\ qsize[v] \in Nat \ {0}
                          /\ len[v] \in Nat /\ time[v] \in Nat
                          /\ \A w \in VC : passed[v][w] \in Nat /\ Work(v, w) \in Nat
         /\ Queued \subseteq VC /\ spacTime \in Nat /\ spacTimeMax \in Nat
<1>1. \A v \in VC : /\ delta[v] \in Nat \ {0} /\ qsize[v] \in Nat \ {0}
                    /\ len[v] \in Nat /\ time[v] \in Nat
                    /\ \A w \in VC : passed[v][w] \in Nat
  BY QueueAssumption DEF TypeOK
<1>2. \A v, w \in VC : Work(v, w) \in Nat
  <2> TAKE v, w \in VC
  <2>1. passed[v][w] \in Nat /\ delta[w] \in Nat
    BY <1>1
  <2> QED
    BY <2>1, Products DEF Work
<1>3. Queued \subseteq VC
  BY DEF TypeOK, Queued, ToSet
<1> QED
  BY <1>1, <1>2, <1>3, TimeAssumption DEF TypeOK

(* Sorted in the words of InOrder.                                         *)
LEMMA SortedOrder ==
  ASSUME TypeOK
  PROVE  Sorted <=> /\ \A v \in VC : v \in Queued <=> len[v] > 0
                    /\ InOrder(sortq, time)
                    /\ \A v \in Queued : time[v] \in spacTime .. spacTime + delta[v]
                    /\ std_evt => sortq # <<>>
BY DEF Sorted, InOrder, IsInjective

LEMMA InitInv == Init => IInv
<1> SUFFICES ASSUME Init PROVE IInv
  OBVIOUS
<1>1. Queued = {}
  BY DEF Init, Queued, ToSet
<1>2. TypeOK
  <2>1. \A v \in VC : len[v] <= qsize[v]
    BY QueueAssumption DEF Init
  <2>2. len \in [VC -> Nat] /\ time \in [VC -> Nat] /\ passed \in [VC -> [VC -> Nat]]
    BY DEF Init
  <2>3. sortq \in Seq(VC) /\ inp_buff \subseteq Input \X VC
    BY DEF Init
  <2>4. spacTime \in 0 .. spacTimeMax
    BY TimeAssumption DEF Init
  <2>5. std_evt \in BOOLEAN /\ phase \in {"early", "late"}
    BY DEF Init
  <2> QED
    BY <2>1, <2>2, <2>3, <2>4, <2>5 DEF TypeOK
<1>3. Sorted
  BY <1>1 DEF Init, Sorted, IsInjective
<1> QED
  BY <1>1, <1>2, <1>3 DEF IInv, Lag

(* Steps that leave the times and the sort queue as they are.              *)
LEMMA KeepsInv ==
  ASSUME IInv, TypeOK', UNCHANGED <<time, sortq, spacTime, passed>>,
         \A v \in VC : len'[v] > 0 <=> len[v] > 0,
         std_evt' => sortq # <<>>
  PROVE  IInv'
<1>1. Queued' = Queued /\ \A v, w : Work(v, w)' = Work(v, w)
  BY DEF Queued, Work
<1>2. Sorted'
  BY <1>1 DEF IInv, Sorted
<1>3. Lag'
  BY <1>1 DEF IInv, Lag
<1> QED
  BY <1>2, <1>3 DEF IInv

LEMMA ArriveInv == ASSUME IInv, NEW i \in Input, NEW v \in VC, Arrive(i, v) PROVE IInv'
<1>1. TypeOK'
  BY DEF IInv, TypeOK, Arrive, wfq
<1> QED
  BY <1>1, KeepsInv DEF IInv, Sorted, Arrive, wfq

LEMMA PhaseInv == ASSUME IInv, EnterLate \/ NextSlot PROVE IInv'
<1>1. TypeOK'
  BY DEF IInv, TypeOK, EnterLate, NextSlot, wfq
<1>2. UNCHANGED <<len, time, sortq, spacTime, passed>>
  BY DEF EnterLate, NextSlot, wfq
<1>3. std_evt' => sortq # <<>>
  BY DEF EnterLate, NextSlot
<1> QED
  BY <1>1, <1>2, <1>3, KeepsInv

LEMMA EnqueueNextInv ==
  ASSUME IInv, NEW i \in Input, NEW v \in VC, EnqueueNext(i, v)
  PROVE  IInv'
<1>1. /\ len \in [VC -> Nat] /\ len[v] > 0 /\ qsize[v] \in Nat
      /\ \A w \in VC : len[w] \in Nat /\ len[w] <= qsize[w]
      /\ len' = [len EXCEPT ![v] = IF @ = qsize[v] THEN @ ELSE @ + 1]
  BY Types DEF IInv, TypeOK, EnqueueNext
<1>2. \A w \in VC : /\ len'[w] \in Nat /\ len'[w] <= qsize[w]
                    /\ len'[w] > 0 <=> len[w] > 0
  BY <1>1
<1>3. TypeOK'
  BY <1>1, <1>2 DEF IInv, TypeOK, EnqueueNext
<1> QED
  BY <1>2, <1>3, KeepsInv DEF IInv, Sorted, EnqueueNext

(* restim() shifts the times that matter, and the spacing time, alike.     *)
LEMMA ResetInv == ASSUME IInv, ResetTime PROVE IInv'
<1>1. /\ time' = [v \in VC |-> IF len[v] > 0 THEN time[v] - spacTime ELSE time[v]]
      /\ spacTime' = 0
      /\ UNCHANGED <<inp_buff, len, sortq, std_evt, phase, passed>>
  BY DEF ResetTime, restim
<1>2. TypeOK /\ Sorted /\ Lag
  BY DEF IInv
<1>3. /\ Queued' = Queued /\ Queued \subseteq VC
      /\ \A v, w : Work(v, w)' = Work(v, w)
  BY <1>1, <1>2, Types DEF Queued, Work
<1>4. \A v \in VC : time[v] \in Nat /\ spacTime \in Nat /\ delta[v] \in Nat
  BY <1>2, Types
<1>5. \A v \in Queued : /\ time'[v] = time[v] - spacTime /\ spacTime <= time[v]
                        /\ time[v] <= spacTime + delta[v]
  BY <1>1, <1>2, <1>3, <1>4 DEF Sorted
<1>6. \A v \in VC : time'[v] \in Nat
  BY <1>1, <1>2, <1>4, <1>5 DEF Sorted
<1>7. TypeOK'
  BY <1>1, <1>2, <1>6, TimeAssumption DEF TypeOK
<1>8. \A j \in DOMAIN sortq : sortq[j] \in Queued
  BY DEF Queued, ToSet
<1>9. InOrder(sortq, time')
  BY <1>2, <1>3, <1>4, <1>5, <1>8, SortedOrder DEF InOrder
<1>10. \A v \in Queued : time'[v] \in spacTime' .. spacTime' + delta[v]
  <2> TAKE v \in Queued
  <2>1. time[v] \in Nat /\ spacTime \in Nat /\ delta[v] \in Nat
    BY <1>3, <1>4
  <2> QED
    BY <1>1, <1>5, <2>1
<1>11. Sorted'
  BY <1>1, <1>2, <1>3, <1>7, <1>9, <1>10 DEF Sorted, InOrder, IsInjective
<1>12. Lag'
  <2>1. ASSUME NEW v \in Queued, NEW w \in VC \ {v}
        PROVE  /\ w \in Queued => time'[v] + Work(v, w) <= time'[w] + delta[v]
               /\ time'[v] + Work(v, w) <= spacTime' + delta[v] + delta[w]
    <3>1. v \in VC /\ w \in VC /\ Work(v, w) \in Nat
      BY <1>2, <1>3, Types
    <3>2. /\ w \in Queued => time[v] + Work(v, w) <= time[w] + delta[v]
          /\ time[v] + Work(v, w) <= spacTime + delta[v] + delta[w]
      BY <1>2 DEF Lag
    <3>3. /\ time[v] \in Nat /\ spacTime \in Nat /\ delta[v] \in Nat /\ delta[w] \in Nat
          /\ time'[v] = time[v] - spacTime /\ spacTime' = 0
          /\ w \in Queued => time[w] \in Nat /\ time'[w] = time[w] - spacTime
      BY <1>1, <1>4, <1>5, <3>1
    <3> QED
      BY <3>1, <3>2, <3>3
  <2> QED
    BY <1>3, <2>1 DEF Lag
<1> QED
  BY <1>7, <1>11, <1>12 DEF IInv

-----------------------------------------------------------------------------
(* The first cell of a VC: it enters the sort queue behind the spacing time *)
(* by its delta.                                                           *)
LEMMA EnqueueFirstInv ==
  ASSUME IInv, NEW i \in Input, NEW x \in VC, EnqueueFirst(i, x)
  PROVE  IInv'
<1>1. TypeOK /\ Sorted /\ Lag
  BY DEF IInv
<1>2. /\ len[x] = 0 /\ len' = [len EXCEPT ![x] = 1]
      /\ time' = [time EXCEPT ![x] = spacTime + delta[x]]
      /\ sortq' = enqTime(sortq, x, time')
      /\ passed' = [passed EXCEPT ![x] = [w \in VC |-> 0]]
      /\ UNCHANGED <<spacTime, std_evt, phase>> /\ inp_buff' \subseteq inp_buff
  BY DEF EnqueueFirst, Fresh
<1>3. /\ \A v \in VC : /\ delta[v] \in Nat \ {0} /\ qsize[v] \in Nat \ {0}
                       /\ len[v] \in Nat /\ time[v] \in Nat
                       /\ \A w \in VC : passed[v][w] \in Nat /\ Work(v, w) \in Nat
      /\ Queued \subseteq VC /\ spacTime \in Nat
  BY <1>1, Types
<1>4. x \notin Queued
  BY <1>1, <1>2 DEF Sorted
<1>5. time' \in [VC -> Nat] /\ time'[x] = spacTime + delta[x]
      /\ \A v \in VC : v # x => time'[v] = time[v]
  BY <1>1, <1>2, <1>3 DEF TypeOK
<1>6. /\ sortq \in Seq(VC) /\ \A j \in DOMAIN sortq : sortq[j] \in VC /\ sortq[j] \in Queued
  BY <1>1 DEF TypeOK, Queued, ToSet
<1>7. InOrder(sortq, time')
  BY <1>1, <1>4, <1>5, <1>6, SortedOrder DEF InOrder
<1>8. sortq' \in Seq(VC) /\ Queued' = Queued \cup {x} /\ InOrder(sortq', time')
  BY <1>2, <1>4, <1>5, <1>6, <1>7, Inserted DEF Queued
<1>9. TypeOK'
  <2>1. len' \in [VC -> Nat] /\ \A v \in VC : len'[v] <= qsize[v]
    BY <1>1, <1>2, <1>3 DEF TypeOK
  <2>2. passed' \in [VC -> [VC -> Nat]]
    BY <1>1, <1>2 DEF TypeOK
  <2> QED
    BY <1>1, <1>2, <1>5, <1>8, <2>1, <2>2 DEF TypeOK
<1>10. Sorted'
  <2>1. \A v \in VC : v \in Queued' <=> len'[v] > 0
    BY <1>1, <1>2, <1>8 DEF TypeOK, Sorted
  <2>2. ASSUME NEW v \in Queued' PROVE time'[v] \in spacTime' .. spacTime' + delta[v]
    <3>1. v \in VC /\ spacTime' = spacTime /\ spacTime \in Nat /\ delta[v] \in Nat
      BY <1>2, <1>3, <1>8
    <3>2. CASE v = x
      BY <1>5, <3>1, <3>2
    <3>3. CASE v # x
      BY <1>1, <1>5, <1>8, <3>1, <3>3 DEF Sorted
    <3> QED
      BY <3>2, <3>3
  <2>3. sortq' # <<>>
    BY <1>8 DEF Queued, ToSet
  <2> QED
    BY <1>8, <2>1, <2>2, <2>3 DEF Sorted, InOrder, IsInjective
<1>11. Lag'
  <2>1. ASSUME NEW v \in Queued', NEW w \in VC \ {v}
        PROVE  /\ w \in Queued' => time'[v] + Work(v, w)' <= time'[w] + delta[v]
               /\ time'[v] + Work(v, w)' <= spacTime' + delta[v] + delta[w]
    <3>1. /\ v \in VC /\ w \in VC /\ v # w /\ spacTime' = spacTime /\ spacTime \in Nat
          /\ delta[v] \in Nat /\ delta[w] \in Nat /\ time[w] \in Nat /\ time[v] \in Nat
          /\ Work(v, w) \in Nat
      BY <1>2, <1>3, <1>8
    <3>2. CASE v = x
      <4>1. passed'[v][w] = 0
        BY <1>1, <1>2, <3>1, <3>2 DEF TypeOK
      <4>2. Work(v, w)' = 0
        BY <3>1, <4>1, Products DEF Work
      <4>3. w \in Queued' => time'[w] = time[w] /\ time[w] >= spacTime
        BY <1>1, <1>5, <1>8, <3>1, <3>2 DEF Sorted
      <4> QED
        BY <1>5, <3>1, <3>2, <4>2, <4>3
    <3>3. CASE v # x
      <4>1. passed'[v] = passed[v] /\ v \in Queued /\ time'[v] = time[v]
        BY <1>1, <1>2, <1>5, <1>8, <3>1, <3>3 DEF TypeOK
      <4>2. Work(v, w)' = Work(v, w)
        BY <4>1 DEF Work
      <4>3. /\ w \in Queued => time[v] + Work(v, w) <= time[w] + delta[v]
            /\ time[v] + Work(v, w) <= spacTime + delta[v] + delta[w]
        BY <1>1, <3>1, <4>1 DEF Lag
      <4>4. CASE w = x
        BY <1>5, <3>1, <4>1, <4>2, <4>3, <4>4
      <4>5. CASE w # x
        BY <1>5, <1>8, <3>1, <4>1, <4>2, <4>3, <4>5
      <4> QED
        BY <4>4, <4>5
    <3> QED
      BY <3>2, <3>3
  <2> QED
    BY <2>1 DEF Lag
<1> QED
  BY <1>9, <1>10, <1>11 DEF IInv

-----------------------------------------------------------------------------
(* The VC that is served, and those left behind it.                        *)
LEMMA FrontFacts ==
  ASSUME TypeOK, Sorted, sortq # <<>>,
         NEW x, x = Head(sortq), NEW s, s = Tail(sortq)
  PROVE  /\ x \in VC /\ x \in Queued /\ len[x] > 0 /\ s \in Seq(VC)
         /\ Queued = {x} \cup ToSet(s) /\ x \notin ToSet(s)
         /\ InOrder(s, time)
         /\ \A j \in DOMAIN s : s[j] \in VC /\ s[j] \in ToSet(s)
         /\ \A w \in Queued : time[x] <= time[w]
<1>1. /\ sortq \in Seq(VC) /\ Len(sortq) \in Nat \ {0} /\ DOMAIN sortq = 1 .. Len(sortq)
      /\ x = sortq[1] /\ s \in Seq(VC)
      /\ DOMAIN s = 1 .. Len(sortq) - 1
      /\ \A j \in 1 .. Len(sortq) - 1 : s[j] = sortq[j + 1]
  BY DEF TypeOK
<1>2. /\ \A j, k \in 1 .. Len(sortq) : j # k => sortq[j] # sortq[k]
      /\ \A j, k \in 1 .. Len(sortq) : j < k => time[sortq[j]] <= time[sortq[k]]
  BY <1>1 DEF Sorted, IsInjective
<1>3. Queued = {sortq[j] : j \in 1 .. Len(sortq)}
  BY <1>1 DEF Queued, ToSet
<1>4. ToSet(s) = {s[j] : j \in 1 .. Len(sortq) - 1}
  BY <1>1 DEF ToSet
<1>5. x \in VC /\ x \in Queued /\ len[x] > 0
  BY <1>1, <1>3 DEF Sorted
<1>6. Queued = {x} \cup ToSet(s)
  <2>1. ASSUME NEW j \in 1 .. Len(sortq) PROVE sortq[j] \in {x} \cup ToSet(s)
    <3>1. CASE j = 1
      BY <1>1, <3>1
    <3>2. CASE j # 1
      <4>1. j - 1 \in 1 .. Len(sortq) - 1 /\ s[j - 1] = sortq[j]
        BY <1>1, <3>2
      <4> QED
        BY <1>4, <4>1
    <3> QED
      BY <3>1, <3>2
  <2>2. ASSUME NEW j \in 1 .. Len(sortq) - 1 PROVE s[j] \in Queued
    BY <1>1, <1>3
  <2> QED
    BY <1>3, <1>4, <1>5, <2>1, <2>2
<1>7. x \notin ToSet(s)
  BY <1>1, <1>2, <1>4
<1>8. InOrder(s, time)
  BY <1>1, <1>2 DEF InOrder
<1>9. \A w \in Queued : time[x] <= time[w]
  <2>1. \A w \in Queued : time[w] \in Nat
    BY Types
  <2>2. ASSUME NEW j \in 1 .. Len(sortq) PROVE time[x] <= time[sortq[j]]
    <3>1. CASE j = 1
      BY <1>1, <1>5, <2>1, <3>1
    <3>2. CASE j # 1
      BY <1>1, <1>2, <3>2
    <3> QED
      BY <3>1, <3>2
  <2> QED
    BY <1>3, <2>2
<1>10. \A j \in DOMAIN s : s[j] \in VC /\ s[j] \in ToSet(s)
  BY <1>1, <1>4
<1> QED
  BY <1>1, <1>5, <1>6, <1>7, <1>8, <1>9, <1>10

(* What early() does, in one form for both cases: all times that matter    *)
(* and the spacing time are set back by c.                                 *)
LEMMA ServeFacts ==
  ASSUME IInv, Serve, NEW x, x = Head(sortq), NEW s, s = Tail(sortq)
  PROVE  \E c \in Nat :
           /\ c <= time[x] /\ spacTime' = time[x] - c /\ spacTime' <= spacTimeMax
           /\ \A w \in ToSet(s) : time'[w] = time[w] - c
           /\ time' \in [VC -> Nat]
           /\ len[x] > 1 => time'[x] = spacTime' + delta[x]
<1>1. TypeOK /\ Sorted /\ sortq # <<>>
  BY DEF IInv, Serve, Sorted
<1>2. /\ x \in VC /\ x \in Queued /\ len[x] > 0
      /\ Queued = {x} \cup ToSet(s) /\ x \notin ToSet(s)
      /\ \A w \in Queued : time[x] <= time[w]
  BY <1>1, FrontFacts
<1>3. /\ \A v \in VC : delta[v] \in Nat \ {0} /\ len[v] \in Nat /\ time[v] \in Nat
      /\ Queued \subseteq VC /\ spacTimeMax \in Nat
  BY <1>1, Types
<1> DEFINE left == [len EXCEPT ![x] = @ - 1]
           over == time[x] > spacTimeMax
           now  == IF over THEN 0 ELSE time[x]
           set  == IF over THEN restim(left, time, time[x]) ELSE time
           c    == IF over THEN time[x] ELSE 0
<1>4. /\ spacTime' = now
      /\ time' = IF left[x] > 0 THEN Requeued(x, set, now) ELSE set
  BY DEF Serve
<1>5. /\ \A v \in VC : v # x => left[v] = len[v]
      /\ left[x] = len[x] - 1
  BY <1>1, <1>2 DEF TypeOK
<1> HIDE DEF left
<1>6. \A v \in VC : v # x /\ left[v] > 0 => v \in ToSet(s) /\ time[x] <= time[v]
  BY <1>1, <1>2, <1>5 DEF Sorted
<1>7. /\ c \in Nat /\ c <= time[x] /\ spacTime' = time[x] - c /\ spacTime' <= spacTimeMax
      /\ spacTime' \in Nat
  BY <1>2, <1>3, <1>4
<1>8. set \in [VC -> Nat] /\ \A w \in ToSet(s) : set[w] = time[w] - c
  <2>1. CASE ~ over
    BY <1>1, <1>2, <1>3, <2>1 DEF TypeOK
  <2>2. CASE over
    <3>1. set = [v \in VC |-> IF left[v] > 0 THEN time[v] - time[x] ELSE time[v]]
      BY <2>2 DEF restim
    <3>2. ASSUME NEW v \in VC PROVE set[v] \in Nat
      BY <1>2, <1>3, <1>6, <3>1
    <3>3. ASSUME NEW w \in ToSet(s) PROVE set[w] = time[w] - c
      <4>1. w \in VC /\ w # x /\ left[w] > 0
        BY <1>1, <1>2, <1>3, <1>5 DEF Sorted
      <4> QED
        BY <2>2, <3>1, <4>1
    <3> QED
      BY <3>1, <3>2, <3>3
  <2> QED
    BY <2>1, <2>2
<1> HIDE DEF set, now, over, c
<1>9. CASE left[x] > 0
  <2>1. time' = [set EXCEPT ![x] = spacTime' + delta[x]]
    BY <1>4, <1>9 DEF Requeued
  <2>2. time' \in [VC -> Nat] /\ time'[x] = spacTime' + delta[x]
    BY <1>2, <1>3, <1>7, <1>8, <2>1
  <2>3. ASSUME NEW w \in ToSet(s) PROVE time'[w] = time[w] - c
    BY <1>2, <1>3, <1>8, <2>1
  <2> QED
    BY <1>7, <2>2, <2>3
<1>10. CASE ~ (left[x] > 0)
  <2>1. time' = set /\ ~ (len[x] > 1)
    BY <1>2, <1>3, <1>4, <1>5, <1>10
  <2> QED
    BY <1>7, <1>8, <2>1
<1> QED
  BY <1>9, <1>10

LEMMA ServeInv == ASSUME IInv, Serve PROVE IInv'
<1> DEFINE x == Head(sortq)
           s == Tail(sortq)
<1>1. TypeOK /\ Sorted /\ Lag /\ sortq # <<>>
  BY DEF IInv, Serve, Sorted
<1>2. PICK c \in Nat :
        /\ c <= time[x] /\ spacTime' = time[x] - c /\ spacTime' <= spacTimeMax
        /\ \A w \in ToSet(s) : time'[w] = time[w] - c
        /\ time' \in [VC -> Nat]
        /\ len[x] > 1 => time'[x] = spacTime' + delta[x]
  BY ServeFacts
<1>3. /\ x \in VC /\ x \in Queued /\ len[x] > 0 /\ s \in Seq(VC)
      /\ Queued = {x} \cup ToSet(s) /\ x \notin ToSet(s)
      /\ InOrder(s, time)
      /\ \A j \in DOMAIN s : s[j] \in VC /\ s[j] \in ToSet(s)
      /\ \A w \in Queued : time[x] <= time[w]
  BY <1>1, FrontFacts
<1>4. /\ \A v \in VC : /\ delta[v] \in Nat \ {0} /\ qsize[v] \in Nat \ {0}
                       /\ len[v] \in Nat /\ time[v] \in Nat
                       /\ \A w \in VC : passed[v][w] \in Nat /\ Work(v, w) \in Nat
      /\ Queued \subseteq VC /\ spacTime \in Nat /\ spacTimeMax \in Nat
  BY <1>1, Types
<1>5. /\ len' = [len EXCEPT ![x] = @ - 1] /\ std_evt' = FALSE
      /\ UNCHANGED <<inp_buff, phase>>
  BY DEF Serve
<1>6. len'[x] = len[x] - 1 /\ (\A v \in VC : v # x => len'[v] = len[v])
      /\ len' \in [VC -> Nat]
  BY <1>1, <1>3, <1>4, <1>5 DEF TypeOK
<1>7. sortq' = IF len[x] > 1 THEN enqTime(s, x, time') ELSE s
  <2>1. sortq' = IF len'[x] > 0 THEN enqTime(s, x, time') ELSE s
    BY DEF Serve
  <2> QED
    BY <1>3, <1>4, <1>6, <2>1
<1> HIDE DEF x, s
<1>8. InOrder(s, time')
  <2>1. \A j \in DOMAIN s : time'[s[j]] = time[s[j]] - c /\ time[s[j]] \in Nat
    BY <1>2, <1>3, <1>4
  <2> QED
    BY <1>3, <2>1 DEF InOrder
<1>9. /\ sortq' \in Seq(VC) /\ InOrder(sortq', time')
      /\ Queued' = IF len[x] > 1 THEN Queued ELSE ToSet(s)
  <2>1. Queued' = ToSet(sortq')
    BY DEF Queued
  <2>2. CASE len[x] > 1
    <3>1. sortq' = enqTime(s, x, time')
      BY <1>7, <2>2
    <3>2. /\ enqTime(s, x, time') \in Seq(VC)
          /\ ToSet(enqTime(s, x, time')) = ToSet(s) \cup {x}
          /\ InOrder(enqTime(s, x, time'), time')
      BY <1>2, <1>3, <1>8, Inserted
    <3> QED
      BY <1>3, <2>1, <2>2, <3>1, <3>2
  <2>3. CASE ~ (len[x] > 1)
    <3>1. sortq' = s
      BY <1>7, <2>3
    <3> QED
      BY <1>3, <1>8, <2>1, <2>3, <3>1
  <2> QED
    BY <2>2, <2>3
<1>10. /\ passed' \in [VC -> [VC -> Nat]]
       /\ \A w \in VC : passed'[x][w] = 0
       /\ \A v \in ToSet(s) : /\ passed'[v][x] = passed[v][x] + 1
                              /\ \A w \in VC \ {x} : passed'[v][w] = passed[v][w]
  <2> DEFINE seen == [w \in VC |-> IF w \in Queued THEN [passed[w] EXCEPT ![x] = @ + 1]
                                                   ELSE passed[w]]
  <2>1. passed' = [seen EXCEPT ![x] = [w \in VC |-> 0]]
    BY DEF Serve, Fresh, x
  <2>2. passed \in [VC -> [VC -> Nat]]
    BY <1>1 DEF TypeOK
  <2>3. seen \in [VC -> [VC -> Nat]]
    BY <1>3, <2>2
  <2>4. \A v \in ToSet(s) : v \in VC /\ v # x /\ seen[v] = [passed[v] EXCEPT ![x] = @ + 1]
    BY <1>3, <1>4
  <2> HIDE DEF seen
  <2>5. \A v \in ToSet(s) : passed'[v] = [passed[v] EXCEPT ![x] = @ + 1]
    BY <2>1, <2>3, <2>4
  <2>6. passed' \in [VC -> [VC -> Nat]] /\ \A w \in VC : passed'[x][w] = 0
    BY <1>3, <2>1, <2>3
  <2>7. ASSUME NEW v \in ToSet(s)
        PROVE  /\ passed'[v][x] = passed[v][x] + 1
               /\ \A w \in VC \ {x} : passed'[v][w] = passed[v][w]
    <3>1. passed[v] \in [VC -> Nat]
      BY <2>2, <2>4
    <3>2. passed'[v] = [passed[v] EXCEPT ![x] = @ + 1]
      BY <2>5
    <3> QED
      BY <1>3, <3>1, <3>2
  <2> QED
    BY <2>6, <2>7
<1>11. TypeOK'
  <2>1. ASSUME NEW v \in VC PROVE len'[v] <= qsize[v]
    <3>1. len[v] <= qsize[v] /\ len[v] \in Nat /\ qsize[v] \in Nat
      BY <1>1, <1>4 DEF TypeOK
    <3>2. len'[v] = len[v] \/ len'[v] = len[v] - 1
      BY <1>6
    <3> QED
      BY <3>1, <3>2
  <2>2. spacTime' \in 0 .. spacTimeMax
    BY <1>2, <1>3, <1>4
  <2> QED
    BY <1>1, <1>2, <1>5, <1>6, <1>9, <1>10, <2>1, <2>2 DEF TypeOK
<1>12. Sorted'
  <2>1. ASSUME NEW v \in VC PROVE v \in Queued' <=> len'[v] > 0
    BY <1>1, <1>3, <1>4, <1>6, <1>9 DEF Sorted
  <2>2. ASSUME NEW v \in Queued' PROVE time'[v] \in spacTime' .. spacTime' + delta[v]
    <3>0. v \in Queued /\ v \in VC
      BY <1>3, <1>4, <1>9
    <3>1. /\ v \in VC /\ v \in Queued /\ time[x] \in Nat /\ time[v] \in Nat
          /\ delta[v] \in Nat /\ spacTime' \in Nat
      BY <1>2, <1>3, <1>4, <3>0
    <3>2. CASE v = x
      <4>1. len[x] > 1
        BY <1>3, <1>9, <2>2, <3>2
      <4> QED
        BY <1>2, <3>1, <3>2, <4>1
    <3>3. CASE v # x
      <4>1. time'[v] = time[v] - c
        BY <1>2, <1>3, <3>1, <3>3
      <4>2. time[x] <= time[v] /\ time[v] <= spacTime + delta[v] /\ spacTime <= time[x]
        BY <1>1, <1>3, <1>4, <3>1 DEF Sorted
      <4> QED
        BY <1>2, <1>4, <3>1, <4>1, <4>2
    <3> QED
      BY <3>2, <3>3
  <2> QED
    BY <1>5, <1>9, <2>1, <2>2 DEF Sorted, InOrder, IsInjective
<1>13. Lag'
  <2>1. ASSUME NEW v \in Queued', NEW w \in VC \ {v}
        PROVE  /\ w \in Queued' => time'[v] + Work(v, w)' <= time'[w] + delta[v]
               /\ time'[v] + Work(v, w)' <= spacTime' + delta[v] + delta[w]
    <3>1. /\ v \in VC /\ w \in VC /\ v # w /\ v \in Queued
          /\ (w \in Queued' => w \in Queued)
          /\ delta[v] \in Nat /\ delta[w] \in Nat /\ Work(v, w) \in Nat
          /\ time[v] \in Nat /\ time[w] \in Nat /\ time[x] \in Nat
      BY <1>3, <1>4, <1>9
    <3>2. CASE v = x
      <4>1. len[x] > 1
        BY <1>3, <1>9, <2>1, <3>2
      <4>2. Work(v, w)' = 0
        BY <1>10, <3>1, <3>2, Products DEF Work
      <4>3. w \in Queued' => time'[w] = time[w] - c /\ time[x] <= time[w]
        BY <1>2, <1>3, <3>1, <3>2
      <4>4. time'[v] = time[x] - c + delta[v] /\ spacTime' = time[x] - c
        BY <1>2, <3>2, <4>1
      <4> QED
        BY <1>2, <3>1, <4>2, <4>3, <4>4
    <3>3. CASE v # x
      <4>1. v \in ToSet(s) /\ time'[v] = time[v] - c
        BY <1>2, <1>3, <3>1, <3>3
      <4>2. /\ w \in Queued => time[v] + Work(v, w) <= time[w] + delta[v]
            /\ time[v] + Work(v, w) <= spacTime + delta[v] + delta[w]
        BY <1>1, <3>1 DEF Lag
      <4>3. CASE w = x
        <5>1. passed'[v][w] = passed[v][w] + 1 /\ passed[v][w] \in Nat
          BY <1>4, <1>10, <3>1, <4>1, <4>3
        <5>2. Work(v, w)' = Work(v, w) + delta[w]
          BY <3>1, <5>1, Products DEF Work
        <5>3. w \in Queued' => time'[w] = time[x] - c + delta[w]
          BY <1>2, <1>3, <1>9, <4>3
        <5>4. spacTime' = time[x] - c
          BY <1>2
        <5>5. time[v] + Work(v, w) <= time[x] + delta[v]
          BY <1>3, <4>2, <4>3
        <5> QED
          BY <3>1, <4>1, <5>2, <5>3, <5>4, <5>5
      <4>4. CASE w # x
        <5>1. Work(v, w)' = Work(v, w)
          BY <1>10, <3>1, <4>1, <4>4 DEF Work
        <5>2. w \in Queued' => time'[w] = time[w] - c
          BY <1>2, <1>3, <3>1, <4>4
        <5>3. spacTime <= time[x]
          BY <1>1, <1>3, <1>4 DEF Sorted
        <5>4. spacTime' = time[x] - c /\ spacTime \in Nat /\ c \in Nat
          BY <1>2, <1>4
        <5> QED
          BY <3>1, <4>1, <4>2, <5>1, <5>2, <5>3, <5>4
      <4> QED
        BY <4>3, <4>4
    <3> QED
      BY <3>2, <3>3
  <2> QED
    BY <2>1 DEF Lag
<1> QED
  BY <1>11, <1>12, <1>13 DEF IInv

-----------------------------------------------------------------------------
LEMMA Invariant == Spec => []IInv
<1>1. ASSUME IInv, [Next]_vars PROVE IInv'
  <2>1. CASE UNCHANGED vars
    <3>1. TypeOK'
      BY <1>1, <2>1 DEF IInv, TypeOK, vars, wfq
    <3> QED
      BY <1>1, <2>1, <3>1, KeepsInv DEF IInv, Sorted, vars, wfq
  <2> QED
    BY <1>1, <2>1, ArriveInv, ServeInv, ResetInv, PhaseInv, EnqueueFirstInv, EnqueueNextInv
    DEF Next
<1> QED
  BY <1>1, InitInv, PTL DEF Spec

(* The variables of muxWFQ keep their types: no time is ever negative, so  *)
(* that no difference of unsigned numbers wraps.                           *)
THEOREM TypeCorrect == Spec => []TypeOK
<1>1. IInv => TypeOK
  BY DEF IInv
<1> QED
  BY <1>1, Invariant, PTL

(* The sort queue holds the VCs with cells, in the order of their times,   *)
(* across every setback of the spacing time: restim() meets no error.      *)
THEOREM AlwaysSorted == Spec => []Sorted
<1>1. IInv => Sorted
  BY DEF IInv
<1> QED
  BY <1>1, Invariant, PTL

(* While a cell of v waits, w sends no more than both shares allow.        *)
THEOREM FairShares == Spec => []Share
<1>1. IInv => Share
  <2> SUFFICES ASSUME IInv, NEW v \in Queued, NEW w \in VC \ {v}
               PROVE  passed[v][w] * delta[w] <= delta[v] + delta[w]
    BY DEF Share
  <2>1. TypeOK /\ Sorted /\ Lag
    BY DEF IInv
  <2>2. /\ v \in VC /\ w \in VC /\ Work(v, w) \in Nat /\ time[v] \in Nat
        /\ delta[v] \in Nat /\ delta[w] \in Nat /\ spacTime \in Nat
    BY <2>1, Types
  <2>3. time[v] + Work(v, w) <= spacTime + delta[v] + delta[w] /\ spacTime <= time[v]
    BY <2>1, <2>2 DEF Lag, Sorted
  <2>4. Work(v, w) <= delta[v] + delta[w]
    BY <2>2, <2>3
  <2> QED
    BY <2>4 DEF Work
<1> QED
  BY <1>1, Invariant, PTL
=============================================================================
