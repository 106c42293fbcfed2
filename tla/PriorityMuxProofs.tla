------------------------- MODULE PriorityMuxProofs -------------------------
(***************************************************************************)
(* Proofs about the priority multiplexers, for any number of priorities,   *)
(* any service times, inputs, mappings and limits.                         *)
(*                                                                         *)
(* An idle server takes one of the highest priority that arrived, whatever *)
(* the order late() goes through the arrivals in: until it does, the       *)
(* queues of this priority and of all higher ones stay empty, and the      *)
(* arrival that ends its idleness is still to come.  Conservation of the   *)
(* items is inductive beside that, at the end of the module.               *)
(***************************************************************************)
EXTENDS PriorityMux, TLAPS, WellFoundedInduction

(* The arrivals of the slot.                                               *)
Arrivals ==
  /\ \A f \in inpPrioBuf : f.prio <= maxArrPrio /\ f.slot = burst
  /\ inpPrioBuf # {} /\ (phase = "early" \/ serverState = "idling") =>
       \E f \in inpPrioBuf : f.prio = maxArrPrio
  /\ inpPrioBuf = {} => maxArrPrio = 0
  /\ phase = "late" => inpPrioBuf # {}
  /\ phase = "end" => inpPrioBuf = {}
  /\ phase # "early" => needToSchedule
  /\ phase = "early" => (needToSchedule <=> inpPrioBuf = {})
  /\ phase = "early" /\ used = {} => inpPrioBuf = {}

(* The server.                                                             *)
Server ==
  /\ phase \in {"early", "end"} /\ serverState = "idling" => ~ Waiting
  /\ phase = "late" /\ serverState = "idling" =>
       \A p \in Prio : p >= maxArrPrio => prioQ[p] = <<>>
  /\ serverState = "syncing" => Waiting
  /\ serverState = "serving" <=> server # None
  /\ serverState = "idling" <=> std_evt = None
  /\ \A p \in Prio : qmax[p] # 0

(* The server's event and the output cycle: it is due where services       *)
(* begin, in this cycle or in the next.                                    *)
Timing ==
  /\ phase # "early" => std_evt # 0
  /\ serverState = "idling" => begin = 0
  /\ syncMode => std_evt \in (0 .. serviceTime) \cup {None}
  /\ syncMode /\ std_evt \in Nat =>
       std_evt + cycle = begin + serviceTime \/ std_evt + cycle = begin

(* What is queued, in the server, and sent.                                *)
Queues ==
  \A p \in Prio : \A i \in DOMAIN prioQ[p] :
    /\ prioQ[p][i].prio = p
    /\ prioQ[p][i].slot <= burst
    /\ \A j \in DOMAIN prioQ[p] : i <= j => prioQ[p][i].slot <= prioQ[p][j].slot

Before(s, t, Q) ==
  /\ s # None =>
       /\ s.slot <= burst
       /\ s.prio \in Prio => \A i \in DOMAIN Q[s.prio] : s.slot <= Q[s.prio][i].slot
  /\ \A k \in DOMAIN t :
       /\ t[k].slot <= burst
       /\ s # None /\ s.prio = t[k].prio => t[k].slot <= s.slot
       /\ t[k].prio \in Prio =>
            \A i \in DOMAIN Q[t[k].prio] : t[k].slot <= Q[t[k].prio][i].slot

IInv ==
  TypeOK /\ Arrivals /\ Server /\ Timing /\ Queues /\ Before(server, out, prioQ) /\ InOrder

-----------------------------------------------------------------------------
(* A non-empty set of priorities has a largest element.                    *)
LEMMA LargestExists ==
  ASSUME NEW n \in Nat, NEW S, S \subseteq 0 .. n, S # {}
  PROVE  \E x \in S : \A y \in S : y <= x
<1> DEFINE R == OpToRel(<, Nat)
           T == {n - x : x \in S}
<1>1. IsWellFoundedOn(R, Nat)
  BY NatLessThanWellFounded
<1>2. \A x, y \in Nat : <<x, y>> \in R <=> x < y
  BY DEF OpToRel
<1> HIDE DEF R
<1>3. \A x \in S : x \in Nat /\ n - x \in Nat
  OBVIOUS
<1>4. T \subseteq Nat /\ T # {}
  BY <1>3
<1>5. PICK t \in T : \A u \in T : ~ (<<u, t>> \in R)
  BY <1>1, <1>4, WFMin
<1>6. PICK x \in S : t = n - x
  OBVIOUS
<1>7. ASSUME NEW y \in S PROVE y <= x
  <2>1. n - y \in T /\ n - y \in Nat /\ n - x \in Nat /\ x \in Nat /\ y \in Nat
    BY <1>3
  <2>2. ~ (n - y < n - x)
    BY <1>2, <1>5, <1>6, <2>1
  <2> QED
    BY <2>1, <2>2
<1> QED
  BY <1>7

LEMMA ItemFields ==
  /\ Prio \subseteq Nat /\ 0 \in Prio /\ nprio - 1 \in Prio /\ Code \subseteq Nat
  /\ \A f \in Item : f.prio \in Prio \cup Code /\ f.prio \in Nat /\ f.slot \in Nat
<1>1. Prio \subseteq Nat /\ 0 \in Prio /\ nprio - 1 \in Prio /\ Code \subseteq Nat
  BY PrioAssumption DEF Prio
<1>2. ASSUME NEW f \in Item
      PROVE  f.prio \in Prio \cup Code /\ f.slot \in Nat
  BY LimitAssumption DEF Item
<1> QED
  BY <1>1, <1>2

LEMMA HighestWaiting ==
  ASSUME Waiting
  PROVE  /\ Highest \in Prio /\ prioQ[Highest] # <<>>
         /\ \A q \in Prio : prioQ[q] # <<>> => q <= Highest
<1> DEFINE S == {p \in Prio : prioQ[p] # <<>>}
<1>1. nprio - 1 \in Nat /\ S \subseteq 0 .. nprio - 1 /\ S # {}
  BY PrioAssumption DEF Prio, Waiting
<1>2. \E p \in S : \A q \in S : q <= p
  BY <1>1, LargestExists
<1>3. \E p \in Prio : prioQ[p] # <<>> /\ \A q \in Prio : prioQ[q] # <<>> => q <= p
  BY <1>2
<1> QED
  BY <1>3 DEF Highest

LEMMA TimesPositive ==
  ASSUME TypeOK, NEW f \in Item
  PROVE  /\ LateTime(f) \in Nat \ {0} /\ EarlyTime(f) \in Nat
         /\ syncMode => LateTime(f) = serviceTime /\ EarlyTime(f) = serviceTime
<1>1. f.len \in Nat
  BY TimeAssumption DEF Item
<1>2. 16 * f.len + serviceRate \in Nat /\ 2 * serviceRate \in Nat \ {0}
  BY <1>1, TimeAssumption
<1>3. Ticks(f) \in Nat
  BY <1>2 DEF Ticks
<1>4. syncMode \in BOOLEAN
  BY ModeAssumption DEF TypeOK, syncMode
<1>5. CASE ByLength
  BY <1>3, <1>4, <1>5 DEF LateTime, EarlyTime, ByLength
<1>6. CASE ~ ByLength
  BY <1>6, TimeAssumption DEF LateTime, EarlyTime
<1> QED
  BY <1>5, <1>6

(* The queue the next item is taken from gets shorter, the item was the    *)
(* oldest in it.                                                           *)
LEMMA DequeueInv ==
  ASSUME IInv, Waiting, Dequeue
  PROVE  /\ server' \in Item /\ server'.prio = Highest /\ Highest \in Prio
         /\ prioQ' \in [Prio -> Seq(Item)] /\ qLens' \in [Prio -> Int]
         /\ qByteLens' = qByteLens /\ dropped' = dropped
         /\ \A p \in Prio : p > Highest => prioQ'[p] = <<>>
         /\ \A p \in Prio : \A i \in DOMAIN prioQ'[p] :
              \E j \in DOMAIN prioQ[p] : prioQ'[p][i] = prioQ[p][j]
         /\ server'.slot <= burst
         /\ \A i \in DOMAIN prioQ'[Highest] : server'.slot <= prioQ'[Highest][i].slot
         /\ \A p \in Prio : \A i, j \in DOMAIN prioQ'[p] :
              i <= j => prioQ'[p][i].slot <= prioQ'[p][j].slot
         /\ \E j \in DOMAIN prioQ[Highest] : server' = prioQ[Highest][j]
<1> DEFINE h == Highest
<1>1. h \in Prio /\ prioQ[h] # <<>> /\ \A q \in Prio : prioQ[q] # <<>> => q <= h
  BY HighestWaiting
<1> HIDE DEF h
<1>2. /\ prioQ \in [Prio -> Seq(Item)] /\ qLens \in [Prio -> Int]
      /\ prioQ' = [prioQ EXCEPT ![h] = Tail(@)]
      /\ qLens' = [qLens EXCEPT ![h] = @ - 1]
      /\ server' = Head(prioQ[h])
      /\ qByteLens' = qByteLens /\ dropped' = dropped
  BY DEF IInv, TypeOK, Dequeue, h
<1>3. prioQ[h] \in Seq(Item) /\ Len(prioQ[h]) > 0 /\ Tail(prioQ[h]) \in Seq(Item)
  BY <1>1, <1>2
<1>4. server' = prioQ[h][1] /\ 1 \in DOMAIN prioQ[h] /\ server' \in Item
  BY <1>2, <1>3
<1>5. /\ prioQ'[h] = Tail(prioQ[h])
      /\ \A p \in Prio : p # h => prioQ'[p] = prioQ[p]
      /\ prioQ' \in [Prio -> Seq(Item)]
  BY <1>1, <1>2, <1>3
<1>6. \A i \in DOMAIN prioQ'[h] : i + 1 \in DOMAIN prioQ[h] /\ prioQ'[h][i] = prioQ[h][i + 1]
                                  /\ i \in Nat
  BY <1>3, <1>5
<1>7. \A i \in DOMAIN prioQ[h] :
        /\ prioQ[h][i].prio = h /\ prioQ[h][i].slot <= burst
        /\ \A j \in DOMAIN prioQ[h] : i <= j => prioQ[h][i].slot <= prioQ[h][j].slot
  BY <1>1 DEF IInv, Queues
<1>8. server'.prio = h /\ server'.slot <= burst
  BY <1>4, <1>7
<1>9. \A p \in Prio : p > h => prioQ'[p] = <<>>
  <2> SUFFICES ASSUME NEW p \in Prio, p > h PROVE prioQ'[p] = <<>>
    OBVIOUS
  <2>1. p \in Int /\ h \in Int
    BY <1>1, PrioAssumption DEF Prio
  <2>2. p # h /\ ~ (p <= h)
    BY <2>1
  <2> QED
    BY <1>1, <1>5, <2>2
<1>10. \A p \in Prio : \A i \in DOMAIN prioQ'[p] :
         \E j \in DOMAIN prioQ[p] : prioQ'[p][i] = prioQ[p][j]
  <2> SUFFICES ASSUME NEW p \in Prio, NEW i \in DOMAIN prioQ'[p]
               PROVE  \E j \in DOMAIN prioQ[p] : prioQ'[p][i] = prioQ[p][j]
    OBVIOUS
  <2>1. CASE p = h
    BY <1>6, <2>1
  <2>2. CASE p # h
    BY <1>5, <2>2
  <2> QED
    BY <2>1, <2>2
<1>11. \A i \in DOMAIN prioQ'[h] : server'.slot <= prioQ'[h][i].slot
  BY <1>4, <1>6, <1>7
<1>12. \A p \in Prio : \A i, j \in DOMAIN prioQ'[p] :
         i <= j => prioQ'[p][i].slot <= prioQ'[p][j].slot
  <2> SUFFICES ASSUME NEW p \in Prio, NEW i \in DOMAIN prioQ'[p], NEW j \in DOMAIN prioQ'[p],
                      i <= j
               PROVE  prioQ'[p][i].slot <= prioQ'[p][j].slot
    OBVIOUS
  <2>1. CASE p = h
    <3>1. i + 1 <= j + 1
      BY <1>6, <2>1
    <3> QED
      BY <1>6, <1>7, <2>1, <3>1
  <2>2. CASE p # h
    BY <1>5, <2>2 DEF IInv, Queues
  <2> QED
    BY <2>1, <2>2
<1>13. qLens' \in [Prio -> Int]
  BY <1>1, <1>2
<1> QED
  BY <1>1, <1>2, <1>4, <1>5, <1>8, <1>9, <1>10, <1>11, <1>12, <1>13 DEF h

-----------------------------------------------------------------------------
LEMMA InitInv == Init => IInv
<1> SUFFICES ASSUME Init PROVE IInv
  OBVIOUS
<1>1. 0 \in Prio /\ nprio \in Nat
  BY PrioAssumption DEF Prio
<1>2. \A p \in Prio : prioQ[p] = <<>> /\ qmax[p] = 1
  BY DEF Init
<1>3. /\ prioQ \in [Prio -> Seq(Item)] /\ qmax \in [Prio -> Nat]
      /\ qLens \in [Prio -> Int] /\ qByteLens \in [Prio -> Nat]
      /\ out \in Seq(Item)
  BY DEF Init
<1>4. cycle \in 0 .. serviceTime - 1 /\ arrived \in 0 .. MaxItems /\ burst \in 0 .. arrived
  BY TimeAssumption, LimitAssumption DEF Init
<1>4a. /\ priorities \in [Code -> Prio \cup Code] /\ begin \in 0 .. serviceTime - 1
       /\ \A c \in Code : priorities[c] \in Prio \/ (isFrm /\ priorities[c] = c)
  BY ItemFields, TimeAssumption DEF Init
<1>5. TypeOK
  BY <1>1, <1>3, <1>4, <1>4a DEF Init, TypeOK
<1>6. Arrivals
  BY DEF Init, Arrivals
<1>7. Server
  BY <1>2 DEF Init, Server, Waiting
<1>8. Timing
  BY NoneAssumption DEF Init, Timing
<1>9. Queues /\ Before(server, out, prioQ) /\ InOrder
  BY <1>2 DEF Init, Queues, Before, InOrder
<1> QED
  BY <1>5, <1>6, <1>7, <1>8, <1>9 DEF IInv

(* Commands of the script change the limits and the mapping only.          *)
LEMMA CommandInv ==
  ASSUME IInv, Command
  PROVE  IInv'
<1>1. UNCHANGED <<queues, service, inputs, mode, phase, cycle, out, begin>>
  BY DEF Command, SetQueueMax, SetPriority
<1>2. /\ qmax' \in [Prio -> Nat] /\ \A p \in Prio : qmax'[p] # 0
      /\ priorities' \in [Code -> Prio \cup Code]
      /\ \A c \in Code : priorities'[c] \in Prio \/ (isFrm' /\ priorities'[c] = c)
  <2>1. CASE \E p \in Prio, len \in Limit : SetQueueMax(p, len)
    <3>1. PICK p \in Prio, len \in Limit : SetQueueMax(p, len)
      BY <2>1
    <3>2. len + 1 \in Nat /\ len + 1 # 0
      BY LimitAssumption
    <3> QED
      BY <3>1, <3>2 DEF SetQueueMax, IInv, TypeOK, Server, isFrm
  <2>2. CASE \E c \in Code, p \in Prio : SetPriority(c, p)
    BY <2>2 DEF SetPriority, IInv, TypeOK, Server, isFrm
  <2> QED
    BY <2>1, <2>2 DEF Command
<1>3. TypeOK'
  BY <1>1, <1>2 DEF IInv, TypeOK, queues, service, inputs
<1>4. Arrivals'
  BY <1>1 DEF IInv, Arrivals, service, inputs
<1>5. Server'
  BY <1>1, <1>2 DEF IInv, Server, queues, service, inputs, Waiting
<1>6. Timing'
  BY <1>1 DEF IInv, Timing, service, syncMode
<1>7. Queues' /\ Before(server, out, prioQ)' /\ InOrder'
  BY <1>1 DEF IInv, Queues, Before, InOrder, queues, service, inputs
<1> QED
  BY <1>3, <1>4, <1>5, <1>6, <1>7 DEF IInv

(* What the properties say of the queues survives a higher burst.          *)
LEMMA ArriveInv ==
  ASSUME IInv, NEW i \in Input, NEW c \in Code, NEW b \in Bytes, Arrive(i, c, b)
  PROVE  IInv'
<1> DEFINE p == priorities[c]
<1>1. PICK f : f = [id |-> arrived + 1, prio |-> p, len |-> b, slot |-> burst']
  OBVIOUS
<1>2. /\ UNCHANGED <<queues, service, config, phase, cycle, out, begin>>
      /\ phase = "early" /\ arrived' = arrived + 1 /\ arrived < MaxItems
      /\ used' = used \cup {i} /\ needToSchedule' = FALSE
      /\ burst' = IF used = {} THEN burst + 1 ELSE burst
      /\ maxArrPrio' = IF p > maxArrPrio THEN p ELSE maxArrPrio
      /\ inpPrioBuf' = inpPrioBuf \cup {f}
  BY <1>1 DEF Arrive
<1>3. /\ arrived \in Nat /\ burst \in 0 .. arrived /\ MaxItems \in Nat
      /\ p \in Prio \cup Code /\ maxArrPrio \in Prio \cup Code
  BY LimitAssumption DEF IInv, TypeOK
<1> HIDE DEF p
<1>3a. p \in Nat /\ maxArrPrio \in Nat
  BY <1>3, ItemFields
<1>4. /\ arrived' \in 0 .. MaxItems /\ burst' \in 0 .. arrived'
      /\ burst' \in 0 .. MaxItems /\ arrived + 1 \in 1 .. MaxItems
      /\ burst \in Nat /\ burst' \in Nat /\ burst <= burst'
  BY <1>2, <1>3
<1>5. f \in Item /\ f.prio = p /\ f.slot = burst'
  BY <1>1, <1>3, <1>4 DEF Item
<1>6. p <= maxArrPrio' /\ maxArrPrio <= maxArrPrio' /\ maxArrPrio' \in {p, maxArrPrio}
  BY <1>2, <1>3a
<1>7. TypeOK'
  BY <1>2, <1>3, <1>4, <1>5, <1>6 DEF IInv, TypeOK, queues, service, config, isFrm
<1>8. Arrivals'
  <2>1. \A g \in inpPrioBuf' : g.prio <= maxArrPrio' /\ g.slot = burst'
    <3> SUFFICES ASSUME NEW g \in inpPrioBuf' PROVE g.prio <= maxArrPrio' /\ g.slot = burst'
      OBVIOUS
    <3>1. CASE g = f
      BY <1>5, <1>6, <3>1
    <3>2. CASE g \in inpPrioBuf
      <4>1. used # {} /\ g.prio <= maxArrPrio /\ g.slot = burst
        BY <1>2, <3>2 DEF IInv, Arrivals
      <4>2. g.prio \in Nat
        BY ItemFields, <3>2 DEF IInv, TypeOK
      <4>3. maxArrPrio' \in Nat /\ burst' = burst
        BY <1>2, <1>6, <1>3a, <4>1
      <4> QED
        BY <1>6, <1>3a, <4>1, <4>2, <4>3
    <3> QED
      BY <1>2, <3>1, <3>2
  <2>2. \E g \in inpPrioBuf' : g.prio = maxArrPrio'
    <3>1. CASE maxArrPrio' = p
      BY <1>2, <1>5, <3>1
    <3>2. CASE maxArrPrio' # p
      <4>1. maxArrPrio' = maxArrPrio /\ maxArrPrio # 0
        BY <1>2, <1>6, <1>3a, <3>2
      <4> QED
        BY <1>2, <4>1 DEF IInv, Arrivals
    <3> QED
      BY <3>1, <3>2
  <2>3. inpPrioBuf' # {} /\ phase' = "early" /\ used' # {} /\ ~ needToSchedule'
    BY <1>2
  <2> QED
    BY <2>1, <2>2, <2>3 DEF Arrivals
<1>9. Server'
  BY <1>2 DEF IInv, Server, queues, service, config, Waiting
<1>10. Timing'
  BY <1>2 DEF IInv, Timing, service, config, syncMode
<1>11. Queues' /\ Before(server, out, prioQ)' /\ InOrder'
  <2>1. \A q \in Prio : \A k \in DOMAIN prioQ[q] : prioQ[q][k].slot \in Nat
    <3> SUFFICES ASSUME NEW q \in Prio, NEW k \in DOMAIN prioQ[q]
                 PROVE  prioQ[q][k].slot \in Nat
      OBVIOUS
    <3>1. prioQ[q] \in Seq(Item)
      BY DEF IInv, TypeOK
    <3>2. prioQ[q][k] \in Item
      BY <3>1
    <3> QED
      BY <3>2, ItemFields
  <2>2. (server # None => server.slot \in Nat) /\ \A k \in DOMAIN out : out[k].slot \in Nat
    <3>1. out \in Seq(Item) /\ server \in Item \cup {None}
      BY DEF IInv, TypeOK
    <3>2. \A k \in DOMAIN out : out[k] \in Item
      BY <3>1
    <3> QED
      BY <3>1, <3>2, ItemFields
  <2>3. Queues'
    BY <1>2, <1>4, <2>1 DEF IInv, Queues, queues
  <2>4. Before(server, out, prioQ)'
    BY <1>2, <1>4, <2>2 DEF IInv, Before, queues, service
  <2> QED
    BY <1>2, <2>3, <2>4 DEF IInv, InOrder
<1> QED
  BY <1>7, <1>8, <1>9, <1>10, <1>11 DEF IInv

-----------------------------------------------------------------------------
(* What left before the queued items did leaves before the one taken.      *)
LEMMA TakenLater ==
  ASSUME IInv, Waiting, Dequeue, NEW f \in Item,
         f.prio \in Prio =>
           \A i \in DOMAIN prioQ[f.prio] : f.slot <= prioQ[f.prio][i].slot
  PROVE  /\ f.prio \in Prio =>
              \A i \in DOMAIN prioQ'[f.prio] : f.slot <= prioQ'[f.prio][i].slot
         /\ server'.prio = f.prio => f.slot <= server'.slot
<1>2. ASSUME f.prio \in Prio
      PROVE  \A i \in DOMAIN prioQ'[f.prio] : f.slot <= prioQ'[f.prio][i].slot
  BY <1>2, DequeueInv
<1>3. ASSUME server'.prio = f.prio PROVE f.slot <= server'.slot
  BY <1>3, DequeueInv
<1> QED
  BY <1>2, <1>3

(* What has been sent, with the item that was in the server.               *)
LEMMA SentInOrder ==
  ASSUME IInv, \/ out' = out
               \/ server # None /\ out' = Append(out, server)
  PROVE  /\ out' \in Seq(Item) /\ InOrder'
         /\ \A k \in DOMAIN out' :
              /\ out'[k] \in Item /\ out'[k].slot <= burst
              /\ out'[k].prio \in Prio =>
                   \A i \in DOMAIN prioQ[out'[k].prio] :
                     out'[k].slot <= prioQ[out'[k].prio][i].slot
<1>1. out \in Seq(Item) /\ \A k \in DOMAIN out : out[k] \in Item
  BY DEF IInv, TypeOK
<1>2. CASE out' = out
  BY <1>1, <1>2 DEF IInv, Before, InOrder
<1>3. CASE server # None /\ out' = Append(out, server)
  <2>1. server \in Item
    BY <1>3 DEF IInv, TypeOK
  <2>2. /\ out' \in Seq(Item) /\ DOMAIN out' = 1 .. Len(out) + 1 /\ Len(out) \in Nat
        /\ DOMAIN out = 1 .. Len(out)
        /\ \A k \in 1 .. Len(out) : out'[k] = out[k]
        /\ out'[Len(out) + 1] = server
    BY <1>1, <1>3, <2>1
  <2>3. InOrder'
    <3> SUFFICES ASSUME NEW i \in DOMAIN out', NEW j \in DOMAIN out', i < j,
                        out'[i].prio = out'[j].prio
                 PROVE  out'[i].slot <= out'[j].slot
      BY DEF InOrder
    <3>1. i \in DOMAIN out /\ out'[i] = out[i]
      BY <2>2
    <3>2. CASE j \in DOMAIN out
      BY <2>2, <3>1, <3>2 DEF IInv, InOrder
    <3>3. CASE j = Len(out) + 1
      BY <1>3, <2>2, <3>1, <3>3 DEF IInv, Before
    <3> QED
      BY <2>2, <3>2, <3>3
  <2>4. \A k \in DOMAIN out' :
          /\ out'[k] \in Item /\ out'[k].slot <= burst
          /\ out'[k].prio \in Prio =>
               \A i \in DOMAIN prioQ[out'[k].prio] :
                 out'[k].slot <= prioQ[out'[k].prio][i].slot
    <3> SUFFICES ASSUME NEW k \in DOMAIN out'
                 PROVE  /\ out'[k] \in Item /\ out'[k].slot <= burst
                        /\ out'[k].prio \in Prio =>
                             \A i \in DOMAIN prioQ[out'[k].prio] :
                               out'[k].slot <= prioQ[out'[k].prio][i].slot
      OBVIOUS
    <3>1. CASE k \in DOMAIN out
      BY <1>1, <2>2, <3>1 DEF IInv, Before
    <3>2. CASE k = Len(out) + 1
      BY <1>3, <2>1, <2>2, <3>2 DEF IInv, Before
    <3> QED
      BY <2>2, <3>1, <3>2
  <2> QED
    BY <2>2, <2>3, <2>4
<1> QED
  BY <1>2, <1>3

LEMMA TakeNextOrder ==
  ASSUME IInv, Waiting, Dequeue, burst' = burst,
         \/ out' = out
         \/ server # None /\ out' = Append(out, server)
  PROVE  Queues' /\ Before(server, out, prioQ)'
<1>1. Queues'
  <2> SUFFICES ASSUME NEW p \in Prio, NEW i \in DOMAIN prioQ'[p]
               PROVE  /\ prioQ'[p][i].prio = p /\ prioQ'[p][i].slot <= burst
                      /\ \A j \in DOMAIN prioQ'[p] :
                           i <= j => prioQ'[p][i].slot <= prioQ'[p][j].slot
    BY DEF Queues
  <2>1. PICK j \in DOMAIN prioQ[p] : prioQ'[p][i] = prioQ[p][j]
    BY DequeueInv
  <2>2. prioQ[p][j].prio = p /\ prioQ[p][j].slot <= burst
    BY DEF IInv, Queues
  <2> QED
    BY <2>1, <2>2, DequeueInv
<1>2. Before(server, out, prioQ)'
  <2>1. server'.slot <= burst' /\ \A i \in DOMAIN prioQ'[server'.prio] :
                                     server'.slot <= prioQ'[server'.prio][i].slot
    BY DequeueInv
  <2>2. ASSUME NEW k \in DOMAIN out'
        PROVE  /\ out'[k].slot <= burst'
               /\ server'.prio = out'[k].prio => out'[k].slot <= server'.slot
               /\ out'[k].prio \in Prio =>
                    \A i \in DOMAIN prioQ'[out'[k].prio] :
                      out'[k].slot <= prioQ'[out'[k].prio][i].slot
    <3>1. /\ out'[k] \in Item /\ out'[k].slot <= burst
          /\ out'[k].prio \in Prio =>
               \A i \in DOMAIN prioQ[out'[k].prio] :
                 out'[k].slot <= prioQ[out'[k].prio][i].slot
      BY <2>2, SentInOrder
    <3>2. PICK f \in Item : f = out'[k]
      BY <3>1
    <3>3. /\ f.prio \in Prio =>
               \A i \in DOMAIN prioQ'[f.prio] : f.slot <= prioQ'[f.prio][i].slot
          /\ server'.prio = f.prio => f.slot <= server'.slot
      BY <3>1, <3>2, TakenLater
    <3> QED
      BY <3>1, <3>2, <3>3
  <2> QED
    BY <2>1, <2>2 DEF Before
<1> QED
  BY <1>1, <1>2

(* The next item is taken from the queues at the end of a service.         *)
LEMMA ServedInv ==
  ASSUME IInv, Served
  PROVE  IInv'
<1>1. /\ phase = "early" /\ phase' = "early" /\ std_evt = 0 /\ serverState = "serving"
      /\ out' = Append(out, server) /\ server \in Item /\ server # None
      /\ UNCHANGED <<inputs, config, cycle>>
  BY DEF IInv, TypeOK, Server, Served
<1>2. out' \in Seq(Item) /\ InOrder'
  BY <1>1, SentInOrder
<1>3. Arrivals'
  BY <1>1 DEF IInv, Arrivals, inputs
<1>4. CASE Waiting
  <2>1. /\ Dequeue /\ serverState' = "serving"
        /\ std_evt' = IF EarlyTime(server') = 0 THEN Missed ELSE EarlyTime(server')
    BY <1>1, <1>4 DEF Served, Alarme
  <2>2. /\ server' \in Item
        /\ prioQ' \in [Prio -> Seq(Item)] /\ qLens' \in [Prio -> Int]
        /\ qByteLens' = qByteLens /\ dropped' = dropped
    BY <1>4, <2>1, DequeueInv
  <2>3. /\ EarlyTime(server') \in Nat
        /\ syncMode => EarlyTime(server') = serviceTime
    BY <2>2, TimesPositive DEF IInv
  <2>4. TypeOK'
    <3>1. begin' = begin
      BY <1>4 DEF Served
    <3> QED
      BY <1>1, <1>2, <2>1, <2>2, <2>3, <3>1 DEF IInv, TypeOK, inputs, config, isFrm
  <2>5. Server'
    BY <1>1, <2>1, <2>2, <2>3, NoneAssumption DEF IInv, Server, config
  <2>6. Timing'
    <3>1. ASSUME syncMode
          PROVE  std_evt' = serviceTime /\ cycle = begin
      <4>1. std_evt' = serviceTime
        BY <2>1, <2>3, <3>1, TimeAssumption
      <4>2. cycle = begin
        BY <1>1, <3>1, TimeAssumption DEF IInv, TypeOK, Timing
      <4> QED
        BY <4>1, <4>2
    <3>2. begin' = begin /\ begin \in Nat
      BY <1>4, TimeAssumption DEF Served, IInv, TypeOK
    <3> QED
      BY <1>1, <2>1, <3>1, <3>2, TimeAssumption DEF Timing, config, syncMode
  <2>7. Queues' /\ Before(server, out, prioQ)'
    BY <1>1, <1>4, <2>1, TakeNextOrder DEF inputs
  <2> QED
    BY <1>2, <1>3, <2>4, <2>5, <2>6, <2>7 DEF IInv
<1>5. CASE ~ Waiting
  <2>1. /\ server' = None /\ std_evt' = None /\ serverState' = "idling"
        /\ UNCHANGED queues /\ begin' = 0
    BY <1>5 DEF Served
  <2>2. TypeOK'
    <3>1. begin' \in 0 .. serviceTime - 1
      BY <2>1, TimeAssumption
    <3> QED
      BY <1>1, <1>2, <2>1, <3>1 DEF IInv, TypeOK, inputs, config, queues, isFrm
  <2>3. Server'
    BY <1>1, <1>5, <2>1 DEF IInv, Server, queues, config, Waiting
  <2>4. Timing'
    BY <1>1, <2>1, NoneAssumption DEF Timing
  <2>5. Queues'
    BY <1>1, <2>1 DEF IInv, Queues, queues, inputs
  <2>6. Before(server, out, prioQ)'
    <3>1. \A k \in DOMAIN out' :
            /\ out'[k].slot <= burst
            /\ out'[k].prio \in Prio =>
                 \A i \in DOMAIN prioQ[out'[k].prio] :
                   out'[k].slot <= prioQ[out'[k].prio][i].slot
      BY <1>1, SentInOrder
    <3> QED
      BY <1>1, <2>1, <3>1 DEF Before, queues, inputs
  <2> QED
    BY <1>2, <1>3, <2>2, <2>3, <2>4, <2>5, <2>6 DEF IInv
<1> QED
  BY <1>4, <1>5

(* There is an item when an output cycle begins.                           *)
LEMMA CycleBeginsInv ==
  ASSUME IInv, CycleBegins
  PROVE  IInv'
<1>1. /\ phase = "early" /\ phase' = "early" /\ std_evt = 0 /\ serverState = "syncing"
      /\ Waiting /\ Dequeue /\ serverState' = "serving" /\ std_evt' = serviceTime
      /\ UNCHANGED <<inputs, config, cycle, out, begin>>
  BY TimeAssumption DEF IInv, Server, CycleBegins, Alarme
<1>2. /\ server' \in Item
      /\ prioQ' \in [Prio -> Seq(Item)] /\ qLens' \in [Prio -> Int]
      /\ qByteLens' = qByteLens /\ dropped' = dropped
  BY <1>1, DequeueInv
<1>3. TypeOK'
  BY <1>1, <1>2, TimeAssumption DEF IInv, TypeOK, inputs, config, isFrm
<1>4. Arrivals'
  BY <1>1 DEF IInv, Arrivals, inputs
<1>5. Server'
  BY <1>1, <1>2, NoneAssumption, TimeAssumption DEF IInv, Server, config
<1>6. Timing'
  <2>1. (syncMode => cycle = begin) /\ begin \in Nat
    BY <1>1, TimeAssumption DEF IInv, TypeOK, Timing
  <2> QED
    BY <1>1, <2>1, TimeAssumption DEF Timing, config, syncMode
<1>7. Queues' /\ Before(server, out, prioQ)' /\ InOrder'
  BY <1>1, TakeNextOrder, SentInOrder DEF inputs
<1> QED
  BY <1>3, <1>4, <1>5, <1>6, <1>7 DEF IInv

LEMMA EnterLateInv ==
  ASSUME IInv, EnterLate
  PROVE  IInv'
<1>1. /\ phase = "early" /\ std_evt # 0 /\ needToSchedule' = TRUE
      /\ phase' = IF needToSchedule THEN "end" ELSE "late"
      /\ UNCHANGED <<queues, service, inpPrioBuf, maxArrPrio, used, arrived, burst,
                     config, cycle, out, begin>>
  BY DEF EnterLate
<1>2. TypeOK'
  BY <1>1 DEF IInv, TypeOK, queues, service, config, isFrm
<1>3. Arrivals'
  BY <1>1 DEF IInv, Arrivals, service
<1>4. Server'
  BY <1>1 DEF IInv, Server, queues, service, config, Waiting
<1>5. Timing'
  BY <1>1 DEF IInv, Timing, service, config, syncMode
<1>6. Queues' /\ Before(server, out, prioQ)' /\ InOrder'
  BY <1>1 DEF IInv, Queues, Before, InOrder, queues, service
<1> QED
  BY <1>2, <1>3, <1>4, <1>5, <1>6 DEF IInv

-----------------------------------------------------------------------------
(* late() goes on to the next arrival; if the server is to stay idle, the  *)
(* one treated was not of the highest priority.                            *)
LEMMA NextArrivalInv ==
  ASSUME IInv, NEW f \in inpPrioBuf, NextArrival(f),
         serverState' = "idling" => f.prio # maxArrPrio /\ serverState = "idling"
  PROVE  /\ Arrivals'
         /\ serverState' = "idling" => phase' = "late" /\ maxArrPrio' = maxArrPrio
         /\ maxArrPrio' \in Prio \cup Code /\ inpPrioBuf' \subseteq Item
         /\ phase' \in {"late", "end"}
<1>1. /\ phase = "late" /\ inpPrioBuf' = inpPrioBuf \ {f}
      /\ IF inpPrioBuf' = {} THEN phase' = "end" /\ maxArrPrio' = 0
                             ELSE phase' = phase /\ maxArrPrio' = maxArrPrio
      /\ UNCHANGED <<needToSchedule, used, arrived, burst, config, cycle, out, begin>>
  BY DEF NextArrival
<1>2. ASSUME serverState' = "idling"
      PROVE  \E g \in inpPrioBuf' : g.prio = maxArrPrio
  BY <1>1, <1>2 DEF IInv, Arrivals
<1>3. Arrivals'
  <2>1. CASE inpPrioBuf' = {}
    BY <1>1, <1>2, <2>1 DEF IInv, Arrivals
  <2>2. CASE inpPrioBuf' # {}
    BY <1>1, <1>2, <2>2 DEF IInv, Arrivals
  <2> QED
    BY <2>1, <2>2
<1> QED
  BY <1>1, <1>2, <1>3, ItemFields DEF IInv, TypeOK

(* The queue of an item of this slot takes it at its end.                  *)
LEMMA AtTailInv ==
  ASSUME IInv, NEW f \in inpPrioBuf, f.prio \in Prio, AtTail(f), server' = server, out' = out, burst' = burst
  PROVE  /\ prioQ' \in [Prio -> Seq(Item)] /\ qLens' \in [Prio -> Int]
         /\ prioQ'[f.prio] # <<>> /\ f.prio \in Prio
         /\ \A p \in Prio : p # f.prio => prioQ'[p] = prioQ[p]
         /\ Queues' /\ Before(server, out, prioQ)' /\ InOrder'
<1> DEFINE p == f.prio
<1>1. /\ f \in Item /\ p \in Prio /\ f.slot = burst /\ burst \in Nat
      /\ prioQ \in [Prio -> Seq(Item)] /\ qLens \in [Prio -> Int]
      /\ prioQ' = [prioQ EXCEPT ![p] = Append(@, f)]
      /\ qLens' = [qLens EXCEPT ![p] = @ + 1]
  BY ItemFields DEF IInv, TypeOK, Arrivals, AtTail
<1> DEFINE n == Len(prioQ[p])
<1>2. prioQ[p] \in Seq(Item) /\ n \in Nat
  BY <1>1
<1>3. /\ prioQ'[p] = Append(prioQ[p], f) /\ prioQ'[p] \in Seq(Item)
      /\ prioQ' \in [Prio -> Seq(Item)] /\ qLens' \in [Prio -> Int]
      /\ \A q \in Prio : q # p => prioQ'[q] = prioQ[q]
  BY <1>1, <1>2
<1>4. /\ DOMAIN prioQ'[p] = 1 .. n + 1 /\ DOMAIN prioQ[p] = 1 .. n
      /\ prioQ'[p][n + 1] = f
      /\ \A i \in 1 .. n : prioQ'[p][i] = prioQ[p][i]
  BY <1>1, <1>2, <1>3
<1> HIDE DEF n
<1>5. \A q \in Prio : \A i \in DOMAIN prioQ'[q] :
        \/ i \in DOMAIN prioQ[q] /\ prioQ'[q][i] = prioQ[q][i]
        \/ q = p /\ i = n + 1 /\ prioQ'[q][i] = f
  <2> SUFFICES ASSUME NEW q \in Prio, NEW i \in DOMAIN prioQ'[q]
               PROVE  \/ i \in DOMAIN prioQ[q] /\ prioQ'[q][i] = prioQ[q][i]
                      \/ q = p /\ i = n + 1 /\ prioQ'[q][i] = f
    OBVIOUS
  <2>1. CASE q # p
    BY <1>3, <2>1
  <2>2. CASE q = p
    <3>1. i \in 1 .. n \/ i = n + 1
      BY <1>2, <1>4, <2>2
    <3> QED
      BY <1>4, <2>2, <3>1
  <2> QED
    BY <2>1, <2>2
<1>6. Queues'
  <2> SUFFICES ASSUME NEW q \in Prio, NEW i \in DOMAIN prioQ'[q]
               PROVE  /\ prioQ'[q][i].prio = q /\ prioQ'[q][i].slot <= burst
                      /\ \A j \in DOMAIN prioQ'[q] :
                           i <= j => prioQ'[q][i].slot <= prioQ'[q][j].slot
    BY DEF Queues
  <2>1. CASE q # p
    BY <1>3, <2>1 DEF IInv, Queues
  <2>2. CASE q = p
    <3>1. prioQ'[q][i].prio = q /\ prioQ'[q][i].slot <= burst
      BY <1>1, <1>5, <2>2 DEF IInv, Queues
    <3>2. ASSUME NEW j \in DOMAIN prioQ'[q], i <= j
          PROVE  prioQ'[q][i].slot <= prioQ'[q][j].slot
      <4>1. CASE j = n + 1
        BY <1>1, <1>4, <2>2, <3>1, <4>1
      <4>2. CASE j # n + 1
        <5>1. i \in 1 .. n /\ j \in 1 .. n
          BY <1>2, <1>4, <2>2, <3>2, <4>2
        <5> QED
          BY <1>4, <2>2, <3>2, <5>1 DEF IInv, Queues
      <4> QED
        BY <4>1, <4>2
    <3> QED
      BY <3>1, <3>2
  <2> QED
    BY <2>1, <2>2
<1>7. Before(server, out, prioQ)'
  <2>1. (server # None => server \in Item) /\ \A k \in DOMAIN out : out[k] \in Item
    BY DEF IInv, TypeOK
  <2>2. ASSUME NEW g \in Item, g.slot <= burst,
               g.prio \in Prio =>
                 \A i \in DOMAIN prioQ[g.prio] : g.slot <= prioQ[g.prio][i].slot
        PROVE  g.prio \in Prio =>
                 \A i \in DOMAIN prioQ'[g.prio] : g.slot <= prioQ'[g.prio][i].slot
    BY <1>1, <1>5, <2>2, ItemFields
  <2> QED
    BY <2>1, <2>2 DEF IInv, Before
<1>8. InOrder'
  BY DEF IInv, InOrder
<1>9. prioQ'[p] # <<>>
  BY <1>2, <1>3
<1> QED
  BY <1>1, <1>3, <1>6, <1>7, <1>8, <1>9

LEMMA StartServiceInv ==
  ASSUME IInv, NEW f \in inpPrioBuf, StartService(f)
  PROVE  IInv'
<1>1. /\ NextArrival(f) /\ phase = "late" /\ serverState = "idling" /\ f.prio = maxArrPrio
      /\ server' = f /\ serverState' = "serving" /\ std_evt' = LateTime(f)
      /\ syncMode => cycle = 0
      /\ UNCHANGED queues
      /\ UNCHANGED <<needToSchedule, used, arrived, burst, config, cycle, out, begin>>
  BY DEF StartService, NextArrival, Chosen
<1>2. /\ Arrivals' /\ maxArrPrio' \in Prio \cup Code /\ inpPrioBuf' \subseteq Item
      /\ phase' \in {"late", "end"}
  BY <1>1, NextArrivalInv
<1>3. /\ f \in Item /\ f # None /\ f.slot = burst
      /\ LateTime(f) \in Nat \ {0} /\ (syncMode => LateTime(f) = serviceTime)
  BY TimesPositive, ItemFields, NoneAssumption DEF IInv, TypeOK, Arrivals
<1>4. f.prio \in Prio => prioQ[f.prio] = <<>>
  <2>1. f.prio \in Nat
    BY <1>3, ItemFields
  <2>2. f.prio >= maxArrPrio
    BY <1>1, <2>1
  <2> QED
    BY <1>1, <1>3, <2>2 DEF IInv, Server
<1>5. TypeOK'
  BY <1>1, <1>2, <1>3 DEF IInv, TypeOK, queues, config, isFrm
<1>6. Server'
  BY <1>1, <1>3, NoneAssumption DEF IInv, Server, queues, config
<1>7. Timing'
  BY <1>1, <1>2, <1>3, TimeAssumption DEF IInv, Timing, config, syncMode
<1>8. Queues' /\ InOrder'
  BY <1>1 DEF IInv, Queues, InOrder, queues
<1>9. Before(server, out, prioQ)'
  <2>1. /\ f.slot <= burst
        /\ f.prio \in Prio =>
             \A i \in DOMAIN prioQ[f.prio] : f.slot <= prioQ[f.prio][i].slot
    BY <1>3, <1>4, ItemFields
  <2> QED
    BY <1>1, <1>3, <2>1 DEF IInv, Before, queues
<1> QED
  BY <1>2, <1>5, <1>6, <1>7, <1>8, <1>9 DEF IInv

(* The queue has room for the item that waits for the next output cycle,   *)
(* since it is empty.                                                      *)
LEMMA WaitForCycleInv ==
  ASSUME IInv, NEW f \in inpPrioBuf, WaitForCycle(f)
  PROVE  IInv'
<1>1. /\ NextArrival(f) /\ phase = "late" /\ serverState = "idling" /\ f.prio = maxArrPrio
      /\ f.prio \in Prio
      /\ IF Len(prioQ[f.prio]) < qmax[f.prio]
            THEN AtTail(f)
            ELSE qLens' = [qLens EXCEPT ![f.prio] = @ + 1] /\ prioQ' = prioQ
      /\ server' = server /\ serverState' = "syncing" /\ std_evt' = serviceTime - cycle
      /\ qByteLens' = qByteLens /\ dropped' = dropped
      /\ UNCHANGED <<needToSchedule, used, arrived, burst, config, cycle, out, begin>>
  BY DEF WaitForCycle, NextArrival, Chosen
<1>2. /\ Arrivals' /\ maxArrPrio' \in Prio \cup Code /\ inpPrioBuf' \subseteq Item
      /\ phase' \in {"late", "end"}
  BY <1>1, NextArrivalInv
<1>3. f.prio \in Prio /\ prioQ[f.prio] = <<>>
  <2>1. f \in Item /\ f.prio \in Nat
    BY ItemFields DEF IInv, TypeOK
  <2> QED
    BY <1>1, <2>1 DEF IInv, Server
<1>4. AtTail(f)
  <2>1. qmax[f.prio] \in Nat /\ qmax[f.prio] # 0 /\ Len(prioQ[f.prio]) = 0
    BY <1>3 DEF IInv, TypeOK, Server
  <2> QED
    BY <1>1, <2>1
<1>5. /\ prioQ' \in [Prio -> Seq(Item)] /\ qLens' \in [Prio -> Int]
      /\ prioQ'[f.prio] # <<>>
      /\ Queues' /\ Before(server, out, prioQ)' /\ InOrder'
  BY <1>1, <1>3, <1>4, AtTailInv
<1>6. serviceTime - cycle \in Nat \ {0} /\ cycle \in Nat
  BY TimeAssumption DEF IInv, TypeOK
<1>7. TypeOK'
  BY <1>1, <1>2, <1>5, <1>6 DEF IInv, TypeOK, config, isFrm
<1>8. Server'
  <2>1. Waiting'
    BY <1>3, <1>5 DEF Waiting
  <2>2. server' = None /\ std_evt' # None
    BY <1>1, <1>6, NoneAssumption DEF IInv, Server
  <2> QED
    BY <1>1, <2>1, <2>2 DEF IInv, Server, config
<1>9. Timing'
  BY <1>1, <1>6, TimeAssumption DEF IInv, Timing, syncMode, config
<1> QED
  BY <1>2, <1>5, <1>7, <1>8, <1>9 DEF IInv

LEMMA EnqueueInv ==
  ASSUME IInv, NEW f \in inpPrioBuf, Enqueue(f)
  PROVE  IInv'
<1>1. /\ NextArrival(f) /\ phase = "late"
      /\ serverState = "idling" => f.prio # maxArrPrio
      /\ f.prio \in Prio
      /\ UNCHANGED service
      /\ UNCHANGED <<needToSchedule, used, arrived, burst, config, cycle, out, begin>>
  BY DEF Enqueue, NextArrival, Chosen
<1>2. /\ Arrivals' /\ maxArrPrio' \in Prio \cup Code /\ inpPrioBuf' \subseteq Item
      /\ phase' \in {"late", "end"}
      /\ serverState' = "idling" => phase' = "late" /\ maxArrPrio' = maxArrPrio
  BY <1>1, NextArrivalInv DEF service
<1>3. f \in Item /\ f.prio \in Prio /\ f.len \in Nat /\ f.prio <= maxArrPrio
  BY <1>1, ItemFields, TimeAssumption DEF IInv, TypeOK, Arrivals, Item
<1>4. /\ prioQ' \in [Prio -> Seq(Item)] /\ qLens' \in [Prio -> Int]
      /\ qByteLens' \in [Prio -> Nat] /\ dropped' \subseteq Item
      /\ Queues' /\ Before(server, out, prioQ)' /\ InOrder'
      /\ \A p \in Prio : p # f.prio => prioQ'[p] = prioQ[p]
      /\ Waiting => Waiting'
  <2>1. CASE Len(prioQ[f.prio]) < qmax[f.prio]
    <3>1. /\ AtTail(f) /\ dropped' = dropped
          /\ qByteLens' = [qByteLens EXCEPT ![f.prio] = IF isFrm THEN @ + f.len ELSE @]
      BY <2>1 DEF Enqueue
    <3>2. qByteLens' \in [Prio -> Nat]
      <4>1. qByteLens \in [Prio -> Nat]
        BY DEF IInv, TypeOK
      <4>2. (IF isFrm THEN qByteLens[f.prio] + f.len ELSE qByteLens[f.prio]) \in Nat
        BY <1>3, <4>1
      <4> QED
        BY <1>3, <3>1, <4>1, <4>2
    <3>3. /\ prioQ' \in [Prio -> Seq(Item)] /\ qLens' \in [Prio -> Int]
          /\ prioQ'[f.prio] # <<>> /\ f.prio \in Prio
          /\ \A p \in Prio : p # f.prio => prioQ'[p] = prioQ[p]
          /\ Queues' /\ Before(server, out, prioQ)' /\ InOrder'
      BY <1>1, <1>3, <3>1, AtTailInv DEF service
    <3> QED
      BY <3>1, <3>2, <3>3 DEF IInv, TypeOK, Waiting
  <2>2. CASE ~ (Len(prioQ[f.prio]) < qmax[f.prio])
    <3>1. dropped' = dropped \cup {f} /\ UNCHANGED <<prioQ, qLens, qByteLens>>
      BY <2>2 DEF Enqueue
    <3>2. Queues' /\ Before(server, out, prioQ)' /\ InOrder'
      BY <1>1, <3>1 DEF IInv, Queues, Before, InOrder, service
    <3> QED
      BY <1>3, <3>1, <3>2 DEF IInv, TypeOK, Waiting
  <2> QED
    BY <2>1, <2>2
<1>5. TypeOK'
  BY <1>1, <1>2, <1>4 DEF IInv, TypeOK, service, config, isFrm
<1>6. Server'
  <2>1. ASSUME serverState = "idling", NEW p \in Prio, p >= maxArrPrio
        PROVE  prioQ'[p] = <<>>
    <3>1. p \in Nat /\ maxArrPrio \in Nat /\ f.prio \in Nat
      BY <1>3, <2>1, ItemFields DEF IInv, TypeOK
    <3>2. p # f.prio
      BY <1>1, <1>3, <2>1, <3>1
    <3> QED
      BY <1>1, <1>4, <2>1, <3>2 DEF IInv, Server
  <2> QED
    BY <1>1, <1>2, <1>4, <2>1 DEF IInv, Server, service, config
<1>7. Timing'
  BY <1>1, <1>2 DEF IInv, Timing, service, config, syncMode
<1> QED
  BY <1>2, <1>4, <1>5, <1>6, <1>7 DEF IInv

(* The slots of an output cycle are counted round.                         *)
LEMMA CycleNext ==
  ASSUME cycle \in 0 .. serviceTime - 1
  PROVE  NextCycle = IF cycle + 1 = serviceTime THEN 0 ELSE cycle + 1
<1>1. ASSUME NEW q \in Nat, NEW r \in 0 .. serviceTime - 1
      PROVE  (serviceTime * q + r) % serviceTime = r
  BY TimeAssumption
<1>2. CASE cycle + 1 = serviceTime
  <2>1. cycle + 1 = serviceTime * 1 + 0 /\ 0 \in 0 .. serviceTime - 1
    BY <1>2, TimeAssumption
  <2>2. (serviceTime * 1 + 0) % serviceTime = 0
    BY <1>1, <2>1
  <2> QED
    BY <1>2, <2>1, <2>2 DEF NextCycle
<1>3. CASE cycle + 1 # serviceTime
  <2>1. cycle + 1 = serviceTime * 0 + (cycle + 1) /\ cycle + 1 \in 0 .. serviceTime - 1
    BY <1>3, TimeAssumption
  <2>2. (serviceTime * 0 + (cycle + 1)) % serviceTime = cycle + 1
    BY <1>1, <2>1
  <2> QED
    BY <1>3, <2>1, <2>2 DEF NextCycle
<1> QED
  BY <1>2, <1>3

(* A slot begins: events come nearer, whatever the clock is set to.        *)
LEMMA SlotBeginsInv ==
  ASSUME IInv, SlotBegins, cycle' \in 0 .. serviceTime - 1, begin' \in 0 .. serviceTime - 1,
         Timing'
  PROVE  IInv'
<1>1. /\ phase = "end" /\ phase' = "early" /\ used' = {}
      /\ std_evt' = IF std_evt \in Nat THEN std_evt - 1 ELSE std_evt
      /\ UNCHANGED <<queues, serverState, server, inpPrioBuf, maxArrPrio,
                     needToSchedule, arrived, burst, config, out>>
  BY DEF SlotBegins
<1>2. std_evt # 0
  BY <1>1 DEF IInv, Timing
<1>3. std_evt' \in Nat \cup {None, Missed} /\ (std_evt' = None <=> std_evt = None)
  <2>1. CASE std_evt \in Nat
    BY <1>1, <1>2, <2>1, NoneAssumption
  <2>2. CASE std_evt \notin Nat
    BY <1>1, <2>2 DEF IInv, TypeOK
  <2> QED
    BY <2>1, <2>2
<1>4. TypeOK'
  BY <1>1, <1>3 DEF IInv, TypeOK, queues, config, isFrm
<1>5. Arrivals'
  BY <1>1 DEF IInv, Arrivals
<1>6. Server'
  BY <1>1, <1>3 DEF IInv, Server, queues, config, Waiting
<1>7. Queues' /\ Before(server, out, prioQ)' /\ InOrder'
  BY <1>1 DEF IInv, Queues, Before, InOrder, queues
<1> QED
  BY <1>4, <1>5, <1>6, <1>7 DEF IInv

LEMMA NextSlotInv ==
  ASSUME IInv, NextSlot
  PROVE  IInv'
<1>1. /\ SlotBegins /\ phase = "end" /\ phase' = "early" /\ begin' = begin
      /\ std_evt' = IF std_evt \in Nat THEN std_evt - 1 ELSE std_evt
      /\ serverState' = serverState /\ mode' = mode
  BY DEF NextSlot, SlotBegins, config
<1>2. /\ {cycle, begin} \subseteq 0 .. serviceTime - 1 /\ std_evt # 0
      /\ cycle' = IF cycle + 1 = serviceTime THEN 0 ELSE cycle + 1
  BY <1>1, CycleNext DEF NextSlot, IInv, TypeOK, Timing
<1>3. cycle' \in 0 .. serviceTime - 1
  BY <1>2, TimeAssumption
<1>4. Timing'
  <2>1. ASSUME syncMode
        PROVE  std_evt' \in (0 .. serviceTime) \cup {None}
    BY <1>1, <1>2, <2>1, NoneAssumption, TimeAssumption DEF IInv, Timing
  <2>2. ASSUME syncMode, std_evt' \in Nat
        PROVE  std_evt' + cycle' = begin + serviceTime \/ std_evt' + cycle' = begin
    <3>1. std_evt \in Nat
      BY <1>1, <2>2, NoneAssumption DEF IInv, TypeOK
    <3>2. /\ std_evt + cycle = begin + serviceTime \/ std_evt + cycle = begin
          /\ std_evt' = std_evt - 1 /\ cycle \in Nat /\ begin \in Nat
      BY <1>1, <1>2, <2>2, <3>1 DEF IInv, Timing
    <3>3. CASE cycle + 1 = serviceTime
      BY <1>2, <3>1, <3>2, <3>3, TimeAssumption
    <3>4. CASE cycle + 1 # serviceTime
      BY <1>2, <3>1, <3>2, <3>4, TimeAssumption
    <3> QED
      BY <3>3, <3>4
  <2> QED
    BY <1>1, <2>1, <2>2 DEF IInv, Timing, syncMode
<1> QED
  BY <1>1, <1>2, <1>3, <1>4, SlotBeginsInv

(* The distance to the server's event is all that is left of the old time. *)
LEMMA ClockToZeroInv ==
  ASSUME IInv, ClockToZero
  PROVE  IInv'
<1>1. /\ SlotBegins /\ phase = "end" /\ phase' = "early" /\ cycle' = 0
      /\ begin' = IF syncMode /\ serverState # "idling" THEN std_evt' ELSE 0
      /\ std_evt' = IF std_evt \in Nat THEN std_evt - 1 ELSE std_evt
      /\ serverState' = serverState /\ mode' = mode
  BY DEF ClockToZero, SlotBegins, config
<1>2. std_evt # 0
  BY <1>1 DEF IInv, Timing
<1>3. ASSUME syncMode
      PROVE  /\ std_evt' \in (0 .. serviceTime - 1) \cup {None}
             /\ serverState = "idling" <=> std_evt' = None
  BY <1>1, <1>2, <1>3, NoneAssumption, TimeAssumption DEF IInv, Timing, Server
<1>4. cycle' \in 0 .. serviceTime - 1 /\ begin' \in 0 .. serviceTime - 1
  BY <1>1, <1>3, TimeAssumption
<1>5. Timing'
  BY <1>1, <1>3, NoneAssumption, TimeAssumption DEF IInv, Timing, syncMode
<1> QED
  BY <1>1, <1>4, <1>5, SlotBeginsInv

(* Nothing is said of what follows.                                        *)
LEMMA OutOfBoundsInv ==
  ASSUME IInv, NEW f \in inpPrioBuf, OutOfBounds(f)
  PROVE  IInv'
<1>1. /\ phase \in {"late", "undefined"} /\ phase' = "undefined"
      /\ UNCHANGED <<queues, service, inputs, config, cycle, out, begin>>
  BY DEF OutOfBounds
<1>2. TypeOK'
  BY <1>1 DEF IInv, TypeOK, queues, service, inputs, config, isFrm
<1>3. Arrivals' /\ Server' /\ Timing'
  BY <1>1 DEF IInv, Arrivals, Server, Timing, queues, service, inputs, config, Waiting, syncMode
<1>4. Queues' /\ Before(server, out, prioQ)' /\ InOrder'
  BY <1>1 DEF IInv, Queues, Before, InOrder, queues, service, inputs
<1> QED
  BY <1>2, <1>3, <1>4 DEF IInv

LEMMA NextInv == IInv /\ [Next]_vars => IInv'
<1> SUFFICES ASSUME IInv, [Next]_vars PROVE IInv'
  OBVIOUS
<1>1. CASE \E i \in Input, c \in Code, b \in Bytes : Arrive(i, c, b)
  BY <1>1, ArriveInv
<1>2. CASE Command
  BY <1>2, CommandInv
<1>3. CASE Served \/ CycleBegins \/ EnterLate \/ NextSlot \/ ClockToZero
  BY <1>3, ServedInv, CycleBeginsInv, EnterLateInv, NextSlotInv, ClockToZeroInv
<1>4. CASE \E f \in inpPrioBuf :
             StartService(f) \/ WaitForCycle(f) \/ Enqueue(f) \/ OutOfBounds(f)
  BY <1>4, StartServiceInv, WaitForCycleInv, EnqueueInv, OutOfBoundsInv
<1>5. CASE UNCHANGED vars
  <2>1. UNCHANGED <<queues, service, inputs, config, phase, cycle, out, begin>>
    BY <1>5 DEF vars
  <2>2. TypeOK'
    BY <2>1 DEF IInv, TypeOK, queues, service, inputs, config, isFrm
  <2>3. Arrivals' /\ Server' /\ Timing'
    BY <2>1 DEF IInv, Arrivals, Server, Timing, queues, service, inputs, config, Waiting, syncMode
  <2>4. Queues' /\ Before(server, out, prioQ)' /\ InOrder'
    BY <2>1 DEF IInv, Queues, Before, InOrder, queues, service, inputs
  <2> QED
    BY <2>2, <2>3, <2>4 DEF IInv
<1> QED
  BY <1>1, <1>2, <1>3, <1>4, <1>5 DEF Next, Step

-----------------------------------------------------------------------------
THEOREM Invariance == Spec => []IInv
  BY InitInv, NextInv, PTL DEF Spec

(* The types, of every variable of the multiplexer.                        *)
THEOREM TypeCorrect == Spec => []TypeOK
<1>1. IInv => TypeOK
  BY DEF IInv
<1> QED
  BY <1>1, Invariance, PTL

(* The server is never idle while something is queued, the end of a wait   *)
(* for the output cycle finds something, and the server's event is         *)
(* registered as long as it has something to do.                           *)
THEOREM ServerIsBusy == Spec => []Busy
<1>1. IInv => Busy
  BY DEF IInv, Server, Arrivals, TypeOK, Busy
<1> QED
  BY <1>1, Invariance, PTL

(* Items of one priority leave in the order of the slots they came in.     *)
THEOREM LeaveInOrder == Spec => []InOrder
<1>1. IInv => InOrder
  BY DEF IInv
<1> QED
  BY <1>1, Invariance, PTL

(* The server is filled by these steps only.                               *)
LEMMA ServerFilled ==
  ASSUME IInv, Next, server' # server, server' # None
  PROVE  \/ Waiting /\ Dequeue /\ phase = "early" /\ std_evt = 0 /\ UNCHANGED inputs
         \/ \E f \in inpPrioBuf : StartService(f)
<1>1. CASE \E i \in Input, c \in Code, b \in Bytes : Arrive(i, c, b)
  BY <1>1 DEF Arrive, service
<1>2. CASE Command
  BY <1>2 DEF Command, SetQueueMax, SetPriority, service
<1>3. CASE Served \/ CycleBegins
  BY <1>3 DEF Served, CycleBegins, IInv, Server
<1>4. CASE EnterLate \/ NextSlot \/ ClockToZero
  BY <1>4 DEF EnterLate, NextSlot, ClockToZero, SlotBegins, service
<1>5. CASE \E f \in inpPrioBuf :
             StartService(f) \/ WaitForCycle(f) \/ Enqueue(f) \/ OutOfBounds(f)
  BY <1>5 DEF WaitForCycle, Enqueue, OutOfBounds, service
<1> QED
  BY <1>1, <1>2, <1>3, <1>4, <1>5 DEF Next, Step

(* No item enters the server while one of a higher priority is queued or   *)
(* has arrived in the same slot, though late() treats arrivals in any      *)
(* order.                                                                  *)
THEOREM HighestIsFirst == Spec => HighestFirst
<1> DEFINE First == \/ server' = server \/ server' = None
                    \/ \A p \in Prio : p > server'.prio =>
                         /\ prioQ'[p] = <<>>
                         /\ phase = "late" => \A f \in inpPrioBuf' : f.prio # p
<1>1. IInv /\ [Next]_vars => [First]_vars
  <2> SUFFICES ASSUME IInv, Next, server' # server, server' # None,
                      NEW p \in Prio, p > server'.prio
               PROVE  /\ prioQ'[p] = <<>>
                      /\ phase = "late" => \A f \in inpPrioBuf' : f.prio # p
    OBVIOUS
  <2>1. CASE Waiting /\ Dequeue /\ phase = "early"
    BY <2>1, DequeueInv
  <2>2. CASE \E f \in inpPrioBuf : StartService(f)
    <3>1. PICK f \in inpPrioBuf : StartService(f)
      BY <2>2
    <3>2. /\ phase = "late" /\ serverState = "idling" /\ f.prio = maxArrPrio /\ server' = f
          /\ prioQ' = prioQ /\ inpPrioBuf' \subseteq inpPrioBuf
      BY <3>1 DEF StartService, NextArrival, Chosen, queues
    <3>3. p \in Nat /\ maxArrPrio \in Nat /\ p > maxArrPrio
      BY <3>2, ItemFields DEF IInv, TypeOK
    <3>4. prioQ[p] = <<>>
      BY <3>2, <3>3 DEF IInv, Server
    <3>5. ASSUME NEW g \in inpPrioBuf PROVE g.prio # p
      BY <3>3 DEF IInv, Arrivals
    <3> QED
      BY <3>2, <3>4, <3>5
  <2> QED
    BY <2>1, <2>2, ServerFilled
<1> QED
  BY <1>1, Invariance, PTL DEF Spec, HighestFirst

(* In synchronous mode services begin in the same slot of every cycle, the *)
(* first one, unless the clock was set to 0 since the server was idle.     *)
THEOREM StartsInCycle == Spec => SyncStart
<1> DEFINE Sync == syncMode => server' = server \/ server' = None \/ cycle = begin
<1>1. IInv /\ [Next]_vars => [Sync]_vars
  <2> SUFFICES ASSUME IInv, Next, syncMode, server' # server, server' # None
               PROVE  cycle = begin
    OBVIOUS
  <2>1. CASE std_evt = 0
    BY <2>1, TimeAssumption DEF IInv, TypeOK, Timing
  <2>2. CASE \E f \in inpPrioBuf : StartService(f)
    BY <2>2 DEF StartService, Chosen, IInv, Timing
  <2> QED
    BY <2>1, <2>2, ServerFilled
<1> QED
  BY <1>1, Invariance, PTL DEF Spec, SyncStart
-----------------------------------------------------------------------------
(* Conservation.  An item moves from one place to the next: from the       *)
(* buffer of the slot to the server, a queue or among the lost ones, from  *)
(* a queue to the server, from the server to the successor.  What a queue  *)
(* gives away or takes is told by two lemmas, the rest is about sets.      *)
LEMMA QueuedElements ==
  /\ \A f : f \in Queued <=> \E p \in Prio : \E i \in DOMAIN prioQ[p] : f = prioQ[p][i]
  /\ \A f : f \in Queued' <=> \E p \in Prio : \E i \in DOMAIN prioQ'[p] : f = prioQ'[p][i]
  BY DEF Queued, ToSet

LEMMA TailElements ==
  ASSUME NEW S, NEW s \in Seq(S), s # <<>>, IsInjective(s)
  PROVE  /\ ToSet(Tail(s)) = ToSet(s) \ {Head(s)} /\ Head(s) \in ToSet(s)
         /\ IsInjective(Tail(s)) /\ Len(Tail(s)) = Len(s) - 1
<1>1. /\ Head(s) = s[1] /\ 1 \in DOMAIN s /\ Len(Tail(s)) = Len(s) - 1
      /\ \A i \in DOMAIN Tail(s) : i \in Nat /\ i + 1 \in DOMAIN s /\ i + 1 # 1
                                   /\ Tail(s)[i] = s[i + 1]
      /\ \A i \in DOMAIN s : i # 1 => i - 1 \in DOMAIN Tail(s) /\ Tail(s)[i - 1] = s[i]
  OBVIOUS
<1>2. \A a, b \in DOMAIN s : s[a] = s[b] => a = b
  BY DEF IsInjective
<1>3. IsInjective(Tail(s))
  <2> SUFFICES ASSUME NEW a \in DOMAIN Tail(s), NEW b \in DOMAIN Tail(s), Tail(s)[a] = Tail(s)[b]
               PROVE  a = b
    BY DEF IsInjective
  <2>1. a + 1 = b + 1
    BY <1>1, <1>2
  <2> QED
    BY <1>1, <2>1
<1>4. \A f : f \in ToSet(Tail(s)) <=> \E i \in DOMAIN Tail(s) : f = Tail(s)[i]
  BY DEF ToSet
<1>5. \A f : f \in ToSet(s) <=> \E i \in DOMAIN s : f = s[i]
  BY DEF ToSet
<1>6. ASSUME NEW f, f \in ToSet(Tail(s)) PROVE f \in ToSet(s) /\ f # Head(s)
  <2>1. PICK i \in DOMAIN Tail(s) : f = Tail(s)[i]
    BY <1>4, <1>6
  <2>2. i + 1 \in DOMAIN s /\ i + 1 # 1 /\ f = s[i + 1]
    BY <1>1, <2>1
  <2> QED
    BY <1>1, <1>2, <1>5, <2>2
<1>7. ASSUME NEW f, f \in ToSet(s), f # Head(s) PROVE f \in ToSet(Tail(s))
  <2>1. PICK i \in DOMAIN s : f = s[i]
    BY <1>5, <1>7
  <2>2. i # 1
    BY <1>1, <1>7, <2>1
  <2> QED
    BY <1>1, <1>4, <2>1, <2>2
<1>8. ToSet(Tail(s)) = ToSet(s) \ {Head(s)}
  BY <1>6, <1>7
<1>9. Head(s) \in ToSet(s)
  BY <1>1, <1>5
<1> QED
  BY <1>1, <1>3, <1>8, <1>9

LEMMA AppendElements ==
  ASSUME NEW S, NEW s \in Seq(S), NEW f \in S, f \notin ToSet(s), IsInjective(s)
  PROVE  /\ ToSet(Append(s, f)) = ToSet(s) \cup {f}
         /\ IsInjective(Append(s, f)) /\ Len(Append(s, f)) = Len(s) + 1
<1> DEFINE t == Append(s, f)
<1>1. /\ Len(t) = Len(s) + 1 /\ Len(s) \in Nat
      /\ \A i \in DOMAIN s : i \in DOMAIN t /\ t[i] = s[i]
      /\ Len(s) + 1 \in DOMAIN t /\ t[Len(s) + 1] = f
      /\ \A i \in DOMAIN t : i = Len(s) + 1 \/ i \in DOMAIN s
  OBVIOUS
<1> HIDE DEF t
<1>2. \A a, b \in DOMAIN s : s[a] = s[b] => a = b
  BY DEF IsInjective
<1>3. \A g : g \in ToSet(t) <=> \E i \in DOMAIN t : g = t[i]
  BY DEF ToSet
<1>4. \A g : g \in ToSet(s) <=> \E i \in DOMAIN s : g = s[i]
  BY DEF ToSet
<1>5. \A i \in DOMAIN s : s[i] # f
  BY <1>4
<1>6. IsInjective(t)
  <2> SUFFICES ASSUME NEW a \in DOMAIN t, NEW b \in DOMAIN t, t[a] = t[b]
               PROVE  a = b
    BY DEF IsInjective
  <2>1. CASE a \in DOMAIN s /\ b \in DOMAIN s
    BY <1>1, <1>2, <2>1
  <2>2. CASE ~ (a \in DOMAIN s /\ b \in DOMAIN s)
    BY <1>1, <1>5, <2>2
  <2> QED
    BY <2>1, <2>2
<1>7. \A g : g \in ToSet(t) <=> g \in ToSet(s) \/ g = f
  BY <1>1, <1>3, <1>4
<1>8. ToSet(t) = ToSet(s) \cup {f}
  BY <1>7
<1> QED
  BY <1>1, <1>6, <1>8 DEF t

(* What conservation says of the queues alone.                             *)
QueuesApart ==
  /\ \A p \in Prio : IsInjective(prioQ[p]) /\ qLens[p] = Len(prioQ[p])
  /\ \A p, q \in Prio : p # q => ToSet(prioQ[p]) \cap ToSet(prioQ[q]) = {}

(* What it says of the places.                                             *)
SetsApart ==
  /\ Queued \cap (InServer \cup inpPrioBuf \cup dropped \cup ToSet(out)) = {}
  /\ InServer \cap (inpPrioBuf \cup dropped \cup ToSet(out)) = {}
  /\ inpPrioBuf \cap (dropped \cup ToSet(out)) = {}
  /\ dropped \cap ToSet(out) = {}

Numbered ==
  /\ {f.id : f \in Items} = 1 .. arrived
  /\ \A f, g \in Items : f.id = g.id => f = g

LEMMA ConservedParts ==
  /\ Conserved <=> Numbered /\ SetsApart /\ QueuesApart /\ IsInjective(out)
  /\ Conserved' <=> Numbered' /\ SetsApart' /\ QueuesApart' /\ IsInjective(out')
  BY DEF Conserved, Numbered, Apart, Single, SetsApart, QueuesApart

(* A queue gives its first item away.                                      *)
LEMMA DequeueMoves ==
  ASSUME IInv, QueuesApart, Waiting, Dequeue
  PROVE  /\ server' \in Queued /\ server' # None
         /\ Queued' = Queued \ {server'} /\ QueuesApart' /\ dropped' = dropped
<1> DEFINE h == Highest
<1>1. h \in Prio /\ prioQ[h] # <<>>
  BY HighestWaiting
<1> HIDE DEF h
<1>2. /\ prioQ \in [Prio -> Seq(Item)] /\ qLens \in [Prio -> Int]
      /\ prioQ' = [prioQ EXCEPT ![h] = Tail(@)]
      /\ qLens' = [qLens EXCEPT ![h] = @ - 1]
      /\ server' = Head(prioQ[h]) /\ dropped' = dropped
  BY DEF IInv, TypeOK, Dequeue, h
<1>3. prioQ[h] \in Seq(Item) /\ IsInjective(prioQ[h]) /\ qLens[h] = Len(prioQ[h])
  BY <1>1, <1>2 DEF QueuesApart
<1>4. /\ prioQ'[h] = Tail(prioQ[h]) /\ qLens'[h] = qLens[h] - 1
      /\ \A p \in Prio : p # h => prioQ'[p] = prioQ[p] /\ qLens'[p] = qLens[p]
  BY <1>1, <1>2
<1>5. /\ ToSet(prioQ'[h]) = ToSet(prioQ[h]) \ {server'} /\ server' \in ToSet(prioQ[h])
      /\ IsInjective(prioQ'[h]) /\ Len(prioQ'[h]) = Len(prioQ[h]) - 1
  BY <1>1, <1>2, <1>3, <1>4, TailElements
<1>6. \A p \in Prio : p # h => ToSet(prioQ'[p]) = ToSet(prioQ[p]) /\ server' \notin ToSet(prioQ[p])
  BY <1>1, <1>4, <1>5 DEF QueuesApart
<1>7. \A p \in Prio : ToSet(prioQ'[p]) = ToSet(prioQ[p]) \ {server'}
  BY <1>5, <1>6
<1>8. Queued' = Queued \ {server'}
  BY <1>7 DEF Queued
<1>9. QueuesApart'
  BY <1>3, <1>4, <1>5, <1>7 DEF QueuesApart
<1>10. server' \in Queued
  BY <1>1, <1>5 DEF Queued
<1>11. server' # None
  BY <1>1, <1>2, <1>3, NoneAssumption
<1> QED
  BY <1>2, <1>8, <1>9, <1>10, <1>11

(* A queue takes an item that was in none.                                 *)
LEMMA AtTailMoves ==
  ASSUME IInv, QueuesApart, NEW f \in Item, f.prio \in Prio, f \notin Queued, AtTail(f)
  PROVE  Queued' = Queued \cup {f} /\ QueuesApart'
<1> DEFINE p == f.prio
<1>1. p \in Prio
  OBVIOUS
<1>2. /\ prioQ \in [Prio -> Seq(Item)] /\ qLens \in [Prio -> Int]
      /\ prioQ' = [prioQ EXCEPT ![p] = Append(@, f)]
      /\ qLens' = [qLens EXCEPT ![p] = @ + 1]
  BY DEF IInv, TypeOK, AtTail
<1> HIDE DEF p
<1>3. prioQ[p] \in Seq(Item) /\ IsInjective(prioQ[p]) /\ qLens[p] = Len(prioQ[p])
  BY <1>1, <1>2 DEF QueuesApart
<1>4. /\ prioQ'[p] = Append(prioQ[p], f) /\ qLens'[p] = qLens[p] + 1
      /\ \A q \in Prio : q # p => prioQ'[q] = prioQ[q] /\ qLens'[q] = qLens[q]
  BY <1>1, <1>2
<1>5. \A q \in Prio : f \notin ToSet(prioQ[q])
  BY DEF Queued
<1>6. /\ ToSet(prioQ'[p]) = ToSet(prioQ[p]) \cup {f}
      /\ IsInjective(prioQ'[p]) /\ Len(prioQ'[p]) = Len(prioQ[p]) + 1
  BY <1>1, <1>3, <1>4, <1>5, AppendElements
<1>7. \A q \in Prio : q # p => ToSet(prioQ'[q]) = ToSet(prioQ[q])
  BY <1>4
<1>8. Queued' = Queued \cup {f}
  BY <1>1, <1>6, <1>7 DEF Queued
<1>9. \A q \in Prio : IsInjective(prioQ'[q]) /\ qLens'[q] = Len(prioQ'[q])
  BY <1>3, <1>4, <1>6 DEF QueuesApart
<1>10. ASSUME NEW q \in Prio, NEW r \in Prio, q # r
       PROVE  ToSet(prioQ'[q]) \cap ToSet(prioQ'[r]) = {}
  <2>1. ToSet(prioQ[q]) \cap ToSet(prioQ[r]) = {}
    BY <1>10 DEF QueuesApart
  <2> QED
    BY <1>5, <1>6, <1>7, <1>10, <2>1
<1>11. QueuesApart'
  BY <1>9, <1>10 DEF QueuesApart
<1> QED
  BY <1>8, <1>11

LEMMA OutElements ==
  ASSUME IInv, IsInjective(out), NEW f \in Item, f \notin ToSet(out), out' = Append(out, f)
  PROVE  ToSet(out') = ToSet(out) \cup {f} /\ IsInjective(out')
<1>1. out \in Seq(Item)
  BY DEF IInv, TypeOK
<1> QED
  BY <1>1, AppendElements

LEMMA ConservedInit == Init => Conserved
<1> SUFFICES ASSUME Init PROVE Conserved
  OBVIOUS
<1>1. \A p \in Prio : prioQ[p] = <<>> /\ qLens[p] = 0
  BY DEF Init
<1>2. ToSet(<<>>) = {} /\ IsInjective(<<>>) /\ Len(<<>>) = 0
  BY DEF ToSet, IsInjective
<1>3. Queued = {} /\ InServer = {} /\ inpPrioBuf = {} /\ dropped = {} /\ ToSet(out) = {}
  BY <1>1, <1>2 DEF Init, Queued, InServer
<1>4. QueuesApart
  BY <1>1, <1>2 DEF QueuesApart
<1>5. Numbered /\ SetsApart
  BY <1>3 DEF Init, Numbered, Items, SetsApart
<1>6. IsInjective(out)
  BY <1>2 DEF Init
<1> QED
  BY <1>4, <1>5, <1>6, ConservedParts

(* A step that adds and loses none leaves the numbers.                     *)
LEMMA SameNumbers ==
  ASSUME Numbered, Items' = Items, arrived' = arrived
  PROVE  Numbered'
  BY DEF Numbered

LEMMA ArriveConserves ==
  ASSUME IInv, Conserved, NEW i \in Input, NEW c \in Code, NEW b \in Bytes, Arrive(i, c, b)
  PROVE  Conserved'
<1>1. PICK f : f = [id |-> arrived', prio |-> priorities[c], len |-> b, slot |-> burst']
  OBVIOUS
<1>2. /\ UNCHANGED <<queues, service, out>>
      /\ arrived' = arrived + 1 /\ inpPrioBuf' = inpPrioBuf \cup {f} /\ arrived \in Nat
  BY <1>1, LimitAssumption DEF Arrive, IInv, TypeOK
<1>3. /\ Queued' = Queued /\ InServer' = InServer /\ dropped' = dropped
      /\ QueuesApart' <=> QueuesApart
  BY <1>2 DEF queues, service, Queued, InServer, QueuesApart
<1>4. f.id = arrived + 1
  BY <1>1, <1>2
<1>5. Numbered /\ SetsApart /\ QueuesApart /\ IsInjective(out)
  BY ConservedParts
<1>6. \A g \in Items : g.id \in 1 .. arrived
  BY <1>5 DEF Numbered
<1>7. \A g \in Items : g.id # f.id
  BY <1>2, <1>4, <1>6
<1>8. Items' = Items \cup {f}
  BY <1>2, <1>3 DEF Items
<1>9. f \notin Items
  BY <1>7
<1>10. Numbered'
  <2>1. {g.id : g \in Items'} = {g.id : g \in Items} \cup {f.id}
    BY <1>8
  <2>2. (1 .. arrived) \cup {arrived + 1} = 1 .. arrived'
    BY <1>2
  <2>3. \A g, h \in Items' : g.id = h.id => g = h
    BY <1>5, <1>7, <1>8 DEF Numbered
  <2> QED
    BY <1>4, <1>5, <2>1, <2>2, <2>3 DEF Numbered
<1>11. SetsApart'
  BY <1>2, <1>3, <1>5, <1>9 DEF SetsApart, Items
<1> QED
  BY <1>2, <1>3, <1>5, <1>10, <1>11, ConservedParts

LEMMA ServedConserves ==
  ASSUME IInv, Conserved, Served
  PROVE  Conserved'
<1>1. Numbered /\ SetsApart /\ QueuesApart /\ IsInjective(out)
  BY ConservedParts
<1>2. /\ out' = Append(out, server) /\ server \in Item /\ server # None
      /\ inpPrioBuf' = inpPrioBuf /\ arrived' = arrived
  BY DEF IInv, TypeOK, Server, Served, inputs
<1>3. InServer = {server}
  BY <1>2 DEF InServer
<1>4. ToSet(out') = ToSet(out) \cup {server} /\ IsInjective(out')
  <2>1. server \notin ToSet(out)
    BY <1>1, <1>3 DEF SetsApart
  <2> QED
    BY <1>1, <1>2, <2>1, OutElements
<1>5. CASE Waiting
  <2>1. Dequeue
    BY <1>5 DEF Served
  <2>2. /\ server' \in Queued /\ server' # None
        /\ Queued' = Queued \ {server'} /\ QueuesApart' /\ dropped' = dropped
    BY <1>1, <1>5, <2>1, DequeueMoves
  <2>3. InServer' = {server'}
    BY <2>2 DEF InServer
  <2>4. Items' = Items /\ SetsApart'
    BY <1>1, <1>2, <1>3, <1>4, <2>2, <2>3 DEF Items, SetsApart
  <2> QED
    BY <1>1, <1>2, <1>4, <2>2, <2>4, SameNumbers, ConservedParts
<1>6. CASE ~ Waiting
  <2>1. server' = None /\ UNCHANGED queues
    BY <1>6 DEF Served
  <2>2. /\ InServer' = {} /\ Queued' = Queued /\ dropped' = dropped
        /\ QueuesApart' <=> QueuesApart
    BY <2>1 DEF InServer, Queued, QueuesApart, queues
  <2>3. Items' = Items /\ SetsApart'
    BY <1>1, <1>2, <1>3, <1>4, <2>2 DEF Items, SetsApart
  <2> QED
    BY <1>1, <1>2, <1>4, <2>2, <2>3, SameNumbers, ConservedParts
<1> QED
  BY <1>5, <1>6

LEMMA CycleBeginsConserves ==
  ASSUME IInv, Conserved, CycleBegins
  PROVE  Conserved'
<1>1. Numbered /\ SetsApart /\ QueuesApart /\ IsInjective(out)
  BY ConservedParts
<1>2. /\ Waiting /\ Dequeue /\ server = None /\ out' = out
      /\ inpPrioBuf' = inpPrioBuf /\ arrived' = arrived
  BY DEF IInv, Server, CycleBegins, inputs
<1>3. /\ server' \in Queued /\ server' # None
      /\ Queued' = Queued \ {server'} /\ QueuesApart' /\ dropped' = dropped
  BY <1>1, <1>2, DequeueMoves
<1>4. InServer = {} /\ InServer' = {server'}
  BY <1>2, <1>3 DEF InServer
<1>5. Items' = Items /\ SetsApart'
  BY <1>1, <1>2, <1>3, <1>4 DEF Items, SetsApart
<1> QED
  BY <1>1, <1>2, <1>3, <1>5, SameNumbers, ConservedParts

LEMMA StartServiceConserves ==
  ASSUME IInv, Conserved, NEW f \in inpPrioBuf, StartService(f)
  PROVE  Conserved'
<1>1. Numbered /\ SetsApart /\ QueuesApart /\ IsInjective(out)
  BY ConservedParts
<1>2. /\ inpPrioBuf' = inpPrioBuf \ {f} /\ out' = out /\ arrived' = arrived
      /\ server = None /\ server' = f /\ f # None /\ UNCHANGED queues
  BY NoneAssumption DEF IInv, TypeOK, Server, StartService, NextArrival, Chosen
<1>3. /\ InServer = {} /\ InServer' = {f} /\ Queued' = Queued /\ dropped' = dropped
      /\ QueuesApart' <=> QueuesApart
  BY <1>2 DEF InServer, Queued, QueuesApart, queues
<1>4. Items' = Items /\ SetsApart'
  BY <1>1, <1>2, <1>3 DEF Items, SetsApart
<1> QED
  BY <1>1, <1>2, <1>3, <1>4, SameNumbers, ConservedParts

(* The item waits in a queue: for its cycle, or for the server.            *)
LEMMA QueueingConserves ==
  ASSUME IInv, Conserved, NEW f \in inpPrioBuf, f.prio \in Prio, AtTail(f),
         inpPrioBuf' = inpPrioBuf \ {f},
         out' = out, arrived' = arrived, server' = server, dropped' = dropped
  PROVE  Conserved'
<1>1. Numbered /\ SetsApart /\ QueuesApart /\ IsInjective(out)
  BY ConservedParts
<1>2. f \in Item /\ f \notin Queued
  BY <1>1 DEF IInv, TypeOK, SetsApart
<1>3. Queued' = Queued \cup {f} /\ QueuesApart' /\ InServer' = InServer
  BY <1>1, <1>2, AtTailMoves DEF InServer
<1>4. Items' = Items /\ SetsApart'
  BY <1>1, <1>3 DEF Items, SetsApart
<1> QED
  BY <1>1, <1>3, <1>4, SameNumbers, ConservedParts

(* The result of enqueue() that is not looked at: the queue had room.      *)
LEMMA WaitForCycleConserves ==
  ASSUME IInv, Conserved, NEW f \in inpPrioBuf, WaitForCycle(f)
  PROVE  Conserved'
<1>1. /\ serverState = "idling" /\ phase = "late" /\ f.prio = maxArrPrio
      /\ inpPrioBuf' = inpPrioBuf \ {f} /\ out' = out /\ arrived' = arrived
      /\ server' = server /\ dropped' = dropped
      /\ Len(prioQ[f.prio]) < qmax[f.prio] => AtTail(f)
      /\ f.prio \in Prio
  BY DEF WaitForCycle, NextArrival, Chosen
<1>2. f.prio \in Prio /\ f.prio \in Nat
  BY <1>1, ItemFields
<1>3. prioQ[f.prio] = <<>> /\ qmax[f.prio] \in Nat /\ qmax[f.prio] # 0
  BY <1>1, <1>2 DEF IInv, TypeOK, Server
<1>4. AtTail(f)
  BY <1>1, <1>3
<1> QED
  BY <1>1, <1>2, <1>4, QueueingConserves

LEMMA EnqueueConserves ==
  ASSUME IInv, Conserved, NEW f \in inpPrioBuf, Enqueue(f)
  PROVE  Conserved'
<1>1. /\ inpPrioBuf' = inpPrioBuf \ {f} /\ out' = out /\ arrived' = arrived
      /\ server' = server /\ f.prio \in Prio
  BY DEF Enqueue, NextArrival, service
<1>2. CASE Len(prioQ[f.prio]) < qmax[f.prio]
  <2>1. AtTail(f) /\ dropped' = dropped
    BY <1>2 DEF Enqueue
  <2> QED
    BY <1>1, <2>1, QueueingConserves
<1>3. CASE ~ (Len(prioQ[f.prio]) < qmax[f.prio])
  <2>1. dropped' = dropped \cup {f} /\ UNCHANGED <<prioQ, qLens>>
    BY <1>3 DEF Enqueue
  <2>2. Numbered /\ SetsApart /\ QueuesApart /\ IsInjective(out)
    BY ConservedParts
  <2>3. Queued' = Queued /\ InServer' = InServer /\ (QueuesApart' <=> QueuesApart)
    BY <1>1, <2>1 DEF Queued, InServer, QueuesApart
  <2>4. Items' = Items /\ SetsApart'
    BY <1>1, <2>1, <2>2, <2>3 DEF Items, SetsApart
  <2> QED
    BY <1>1, <2>2, <2>3, <2>4, SameNumbers, ConservedParts
<1> QED
  BY <1>2, <1>3

(* The other steps move no item.                                           *)
LEMMA RestConserves ==
  ASSUME Conserved, UNCHANGED <<prioQ, qLens, dropped, server, inpPrioBuf, arrived, out>>
  PROVE  Conserved'
<1>1. /\ Queued' = Queued /\ InServer' = InServer /\ (QueuesApart' <=> QueuesApart)
  BY DEF Queued, InServer, QueuesApart
<1>2. Items' = Items /\ (SetsApart' <=> SetsApart)
  BY <1>1 DEF Items, SetsApart
<1> QED
  BY <1>1, <1>2, SameNumbers, ConservedParts

(* Every item that came is at one place: in the buffer of the slot, in its *)
(* queue, in the server, sent, or counted as lost; the exported lengths of *)
(* the queues are true.  The result of enqueue(), which late() does not    *)
(* look at, never hides a loss.                                            *)
THEOREM NothingLost == Spec => []Conserved
<1>1. ASSUME IInv, Conserved, [Next]_vars PROVE Conserved'
  <2>1. CASE \E i \in Input, c \in Code, b \in Bytes : Arrive(i, c, b)
    BY <1>1, <2>1, ArriveConserves
  <2>2. CASE \/ Command \/ EnterLate \/ NextSlot \/ ClockToZero \/ UNCHANGED vars
             \/ \E f \in inpPrioBuf : OutOfBounds(f)
    <3>1. UNCHANGED <<prioQ, qLens, dropped, server, inpPrioBuf, arrived, out>>
      BY <2>2 DEF Command, SetQueueMax, SetPriority, EnterLate, NextSlot,
                  ClockToZero, SlotBegins, OutOfBounds, vars, queues, service, inputs
    <3> QED
      BY <1>1, <3>1, RestConserves
  <2>3. CASE Served \/ CycleBegins
    BY <1>1, <2>3, ServedConserves, CycleBeginsConserves
  <2>4. CASE \E f \in inpPrioBuf : StartService(f) \/ WaitForCycle(f) \/ Enqueue(f)
    BY <1>1, <2>4, StartServiceConserves, WaitForCycleConserves, EnqueueConserves
  <2> QED
    BY <1>1, <2>1, <2>2, <2>3, <2>4 DEF Next, Step
<1> QED
  BY <1>1, ConservedInit, Invariance, PTL DEF Spec
=============================================================================
