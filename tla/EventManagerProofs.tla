------------------------- MODULE EventManagerProofs -------------------------
(***************************************************************************)
(* Theorems about the event manager, for any number of events, any length  *)
(* of the calendar and any range of the clock.                             *)
(***************************************************************************)
EXTENDS EventManager, SequenceTheorems, TLAPS

(***************************************************************************)
(* Lists: what adding, removing and taking the first element do to the set *)
(* of elements of a list without duplicates.                               *)
(***************************************************************************)

LEMMA EmptyList ==
  /\ ToSet(<<>>) = {}
  /\ IsInjective(<<>>)
BY DEF ToSet, IsInjective

LEMMA ConsList ==
  ASSUME NEW S, NEW s \in Seq(S), NEW e \in S
  PROVE  /\ Cons(e, s) \in Seq(S)
         /\ ToSet(Cons(e, s)) = ToSet(s) \cup {e}
         /\ IsInjective(s) /\ e \notin ToSet(s) => IsInjective(Cons(e, s))
<1> DEFINE t == Cons(e, s)
<1>1. /\ t \in Seq(S)
      /\ Len(t) = Len(s) + 1
      /\ t[1] = e
      /\ \A i \in 1 .. Len(s) : t[i + 1] = s[i]
      /\ \A i \in 2 .. Len(t) : t[i] = s[i - 1]
  BY DEF Cons
<1> HIDE DEF t
<1>2. DOMAIN s = 1 .. Len(s) /\ DOMAIN t = 1 .. Len(t)
  BY <1>1
<1>3. ToSet(t) = ToSet(s) \cup {e}
  <2>1. ASSUME NEW x \in ToSet(t) PROVE x \in ToSet(s) \cup {e}
    <3>1. PICK i \in 1 .. Len(t) : t[i] = x
      BY <1>2, <2>1 DEF ToSet
    <3>2. CASE i = 1
      BY <1>1, <3>1, <3>2
    <3>3. CASE i # 1
      <4>1. i - 1 \in DOMAIN s /\ s[i - 1] = x
        BY <1>1, <1>2, <3>1, <3>3
      <4>2. QED  BY <4>1 DEF ToSet
    <3>4. QED  BY <3>2, <3>3
  <2>2. ASSUME NEW x \in ToSet(s) \cup {e} PROVE x \in ToSet(t)
    <3>1. CASE x = e
      BY <1>1, <1>2, <3>1 DEF ToSet
    <3>2. CASE x \in ToSet(s)
      <4>1. PICK i \in 1 .. Len(s) : s[i] = x
        BY <1>2, <3>2 DEF ToSet
      <4>2. i + 1 \in DOMAIN t /\ t[i + 1] = x
        BY <1>1, <1>2, <4>1
      <4>3. QED  BY <4>2 DEF ToSet
    <3>3. QED  BY <2>2, <3>1, <3>2
  <2>3. QED  BY <2>1, <2>2
<1>4. ASSUME IsInjective(s), e \notin ToSet(s) PROVE IsInjective(t)
  <2>1. SUFFICES ASSUME NEW i \in DOMAIN t, NEW j \in DOMAIN t, t[i] = t[j]
                 PROVE  i = j
    BY DEF IsInjective
  <2>2. \A k \in 1 .. Len(s) : s[k] # e
    BY <1>2, <1>4 DEF ToSet
  <2>3. CASE i = 1 \/ j = 1
    BY <1>1, <1>2, <2>1, <2>2, <2>3
  <2>4. CASE i # 1 /\ j # 1
    <3>1. i - 1 \in DOMAIN s /\ j - 1 \in DOMAIN s /\ s[i - 1] = s[j - 1]
      BY <1>1, <1>2, <2>1, <2>4
    <3>2. i - 1 = j - 1
      BY <1>4, <3>1 DEF IsInjective
    <3>3. QED  BY <1>2, <1>1, <3>2
  <2>5. QED  BY <2>3, <2>4
<1>5. QED  BY <1>1, <1>3, <1>4 DEF t

LEMMA TailList ==
  ASSUME NEW S, NEW s \in Seq(S), s # <<>>
  PROVE  /\ Head(s) \in S
         /\ Tail(s) \in Seq(S)
         /\ ToSet(s) = ToSet(Tail(s)) \cup {Head(s)}
         /\ IsInjective(s) => /\ IsInjective(Tail(s))
                              /\ Head(s) \notin ToSet(Tail(s))
<1>1. /\ Tail(s) \in Seq(S)
      /\ Len(Tail(s)) = Len(s) - 1
      /\ Len(s) \in Nat \ {0}
      /\ Head(s) = s[1]
      /\ \A i \in 1 .. Len(s) - 1 : Tail(s)[i] = s[i + 1]
  OBVIOUS
<1> DEFINE t == Tail(s)
<1> HIDE DEF t
<1>2. DOMAIN s = 1 .. Len(s) /\ DOMAIN t = 1 .. Len(s) - 1
  BY <1>1 DEF t
<1>3. \A i \in DOMAIN t : t[i] = s[i + 1]
  BY <1>1, <1>2 DEF t
<1>4. \A i \in DOMAIN s : i # 1 => i - 1 \in DOMAIN t /\ t[i - 1] = s[i]
  BY <1>1, <1>2, <1>3
<1>5. ToSet(s) = ToSet(t) \cup {s[1]}
  <2>1. ASSUME NEW x \in ToSet(s) PROVE x \in ToSet(t) \cup {s[1]}
    BY <1>4 DEF ToSet
  <2>2. ASSUME NEW x \in ToSet(t) \cup {s[1]} PROVE x \in ToSet(s)
    BY <1>1, <1>2, <1>3 DEF ToSet
  <2>3. QED  BY <2>1, <2>2
<1>6. ASSUME IsInjective(s)
      PROVE  IsInjective(t) /\ s[1] \notin ToSet(t)
  <2>1. \A i \in DOMAIN t : i + 1 \in DOMAIN s /\ i + 1 # 1
    BY <1>1, <1>2
  <2>2. ASSUME NEW i \in DOMAIN t, NEW j \in DOMAIN t, t[i] = t[j]
        PROVE  i = j
    <3>1. i + 1 = j + 1
      BY <1>3, <1>6, <2>1, <2>2 DEF IsInjective
    <3>2. QED  BY <1>1, <1>2, <3>1
  <2>3. ASSUME s[1] \in ToSet(t) PROVE FALSE
    <3>1. PICK i \in DOMAIN t : t[i] = s[1]
      BY <2>3 DEF ToSet
    <3>2. 1 \in DOMAIN s
      BY <1>1, <1>2
    <3>3. QED  BY <1>3, <1>6, <2>1, <3>1, <3>2 DEF IsInjective
  <2>4. QED  BY <2>2, <2>3 DEF IsInjective
<1>7. QED  BY <1>1, <1>2, <1>5, <1>6 DEF t

LEMMA DelList ==
  ASSUME NEW S, NEW s \in Seq(S), IsInjective(s), NEW e \in ToSet(s)
  PROVE  /\ Del(s, e) \in Seq(S)
         /\ ToSet(Del(s, e)) = ToSet(s) \ {e}
         /\ IsInjective(Del(s, e))
<1> DEFINE k == CHOOSE i \in DOMAIN s : s[i] = e
           t == Del(s, e)
<1>1. k \in 1 .. Len(s) /\ s[k] = e
  BY DEF ToSet
<1> HIDE DEF k
<1>2. /\ t \in Seq(S)
      /\ Len(t) = Len(s) - 1
      /\ \A i \in 1 .. Len(s) - 1 : t[i] = IF i < k THEN s[i] ELSE s[i + 1]
  <2>1. t = SubSeq(s, 1, k - 1) \o SubSeq(s, k + 1, Len(s))
    BY DEF Del, RemoveAt, k
  <2> DEFINE a == SubSeq(s, 1, k - 1)
             b == SubSeq(s, k + 1, Len(s))
  <2>2. /\ a \in Seq(S)
        /\ Len(a) = k - 1
        /\ \A i \in 1 .. k - 1 : a[i] = s[i]
    BY <1>1
  <2>3. /\ b \in Seq(S)
        /\ Len(b) = Len(s) - k
        /\ \A i \in 1 .. Len(s) - k : b[i] = s[k + i]
    BY <1>1
  <2> HIDE DEF a, b
  <2>4. /\ a \o b \in Seq(S)
        /\ Len(a \o b) = Len(s) - 1
        /\ \A i \in 1 .. Len(s) - 1 :
             (a \o b)[i] = IF i < k THEN a[i] ELSE b[i - (k - 1)]
    <3>1. /\ a \o b \in Seq(S)
          /\ Len(a \o b) = Len(a) + Len(b)
          /\ \A i \in 1 .. Len(a) + Len(b) :
               (a \o b)[i] = IF i <= Len(a) THEN a[i] ELSE b[i - Len(a)]
      BY <2>2, <2>3, ConcatProperties
    <3>2. Len(s) \in Nat /\ k \in Nat /\ k <= Len(s)
      BY <1>1
    <3>3. Len(a) + Len(b) = Len(s) - 1
      BY <2>2, <2>3, <3>2
    <3>4. QED  BY <2>2, <3>1, <3>2, <3>3
  <2>5. \A i \in 1 .. Len(s) - 1 : (a \o b)[i] = IF i < k THEN s[i] ELSE s[i + 1]
    <3>1. ASSUME NEW i \in 1 .. Len(s) - 1, i < k
          PROVE  (a \o b)[i] = s[i]
      BY <1>1, <2>2, <2>4, <3>1
    <3>2. ASSUME NEW i \in 1 .. Len(s) - 1, ~ (i < k)
          PROVE  (a \o b)[i] = s[i + 1]
      <4>1. i - (k - 1) \in 1 .. Len(s) - k /\ k + (i - (k - 1)) = i + 1
        BY <1>1, <3>2
      <4>2. (a \o b)[i] = b[i - (k - 1)]
        BY <2>4, <3>2
      <4>3. QED  BY <2>3, <4>1, <4>2
    <3>3. QED  BY <3>1, <3>2
  <2>6. t = a \o b
    BY <2>1 DEF a, b
  <2>7. QED  BY <2>4, <2>5, <2>6
<1> HIDE DEF t
<1>3. DOMAIN s = 1 .. Len(s) /\ DOMAIN t = 1 .. Len(s) - 1 /\ Len(s) \in Nat
  BY <1>2
<1>4. \A i, j \in 1 .. Len(s) : s[i] = s[j] => i = j
  BY <1>3 DEF IsInjective
<1>5. ToSet(t) = ToSet(s) \ {e}
  <2>1. ASSUME NEW x \in ToSet(t) PROVE x \in ToSet(s) \ {e}
    <3>1. PICK i \in 1 .. Len(s) - 1 : t[i] = x
      BY <1>3 DEF ToSet
    <3>2. PICK j \in 1 .. Len(s) : j # k /\ s[j] = x
      BY <1>1, <1>2, <1>3, <3>1
    <3>3. QED  BY <1>1, <1>3, <1>4, <3>2 DEF ToSet
  <2>2. ASSUME NEW x \in ToSet(s) \ {e} PROVE x \in ToSet(t)
    <3>1. PICK j \in 1 .. Len(s) : s[j] = x
      BY <1>3 DEF ToSet
    <3>2. j # k
      BY <1>1, <3>1
    <3>3. PICK i \in 1 .. Len(s) - 1 : t[i] = x
      <4>1. CASE j < k
        BY <1>1, <1>2, <1>3, <3>1, <4>1
      <4>2. CASE j > k
        <5>1. j - 1 \in 1 .. Len(s) - 1 /\ ~ (j - 1 < k) /\ (j - 1) + 1 = j
          BY <1>1, <1>3, <4>2
        <5>2. t[j - 1] = x
          BY <1>2, <3>1, <5>1
        <5>3. QED  BY <5>1, <5>2
      <4>3. QED  BY <1>1, <3>2, <4>1, <4>2
    <3>4. QED  BY <1>3, <3>3 DEF ToSet
  <2>3. QED  BY <2>1, <2>2
<1>6. IsInjective(t)
  <2>1. SUFFICES ASSUME NEW i \in 1 .. Len(s) - 1, NEW j \in 1 .. Len(s) - 1,
                        t[i] = t[j]
                 PROVE  i = j
    BY <1>3 DEF IsInjective
  <2>2. PICK i2 \in 1 .. Len(s) : t[i] = s[i2] /\ i2 = (IF i < k THEN i ELSE i + 1)
    BY <1>1, <1>2, <1>3
  <2>3. PICK j2 \in 1 .. Len(s) : t[j] = s[j2] /\ j2 = (IF j < k THEN j ELSE j + 1)
    BY <1>1, <1>2, <1>3
  <2>4. i2 = j2
    BY <1>4, <2>1, <2>2, <2>3
  <2>5. QED  BY <1>1, <2>2, <2>3, <2>4
<1>7. QED  BY <1>2, <1>5, <1>6 DEF t

-----------------------------------------------------------------------------
(***************************************************************************)
(* Hash positions                                                          *)
(***************************************************************************)

LEMMA HashType == \A t \in Nat : Hash(t) \in Position
BY TimeLenAssumption DEF Hash, Position

(* A time is a number of turns of the calendar and a hash position.        *)
LEMMA Turns == \A t \in Nat : \E q \in Nat : t = TimeLen * q + Hash(t)
<1>1. SUFFICES ASSUME NEW t \in Nat
               PROVE  \E q \in Nat : t = TimeLen * q + Hash(t)
  OBVIOUS
<1>2. t \div TimeLen \in Nat /\ t = TimeLen * (t \div TimeLen) + (t % TimeLen)
  BY TimeLenAssumption
<1>3. QED  BY <1>2 DEF Hash

LEMMA HashUnique ==
  ASSUME NEW q \in Nat, NEW r \in Position
  PROVE  Hash(TimeLen * q + r) = r
<1>1. (TimeLen * q + r) % TimeLen = r
  BY TimeLenAssumption DEF Position
<1>2. QED  BY <1>1 DEF Hash

(* Within the calendar the next slot is at the next hash position.         *)
LEMMA HashNext ==
  ASSUME NEW t \in Nat, Hash(t) + 1 < TimeLen
  PROVE  Hash(t + 1) = Hash(t) + 1
<1>1. PICK q \in Nat : t = TimeLen * q + Hash(t)
  BY Turns
<1>2. PICK r \in Position : r = Hash(t) + 1
  BY HashType, TimeLenAssumption DEF Position
<1>3. t + 1 = TimeLen * q + r
  BY <1>1, <1>2, HashType, TimeLenAssumption DEF Position
<1>4. Hash(TimeLen * q + r) = r
  BY HashUnique
<1>5. QED  BY <1>2, <1>3, <1>4

(* Two times at one hash position are so at any distance.                  *)
LEMMA HashAdd ==
  ASSUME NEW x \in Nat, NEW y \in Nat, NEW d \in Nat, Hash(x) = Hash(y)
  PROVE  Hash(x + d) = Hash(y + d)
<1>1. PICK r \in Position : r = Hash(x)
  BY HashType
<1>2. PICK rd \in Position : rd = Hash(d)
  BY HashType
<1>3. PICK qx \in Nat : x = TimeLen * qx + r
  BY Turns, <1>1
<1>4. PICK qy \in Nat : y = TimeLen * qy + r
  BY Turns, <1>1
<1>5. PICK qd \in Nat : d = TimeLen * qd + rd
  BY Turns, <1>2
<1>6. x + d = TimeLen * (qx + qd) + (r + rd) /\ y + d = TimeLen * (qy + qd) + (r + rd)
  BY <1>3, <1>4, <1>5, TimeLenAssumption DEF Position
<1>7. CASE r + rd < TimeLen
  <2>1. r + rd \in Position /\ qx + qd \in Nat /\ qy + qd \in Nat
    BY <1>7, TimeLenAssumption DEF Position
  <2>2. /\ Hash(TimeLen * (qx + qd) + (r + rd)) = r + rd
        /\ Hash(TimeLen * (qy + qd) + (r + rd)) = r + rd
    BY <2>1, HashUnique
  <2>3. QED  BY <1>6, <2>2
<1>8. CASE r + rd >= TimeLen
  <2>1. PICK s \in Position : s = r + rd - TimeLen
    BY <1>8, TimeLenAssumption DEF Position
  <2>2. /\ x + d = TimeLen * (qx + qd + 1) + s
        /\ y + d = TimeLen * (qy + qd + 1) + s
    BY <1>6, <2>1, TimeLenAssumption DEF Position
  <2>3. qx + qd + 1 \in Nat /\ qy + qd + 1 \in Nat
    OBVIOUS
  <2>4. /\ Hash(TimeLen * (qx + qd + 1) + s) = s
        /\ Hash(TimeLen * (qy + qd + 1) + s) = s
    BY <2>3, HashUnique
  <2>5. QED  BY <2>2, <2>4
<1>9. QED  BY <1>7, <1>8, TimeLenAssumption DEF Position

LEMMA HashTurns ==
  ASSUME NEW x \in Nat, NEW c \in Nat
  PROVE  Hash(x + TimeLen * c) = Hash(x)
<1>1. PICK r \in Position : r = Hash(x)
  BY HashType
<1>2. PICK q \in Nat : x = TimeLen * q + r
  BY Turns, <1>1
<1>3. x + TimeLen * c = TimeLen * (q + c) + r /\ q + c \in Nat
  BY <1>2, TimeLenAssumption DEF Position
<1>4. Hash(TimeLen * (q + c) + r) = r
  BY <1>3, HashUnique
<1>5. QED  BY <1>1, <1>3, <1>4

LEMMA HashShift ==
  ASSUME NEW a \in Nat, NEW b \in Nat, NEW c \in Nat, c <= a, c <= b
  PROVE  Hash(a) = Hash(b) <=> Hash(a - c) = Hash(b - c)
<1>1. a - c \in Nat /\ b - c \in Nat
  OBVIOUS
<1>2. ASSUME Hash(a - c) = Hash(b - c)
      PROVE  Hash(a) = Hash(b)
  <2>1. Hash((a - c) + c) = Hash((b - c) + c)
    BY <1>1, <1>2, HashAdd
  <2>2. (a - c) + c = a /\ (b - c) + c = b
    OBVIOUS
  <2>3. QED  BY <2>1, <2>2
<1>3. ASSUME Hash(a) = Hash(b)
      PROVE  Hash(a - c) = Hash(b - c)
  \* adding TimeLen * c - c on both sides gives a - c and b - c again
  <2>1. PICK d \in Nat : d = TimeLen * c - c
    BY TimeLenAssumption
  <2>2. Hash(a + d) = Hash(b + d)
    BY <1>3, HashAdd
  <2>3. a + d = (a - c) + TimeLen * c /\ b + d = (b - c) + TimeLen * c
    BY <2>1, TimeLenAssumption
  <2>4. /\ Hash((a - c) + TimeLen * c) = Hash(a - c)
        /\ Hash((b - c) + TimeLen * c) = Hash(b - c)
    BY <1>1, HashTurns
  <2>5. QED  BY <2>2, <2>3, <2>4
<1>4. QED  BY <1>2, <1>3


-----------------------------------------------------------------------------
(***************************************************************************)
(* The inductive invariant.  Besides the properties of the calendar it     *)
(* says when a handler can be executing and that the walk does not leave   *)
(* its segment.                                                            *)
(***************************************************************************)

Walk ==
  /\ active # None => pc \in {"evt", "each"}
  /\ pc = "evt" => active \in Event \cup {None}
  /\ pc \in {"slot"} \cup SlotPC => pos <= endMark
  /\ pc # "each" => owed = {}
  /\ \A p \in Phase : IsInjective(each[p])

CalendarInv == Placed /\ NoDuplicate /\ NoneMissed

IInv == /\ TypeOK /\ CalendarInv /\ NoneForgotten
        /\ InStep /\ RunLength /\ EachServedOnce /\ Walk

THEOREM InitInv == Init => IInv
<1> SUFFICES ASSUME Init PROVE IInv
  OBVIOUS
<1> USE DEF Init
<1>1. TypeOK
  <2>1. /\ cal \in [Phase -> [Position -> Seq(Event)]]
        /\ now \in [Phase -> Seq(Event)] /\ each \in [Phase -> Seq(EachEvent)]
        /\ time \in [Event -> 0 .. Word - 1 \cup {None}]
        /\ wanted \in [Event -> Phase \cup {None}]
    OBVIOUS
  <2>2. SimTime \in 0 .. Word - 1 /\ dotsPerLine \in 0 .. LineLen - 1
    BY WordAssumption, LineAssumption
  <2>3. TimeType = None /\ pc = "idle" /\ active = None /\ owed = {}
    OBVIOUS
  <2>4. SimStopCommand \in BOOLEAN
    OBVIOUS
  <2>5. pos = 0 /\ endMark = 0 /\ nSlots = 0 /\ nDots = 0 /\ nextDot = 0
        /\ target = 0
    OBVIOUS
  <2> HIDE DEF Init
  <2>6. QED  BY <2>1, <2>2, <2>3, <2>4, <2>5 DEF TypeOK, SlotPC
<1>2. \A p \in Phase, i \in Position : cal[p][i] = <<>> /\ now[p] = <<>>
  OBVIOUS
<1>3. EARLY \in Phase /\ LATE \in Phase
  BY DEF Phase
<1>4. CalendarInv
  BY <1>2, <1>3, EmptyList DEF CalendarInv, Placed, NoDuplicate, NoneMissed
<1>5. InStep /\ RunLength /\ EachServedOnce
  BY TimeLenAssumption DEF InStep, RunLength, EachServedOnce, SlotPC
<1>6. Walk
  BY EmptyList DEF Walk, SlotPC
<1>7. NoneForgotten
  <2>1. \A e \in Event, p \in Phase : wanted[e] # p /\ ~ Waiting(e, p)
    BY <1>2, EmptyList, EventAssumption DEF Waiting, InCalendar, InNow
  <2>2. QED  BY <2>1 DEF NoneForgotten
<1>8. QED  BY <1>1, <1>4, <1>5, <1>6, <1>7 DEF IInv

(* The elements of the lists are events.                                   *)
LEMMA ListElements == \A S : \A s \in Seq(S) : ToSet(s) \subseteq S
BY DEF ToSet

LEMMA ElementsTyped ==
  ASSUME IInv
  PROVE  /\ \A q \in Phase, i \in Position : ToSet(cal[q][i]) \subseteq Event
         /\ \A q \in Phase : ToSet(now[q]) \subseteq Event
<1>1. /\ \A q \in Phase, i \in Position : cal[q][i] \in Seq(Event)
      /\ \A q \in Phase : now[q] \in Seq(Event)
  BY DEF IInv, TypeOK
<1>2. QED  BY <1>1, ListElements

(***************************************************************************)
(* Steps that leave calendar and clock alone.                              *)
(***************************************************************************)

LEMMA QuietCalendar ==
  ASSUME CalendarInv, UNCHANGED <<cal, now, time, clock>>,
         UNCHANGED pos \/ pc' # "evt",
         pc' \in SlotPC => pc \in SlotPC,
         pc' = "evt" => pc = "evt"
  PROVE  CalendarInv'
<1>1. /\ cal' = cal /\ now' = now /\ time' = time
      /\ SimTime' = SimTime /\ TimeType' = TimeType
  BY DEF calendar, clock
<1>2. Placed'
  BY <1>1 DEF CalendarInv, Placed
<1>3. NoDuplicate'
  BY <1>1 DEF CalendarInv, NoDuplicate
<1>4. \A p \in Phase : ToCome(p) => ToCome(p)'
  BY <1>1 DEF ToCome
<1>5. NoneMissed'
  BY <1>1, <1>4 DEF CalendarInv, NoneMissed
<1>6. QED  BY <1>2, <1>3, <1>5 DEF CalendarInv

(***************************************************************************)
(* Steps that change the calendar.                                         *)
(***************************************************************************)

(* An event in no list is requested: it goes to the head of one list.      *)
LEMMA AlarmCalendar ==
  ASSUME IInv, NEW p \in Phase, NEW e \in Event, NEW d \in Delay,
         Alarm(p, e, d)
  PROVE  CalendarInv'
<1> DEFINE t == SimTime + d
           h == Hash(t)
<1>1. /\ SimTime \in Nat /\ t \in Nat /\ t >= SimTime /\ h \in Position
      /\ t # None
  <2>1. SimTime \in Nat /\ d \in Nat
    BY DelayAssumption, WordAssumption DEF IInv, TypeOK
  <2>2. t \in Nat /\ t >= SimTime
    BY <2>1
  <2>3. QED  BY <2>1, <2>2, HashType, EventAssumption
<1>2. /\ cal \in [Phase -> [Position -> Seq(Event)]]
      /\ time \in [Event -> 0 .. Word - 1 \cup {None}]
      /\ now' = now /\ SimTime' = SimTime /\ TimeType' = TimeType
      /\ pc' = pc /\ pos' = pos
      /\ time' = [time EXCEPT ![e] = t]
      /\ cal' = [cal EXCEPT ![p][h] = Cons(e, @)]
  BY DEF IInv, TypeOK, Alarm, clock, loop, run
<1>3. /\ \A q \in Phase, i \in Position : e \notin ToSet(cal[q][i])
      /\ \A q \in Phase : e \notin ToSet(now[q])
  BY DEF Alarm, MayRegister, Registered, InCalendar, InNow
<1>4. /\ cal[p][h] \in Seq(Event)
      /\ cal'[p][h] = Cons(e, cal[p][h])
      /\ \A q \in Phase, i \in Position :
           <<q, i>> # <<p, h>> => cal'[q][i] = cal[q][i]
  BY <1>1, <1>2
<1>5. /\ ToSet(cal'[p][h]) = ToSet(cal[p][h]) \cup {e}
      /\ IsInjective(cal[p][h]) => IsInjective(cal'[p][h])
  BY <1>3, <1>4, <1>1, ConsList
<1>6. time'[e] = t /\ \A x \in Event : x # e => time'[x] = time[x]
  BY <1>2
<1>7. /\ \A q \in Phase, i \in Position : ToSet(cal[q][i]) \subseteq Event
      /\ \A q \in Phase : ToSet(now[q]) \subseteq Event
  BY ElementsTyped
<1> HIDE DEF t, h
<1>8. Placed'
  <2>1. ASSUME NEW q \in Phase, NEW i \in Position, NEW x \in ToSet(cal'[q][i])
        PROVE  time'[x] # None /\ Hash(time'[x]) = i
    <3>1. CASE x = e
      BY <1>1, <1>3, <1>4, <1>6, <2>1, <3>1 DEF h
    <3>2. CASE x # e
      <4>1. x \in ToSet(cal[q][i])
        BY <1>4, <1>5, <2>1, <3>2
      <4>2. QED  BY <4>1, <1>6, <1>7, <3>2 DEF IInv, CalendarInv, Placed
    <3>3. QED  BY <3>1, <3>2
  <2>2. ASSUME pc = "evt", NEW x \in ToSet(now[TimeType])
        PROVE  time'[x] # None /\ Hash(time'[x]) = pos
    <3>1. TimeType \in Phase
      BY <2>2 DEF IInv, TypeOK, SlotPC
    <3>2. QED
      BY <3>1, <2>2, <1>3, <1>6, <1>7 DEF IInv, CalendarInv, Placed
  <2>3. QED  BY <1>2, <2>1, <2>2 DEF Placed
<1>9. NoDuplicate'
  <2>1. \A q \in Phase : /\ IsInjective(now'[q])
                         /\ \A i \in Position : IsInjective(cal'[q][i])
    BY <1>2, <1>4, <1>5 DEF IInv, CalendarInv, NoDuplicate
  <2>2. \A q, r \in Phase, i, j \in Position :
          <<q, i>> # <<r, j>> => ToSet(cal'[q][i]) \cap ToSet(cal'[r][j]) = {}
    <3>1. \A q, r \in Phase, i, j \in Position :
            <<q, i>> # <<r, j>> => ToSet(cal[q][i]) \cap ToSet(cal[r][j]) = {}
      BY DEF IInv, CalendarInv, NoDuplicate
    <3>2. \A q \in Phase, i \in Position : \A x \in ToSet(cal'[q][i]) :
            x \in ToSet(cal[q][i]) \/ (x = e /\ <<q, i>> = <<p, h>>)
      BY <1>4, <1>5
    <3>3. QED  BY <1>3, <3>1, <3>2
  <2>3. \A q, r \in Phase, i \in Position :
          ToSet(cal'[q][i]) \cap ToSet(now'[r]) = {}
    <3>1. \A q \in Phase, i \in Position :
            ToSet(cal'[q][i]) \subseteq ToSet(cal[q][i]) \cup {e}
      BY <1>4, <1>5
    <3>2. \A q, r \in Phase, i \in Position :
            ToSet(cal[q][i]) \cap ToSet(now[r]) = {}
      BY DEF IInv, CalendarInv, NoDuplicate
    <3>3. ASSUME NEW q \in Phase, NEW r \in Phase, NEW i \in Position,
                 NEW x \in ToSet(cal'[q][i]), x \in ToSet(now'[r])
          PROVE  FALSE
      <4>1. x \in ToSet(now[r])
        BY <1>2, <3>3
      <4>2. x # e
        BY <1>3, <4>1
      <4>3. x \in ToSet(cal[q][i])
        BY <3>1, <3>3, <4>2
      <4>4. QED  BY <3>2, <4>1, <4>3
    <3>4. QED  BY <3>3
  <2>4. QED
    BY <1>2, <2>1, <2>2, <2>3 DEF NoDuplicate, IInv, CalendarInv
<1>10. NoneMissed'
  <2>1. t = SimTime => ToCome(p)'
    <3>1. t = SimTime => d = 0
      BY <1>1, DelayAssumption DEF t
    <3>2. QED
      BY <3>1, <1>2 DEF Alarm, MayRegister, ToCome, IInv, TypeOK, SlotPC
  <2>2. ASSUME NEW q \in Phase, NEW i \in Position, NEW x \in ToSet(cal'[q][i])
        PROVE  time'[x] >= SimTime /\ (time'[x] = SimTime => ToCome(q)')
    <3>1. CASE x = e
      BY <1>1, <1>3, <1>4, <1>6, <2>1, <2>2, <3>1
    <3>2. CASE x # e
      <4>1. x \in ToSet(cal[q][i])
        BY <1>4, <1>5, <2>2, <3>2
      <4>2. QED
        BY <4>1, <1>2, <1>6, <1>7, <3>2
        DEF IInv, CalendarInv, NoneMissed, ToCome
    <3>3. QED  BY <3>1, <3>2
  <2>3. ASSUME pc = "evt", NEW x \in ToSet(now[TimeType])
        PROVE  time'[x] >= SimTime
    <3>1. TimeType \in Phase
      BY <2>3 DEF IInv, TypeOK, SlotPC
    <3>2. QED
      BY <3>1, <2>3, <1>3, <1>6, <1>7 DEF IInv, CalendarInv, NoneMissed
  <2>4. QED  BY <1>2, <2>2, <2>3 DEF NoneMissed
<1>11. QED  BY <1>8, <1>9, <1>10 DEF CalendarInv

(* Lists that only lose elements, or stay where they are.                  *)
LEMMA FewerElements ==
  ASSUME CalendarInv, UNCHANGED clock, UNCHANGED <<pc, pos, time>>,
         \A q \in Phase, i \in Position :
           /\ ToSet(cal'[q][i]) \subseteq ToSet(cal[q][i])
           /\ IsInjective(cal'[q][i]),
         \A q \in Phase : /\ ToSet(now'[q]) \subseteq ToSet(now[q])
                          /\ IsInjective(now'[q]),
         pc = "evt" => TimeType \in Phase
  PROVE  CalendarInv'
<1>1. SimTime' = SimTime /\ TimeType' = TimeType /\ pc' = pc /\ pos' = pos
      /\ time' = time
  BY DEF clock
<1>2. Placed'
  BY <1>1 DEF CalendarInv, Placed
<1>3. NoDuplicate'
  <2>1. \A q, r \in Phase, i, j \in Position :
          <<q, i>> # <<r, j>> => ToSet(cal'[q][i]) \cap ToSet(cal'[r][j]) = {}
    BY DEF CalendarInv, NoDuplicate
  <2>2. \A q, r \in Phase, i \in Position :
          ToSet(cal'[q][i]) \cap ToSet(now'[r]) = {}
    BY DEF CalendarInv, NoDuplicate
  <2>3. ToSet(now'[EARLY]) \cap ToSet(now'[LATE]) = {}
    BY DEF CalendarInv, NoDuplicate, Phase
  <2>4. QED  BY <2>1, <2>2, <2>3 DEF NoDuplicate
<1>4. NoneMissed'
  BY <1>1 DEF CalendarInv, NoneMissed, ToCome
<1>5. QED  BY <1>2, <1>3, <1>4 DEF CalendarInv

LEMMA UnalarmCalendar ==
  ASSUME IInv, NEW p \in Phase, NEW e \in Event, Unalarm(p, e)
  PROVE  CalendarInv'
<1> DEFINE h == Hash(time[e])
<1>1. /\ cal \in [Phase -> [Position -> Seq(Event)]]
      /\ now \in [Phase -> Seq(Event)]
      /\ \A q \in Phase : /\ IsInjective(now[q])
                          /\ \A i \in Position : IsInjective(cal[q][i])
      /\ CalendarInv
  BY DEF IInv, TypeOK, CalendarInv, NoDuplicate
<1>2. /\ h \in Position /\ (pc = "evt" => TimeType \in Phase)
      /\ UNCHANGED loop => UNCHANGED <<pc, pos>>
  BY SMTT(40), HashType, WordAssumption DEF IInv, TypeOK, SlotPC, Unalarm, loop, run
<1>3. CASE /\ e \in ToSet(cal[p][h])
           /\ cal' = [cal EXCEPT ![p][h] = Del(@, e)]
           /\ UNCHANGED <<now, time, each, clock, loop, SimStopCommand>>
  <2>1. /\ cal[p][h] \in Seq(Event)
        /\ IsInjective(cal[p][h])
        /\ cal'[p][h] = Del(cal[p][h], e)
        /\ \A q \in Phase, i \in Position :
             <<q, i>> # <<p, h>> => cal'[q][i] = cal[q][i]
    BY <1>1, <1>2, <1>3
  <2>2. /\ ToSet(cal'[p][h]) \subseteq ToSet(cal[p][h])
        /\ IsInjective(cal'[p][h])
    BY <2>1, <1>3, DelList
  <2>3. QED  BY <1>1, <1>2, <1>3, <2>1, <2>2, FewerElements
<1>4. CASE /\ e \in ToSet(now[p])
           /\ now' = [now EXCEPT ![p] = Del(@, e)]
           /\ UNCHANGED <<cal, time, each, clock, loop, SimStopCommand>>
  <2>1. /\ now[p] \in Seq(Event)
        /\ IsInjective(now[p])
        /\ now'[p] = Del(now[p], e)
        /\ \A q \in Phase : q # p => now'[q] = now[q]
    BY <1>1, <1>4
  <2>2. /\ ToSet(now'[p]) \subseteq ToSet(now[p])
        /\ IsInjective(now'[p])
    BY <2>1, <1>4, DelList
  <2>3. QED  BY <1>1, <1>2, <1>4, <2>1, <2>2, FewerElements
<1>5. CASE RaiseError
  BY <1>1, <1>5, QuietCalendar DEF RaiseError, LeaveRun, registry, SlotPC
<1>6. QED
  BY <1>3, <1>4, <1>5 DEF Unalarm, InNow

LEMMA FlushCalendar ==
  ASSUME IInv, Flush
  PROVE  CalendarInv'
<1>1. /\ \A q \in Phase, i \in Position : cal'[q][i] = <<>>
      /\ \A q \in Phase : now'[q] = <<>>
      /\ UNCHANGED <<pc, pos, time>> /\ UNCHANGED clock
  BY DEF Flush, loop, run
<1>2. CalendarInv /\ (pc = "evt" => TimeType \in Phase)
  BY DEF IInv, TypeOK, SlotPC
<1>3. QED  BY <1>1, <1>2, EmptyList, FewerElements

(* The list of the present position becomes the detached list.             *)
LEMMA DetachNoDuplicate ==
  ASSUME IInv, NEW p \in Phase, pos \in Position, Detach(p)
  PROVE  /\ NoDuplicate'
         /\ now'[p] = cal[p][pos] /\ ToSet(cal'[p][pos]) = {}
         /\ \A q \in Phase : q # p => now'[q] = now[q]
         /\ \A q \in Phase, i \in Position :
              <<q, i>> # <<p, pos>> => cal'[q][i] = cal[q][i]
<1>1. /\ cal \in [Phase -> [Position -> Seq(Event)]]
      /\ now \in [Phase -> Seq(Event)]
      /\ NoDuplicate
  BY DEF IInv, TypeOK, CalendarInv
<1>2. /\ now'[p] = cal[p][pos]
      /\ \A q \in Phase : q # p => now'[q] = now[q]
      /\ cal'[p][pos] = <<>>
      /\ \A q \in Phase, i \in Position :
           <<q, i>> # <<p, pos>> => cal'[q][i] = cal[q][i]
  BY <1>1 DEF Detach
<1>3. ToSet(cal'[p][pos]) = {} /\ IsInjective(cal'[p][pos])
  BY <1>2, EmptyList
<1>4. \A q \in Phase : /\ IsInjective(now'[q])
                       /\ \A i \in Position : IsInjective(cal'[q][i])
  BY <1>1, <1>2, <1>3 DEF NoDuplicate
<1>5. \A q \in Phase, i \in Position : ToSet(cal'[q][i]) \subseteq ToSet(cal[q][i])
  BY <1>2, <1>3
<1>6. \A q, r \in Phase, i, j \in Position :
        <<q, i>> # <<r, j>> => ToSet(cal[q][i]) \cap ToSet(cal[r][j]) = {}
  BY <1>1 DEF NoDuplicate
<1>7. \A q, r \in Phase, i \in Position :
        ToSet(cal[q][i]) \cap ToSet(now[r]) = {}
  BY <1>1 DEF NoDuplicate
<1>8. \A q, r \in Phase, i, j \in Position :
        <<q, i>> # <<r, j>> => ToSet(cal'[q][i]) \cap ToSet(cal'[r][j]) = {}
  BY <1>5, <1>6
<1>9. \A q, r \in Phase, i \in Position :
        ToSet(cal'[q][i]) \cap ToSet(now'[r]) = {}
  <2>1. TAKE q, r \in Phase, i \in Position
  <2>2. CASE r # p
    BY <2>2, <1>2, <1>5, <1>7
  <2>3. CASE r = p /\ <<q, i>> # <<p, pos>>
    BY <2>3, <1>2, <1>6
  <2>4. CASE r = p /\ <<q, i>> = <<p, pos>>
    BY <2>4, <1>3
  <2>5. QED  BY <2>2, <2>3, <2>4
<1>10. ToSet(now'[EARLY]) \cap ToSet(now'[LATE]) = {}
  BY <1>2, <1>7 DEF Phase, EARLY, LATE
<1>11. QED  BY <1>2, <1>3, <1>4, <1>8, <1>9, <1>10 DEF NoDuplicate

LEMMA BeginSlotCalendar ==
  ASSUME IInv, BeginSlot
  PROVE  CalendarInv'
<1>1. /\ pos \in Position /\ pos = Hash(SimTime)
      /\ SimTime' = SimTime /\ time' = time /\ pos' = pos
      /\ TimeType' = EARLY /\ pc' = "evt" /\ pc = "slot"
      /\ EARLY \in Phase
  BY TimeLenAssumption
  DEF IInv, TypeOK, InStep, BeginSlot, run, Position, Phase
<1>2. /\ NoDuplicate'
      /\ now'[EARLY] = cal[EARLY][pos] /\ ToSet(cal'[EARLY][pos]) = {}
      /\ \A q \in Phase, i \in Position :
           <<q, i>> # <<EARLY, pos>> => cal'[q][i] = cal[q][i]
  BY <1>1, DetachNoDuplicate DEF BeginSlot
<1>3. \A q \in Phase, i \in Position : \A e \in ToSet(cal'[q][i]) :
        e \in ToSet(cal[q][i]) /\ ~ (q = EARLY /\ i = pos)
  BY <1>2
<1>4. Placed'
  BY <1>1, <1>2, <1>3 DEF IInv, CalendarInv, Placed
<1>5. NoneMissed'
  <2>1. ASSUME NEW q \in Phase, NEW i \in Position, NEW e \in ToSet(cal'[q][i])
        PROVE  time[e] >= SimTime /\ (time[e] = SimTime => ToCome(q)')
    <3>1. e \in ToSet(cal[q][i]) /\ ~ (q = EARLY /\ i = pos)
      BY <1>3, <2>1
    <3>2. time[e] >= SimTime /\ Hash(time[e]) = i
      BY <3>1 DEF IInv, CalendarInv, Placed, NoneMissed
    <3>3. time[e] = SimTime => q = LATE
      BY <3>1, <3>2, <1>1 DEF Phase
    <3>4. QED  BY <3>2, <3>3, <1>1 DEF ToCome, SlotPC
  <2>2. \A e \in ToSet(now'[EARLY]) : time[e] >= SimTime
    BY <1>1, <1>2 DEF IInv, CalendarInv, NoneMissed
  <2>3. QED  BY <1>1, <2>1, <2>2 DEF NoneMissed
<1>6. QED  BY <1>2, <1>4, <1>5 DEF CalendarInv

LEMMA EnterLateCalendar ==
  ASSUME IInv, EnterLate
  PROVE  CalendarInv'
<1>1. /\ pos \in Position /\ pos = Hash(SimTime)
      /\ SimTime' = SimTime /\ time' = time /\ pos' = pos
      /\ TimeType = EARLY /\ TimeType' = LATE
      /\ pc' = "evt" /\ pc = "phaseEnd"
      /\ LATE \in Phase /\ EARLY # LATE
  BY TimeLenAssumption
  DEF IInv, TypeOK, InStep, EnterLate, run, Position, Phase, SlotPC, EARLY, LATE
<1>2. /\ NoDuplicate'
      /\ now'[LATE] = cal[LATE][pos] /\ ToSet(cal'[LATE][pos]) = {}
      /\ \A q \in Phase, i \in Position :
           <<q, i>> # <<LATE, pos>> => cal'[q][i] = cal[q][i]
  BY <1>1, DetachNoDuplicate DEF EnterLate
<1>3. \A q \in Phase, i \in Position : \A e \in ToSet(cal'[q][i]) :
        e \in ToSet(cal[q][i]) /\ ~ (q = LATE /\ i = pos)
  BY <1>2
<1>4. Placed'
  BY <1>1, <1>2, <1>3 DEF IInv, CalendarInv, Placed
<1>5. NoneMissed'
  <2>1. ASSUME NEW q \in Phase, NEW i \in Position, NEW e \in ToSet(cal'[q][i])
        PROVE  time[e] >= SimTime /\ time[e] # SimTime
    <3>1. e \in ToSet(cal[q][i]) /\ ~ (q = LATE /\ i = pos)
      BY <1>3, <2>1
    <3>2. /\ time[e] >= SimTime /\ Hash(time[e]) = i
          /\ time[e] = SimTime => ToCome(q)
      BY <3>1 DEF IInv, CalendarInv, Placed, NoneMissed
    <3>3. ToCome(q) => q = LATE
      BY <1>1 DEF ToCome, SlotPC
    <3>4. QED  BY <3>1, <3>2, <3>3, <1>1
  <2>2. \A e \in ToSet(now'[LATE]) : time[e] >= SimTime
    BY <1>1, <1>2 DEF IInv, CalendarInv, NoneMissed
  <2>3. QED  BY <1>1, <2>1, <2>2 DEF NoneMissed
<1>6. QED  BY <1>2, <1>4, <1>5 DEF CalendarInv

(* Both phases of the slot are over: what is left is due later.            *)
LEMMA NextSlotCalendar ==
  ASSUME IInv, NextSlot
  PROVE  CalendarInv'
<1>1. /\ pc = "phaseEnd" /\ TimeType = LATE /\ pc' \in {"idle", "slot"}
      /\ cal' = cal /\ now' = now /\ time' = time
      /\ SimTime' = (SimTime + 1) % Word
      /\ EARLY # LATE
  BY DEF NextSlot, registry, calendar, LeaveRun, EARLY, LATE
<1>2. Placed'
  BY <1>1 DEF IInv, CalendarInv, Placed
<1>3. NoDuplicate'
  BY <1>1 DEF IInv, CalendarInv, NoDuplicate
<1>4. NoneMissed'
  <2>1. ASSUME NEW q \in Phase, NEW i \in Position, NEW e \in ToSet(cal[q][i])
        PROVE  time[e] >= SimTime' /\ ToCome(q)'
    <3>1. ~ ToCome(q)
      BY <1>1 DEF ToCome, SlotPC
    <3>2. time[e] >= SimTime /\ time[e] # SimTime /\ time[e] # None
      BY <3>1, <2>1 DEF IInv, CalendarInv, NoneMissed, Placed
    <3>3. e \in Event
      BY <2>1, ElementsTyped
    <3>4. time[e] \in 0 .. Word - 1 /\ SimTime \in 0 .. Word - 1
      BY <3>2, <3>3 DEF IInv, TypeOK
    <3>5. SimTime + 1 \in 0 .. Word - 1
      BY <3>2, <3>4, WordAssumption
    <3>6. (SimTime + 1) % Word = SimTime + 1
      BY <3>5, WordAssumption
    <3>7. QED
      BY <3>2, <3>4, <3>6, <1>1, WordAssumption DEF ToCome, SlotPC
  <2>2. pc' # "evt"
    BY <1>1
  <2>3. QED  BY <1>1, <2>1, <2>2 DEF NoneMissed
<1>5. QED  BY <1>2, <1>3, <1>4 DEF CalendarInv

LEMMA PopCalendar ==
  ASSUME IInv, Pop
  PROVE  CalendarInv'
<1> DEFINE T == TimeType
           e == Head(now[T])
<1>1. /\ pc = "evt" /\ pc' = "evt" /\ pos' = pos /\ pos \in Position
      /\ T \in Phase /\ now[T] # <<>> /\ time' = time
      /\ SimTime' = SimTime /\ TimeType' = TimeType
      /\ cal \in [Phase -> [Position -> Seq(Event)]]
      /\ now \in [Phase -> Seq(Event)] /\ now[T] \in Seq(Event)
      /\ now' = [now EXCEPT ![T] = Tail(@)]
      /\ CalendarInv
  BY SMTT(40), TimeLenAssumption
  DEF IInv, TypeOK, InStep, SlotPC, Pop, clock, run, Position
<1> HIDE DEF T
<1>2. /\ \A q \in Phase : IsInjective(now[q])
      /\ \A q \in Phase, i \in Position : IsInjective(cal[q][i])
      /\ \A q, r \in Phase, i, j \in Position :
           <<q, i>> # <<r, j>> => ToSet(cal[q][i]) \cap ToSet(cal[r][j]) = {}
      /\ \A q, r \in Phase, i \in Position :
           ToSet(cal[q][i]) \cap ToSet(now[r]) = {}
      /\ ToSet(now[EARLY]) \cap ToSet(now[LATE]) = {}
  BY <1>1 DEF CalendarInv, NoDuplicate
<1>3. /\ e \in Event /\ e \in ToSet(now[T]) /\ e \notin ToSet(Tail(now[T]))
      /\ ToSet(Tail(now[T])) \subseteq ToSet(now[T])
      /\ IsInjective(Tail(now[T]))
  BY <1>1, <1>2, TailList
<1> HIDE DEF e
<1>4. /\ now'[T] = Tail(now[T])
      /\ \A q \in Phase : q # T => now'[q] = now[q]
  BY <1>1
<1>5. \A q \in Phase : /\ ToSet(now'[q]) \subseteq ToSet(now[q])
                       /\ IsInjective(now'[q])
  BY <1>2, <1>3, <1>4
<1>6. CASE UNCHANGED cal
  BY <1>1, <1>2, <1>5, <1>6, FewerElements DEF T, clock
<1>7. CASE time[e] # SimTime /\ cal' = [cal EXCEPT ![T][pos] = Cons(e, @)]
  <2>1. /\ cal[T][pos] \in Seq(Event)
        /\ cal'[T][pos] = Cons(e, cal[T][pos])
        /\ \A q \in Phase, i \in Position :
             <<q, i>> # <<T, pos>> => cal'[q][i] = cal[q][i]
    BY <1>1, <1>7
  <2>2. \A q \in Phase, i \in Position : e \notin ToSet(cal[q][i])
    BY <1>1, <1>2, <1>3
  <2>3. /\ ToSet(cal'[T][pos]) = ToSet(cal[T][pos]) \cup {e}
        /\ IsInjective(cal'[T][pos])
    BY <2>1, <2>2, <1>1, <1>2, <1>3, ConsList
  <2>4. /\ time[e] # None /\ Hash(time[e]) = pos
        /\ time[e] > SimTime
    <3>1. time[e] # None /\ Hash(time[e]) = pos /\ time[e] >= SimTime
      BY <1>1, <1>3 DEF CalendarInv, Placed, NoneMissed, T
    <3>2. time[e] \in Nat /\ SimTime \in Nat
      BY <3>1, <1>3, WordAssumption DEF IInv, TypeOK
    <3>3. QED  BY <3>1, <3>2, <1>7
  <2>5. Placed'
    <3>1. ASSUME NEW q \in Phase, NEW i \in Position, NEW x \in ToSet(cal'[q][i])
          PROVE  time[x] # None /\ Hash(time[x]) = i
      <4>1. (x = e /\ i = pos) \/ x \in ToSet(cal[q][i])
        BY <3>1, <2>1, <2>3
      <4>2. QED  BY <4>1, <2>4, <1>1 DEF CalendarInv, Placed
    <3>2. QED
      BY <3>1, <1>1, <1>5 DEF CalendarInv, Placed, T
  <2>6. NoDuplicate'
    <3>1. \A q, r \in Phase, i, j \in Position :
            <<q, i>> # <<r, j>> => ToSet(cal'[q][i]) \cap ToSet(cal'[r][j]) = {}
      BY <1>2, <2>1, <2>2, <2>3
    <3>2. \A q \in Phase : e \notin ToSet(now'[q])
      <4>1. \A q \in Phase : q # T => e \notin ToSet(now[q])
        BY <1>2, <1>3, <1>1 DEF Phase
      <4>2. QED  BY <4>1, <1>3, <1>4
    <3>3. \A q \in Phase, i \in Position :
            ToSet(cal'[q][i]) \subseteq ToSet(cal[q][i]) \cup {e}
      BY <2>1, <2>3
    <3>4. \A q, r \in Phase, i \in Position :
            ToSet(cal'[q][i]) \cap ToSet(now'[r]) = {}
      BY <1>2, <1>5, <3>2, <3>3
    <3>5. \A q \in Phase, i \in Position : IsInjective(cal'[q][i])
      BY <1>2, <2>1, <2>3
    <3>6. ToSet(now'[EARLY]) \cap ToSet(now'[LATE]) = {}
      BY <1>2, <1>5 DEF Phase
    <3>7. QED  BY <1>5, <3>1, <3>4, <3>5, <3>6 DEF NoDuplicate
  <2>7. NoneMissed'
    <3>1. ASSUME NEW q \in Phase, NEW i \in Position, NEW x \in ToSet(cal'[q][i])
          PROVE  time[x] >= SimTime /\ (time[x] = SimTime => ToCome(q))
      <4>1. x = e \/ x \in ToSet(cal[q][i])
        BY <3>1, <2>1, <2>3
      <4>2. time[e] >= SimTime /\ time[e] # SimTime
        BY <2>4, <1>3, <1>7, WordAssumption DEF IInv, TypeOK
      <4>3. QED  BY <4>1, <4>2, <1>1 DEF CalendarInv, NoneMissed
    <3>2. \A q \in Phase : ToCome(q) => ToCome(q)'
      BY <1>1 DEF ToCome
    <3>3. QED
      BY <3>1, <3>2, <1>1, <1>5 DEF CalendarInv, NoneMissed, T
  <2>8. QED  BY <2>5, <2>6, <2>7 DEF CalendarInv
<1>8. QED  BY <1>6, <1>7 DEF Pop, T, e

(***************************************************************************)
(* ResetTime.  All events of a list go to one position, and no two lists   *)
(* go to the same: so moving whole lists is right.                         *)
(***************************************************************************)

MovesTo(p, i, j) ==
  cal[p][i] # <<>> /\ Hash(time[Head(cal[p][i])] - SimTime) = j

LEMMA ListMoves ==
  ASSUME IInv, NEW p \in Phase, NEW i \in Position, NEW j \in Position,
         MovesTo(p, i, j)
  PROVE  /\ \A k \in Position : MovesTo(p, k, j) => k = i
         /\ \A e \in ToSet(cal[p][i]) :
              /\ time[e] \in 0 .. Word - 1 /\ time[e] >= SimTime
              /\ Hash(time[e] - SimTime) = j
<1>1. /\ \A k \in Position : cal[p][k] \in Seq(Event)
      /\ SimTime \in Nat
  BY WordAssumption DEF IInv, TypeOK
<1>2. \A k \in Position : \A e \in ToSet(cal[p][k]) :
        /\ time[e] \in 0 .. Word - 1 /\ time[e] \in Nat /\ time[e] >= SimTime
        /\ Hash(time[e]) = k
  <2>1. TAKE k \in Position
  <2>2. TAKE e \in ToSet(cal[p][k])
  <2>3. time[e] # None /\ Hash(time[e]) = k /\ time[e] >= SimTime
    BY DEF IInv, CalendarInv, Placed, NoneMissed
  <2>4. e \in Event
    BY ElementsTyped
  <2>5. time[e] \in 0 .. Word - 1
    BY <2>3, <2>4 DEF IInv, TypeOK
  <2>6. QED  BY <2>3, <2>5, WordAssumption
<1>3. \A k \in Position : cal[p][k] # <<>> => Head(cal[p][k]) \in ToSet(cal[p][k])
  BY <1>1, TailList
<1>4. ASSUME NEW k \in Position, MovesTo(p, k, j)
      PROVE  k = i
  <2>1. /\ Head(cal[p][k]) \in ToSet(cal[p][k])
        /\ Head(cal[p][i]) \in ToSet(cal[p][i])
    BY <1>3, <1>4 DEF MovesTo
  <2>2. PICK x \in Nat : x = time[Head(cal[p][k])]
    BY <1>2, <2>1
  <2>3. PICK y \in Nat : y = time[Head(cal[p][i])]
    BY <1>2, <2>1
  <2>4. SimTime <= x /\ SimTime <= y /\ Hash(x) = k /\ Hash(y) = i
    BY <1>2, <2>1, <2>2, <2>3, <1>1
  <2>5. Hash(x - SimTime) = Hash(y - SimTime)
    BY <1>4, <2>2, <2>3 DEF MovesTo
  <2>6. SimTime \in Nat
    BY <1>1
  <2>7. Hash(x) = Hash(y) <=> Hash(x - SimTime) = Hash(y - SimTime)
    BY <2>4, <2>6, HashShift
  <2>8. QED  BY <2>4, <2>5, <2>7
<1>5. ASSUME NEW e \in ToSet(cal[p][i])
      PROVE  Hash(time[e] - SimTime) = j
  <2>1. Head(cal[p][i]) \in ToSet(cal[p][i])
    BY <1>3 DEF MovesTo
  <2>2. PICK x \in Nat : x = time[e]
    BY <1>2, <1>5
  <2>3. PICK y \in Nat : y = time[Head(cal[p][i])]
    BY <1>2, <2>1
  <2>4. SimTime <= x /\ SimTime <= y /\ Hash(x) = i /\ Hash(y) = i
    BY <1>2, <1>5, <2>1, <2>2, <2>3, <1>1
  <2>5. Hash(x - SimTime) = Hash(y - SimTime)
    BY <1>1, <2>4, HashShift
  <2>6. QED  BY <2>2, <2>3, <2>5 DEF MovesTo
<1>6. QED  BY <1>2, <1>4, <1>5

LEMMA MovedList ==
  ASSUME IInv, NEW p \in Phase, NEW j \in Position
  PROVE  \/ Moved(p)[j] = <<>>
         \/ \E i \in Position : MovesTo(p, i, j) /\ Moved(p)[j] = cal[p][i]
<1> DEFINE from == {i \in Position : MovesTo(p, i, j)}
<1>1. Moved(p)[j] = IF from = {} THEN <<>> ELSE cal[p][Max(from)]
  BY DEF Moved, MovesTo
<1>2. CASE from = {}
  BY <1>1, <1>2
<1>3. CASE from # {}
  <2>1. PICK i \in Position : MovesTo(p, i, j)
    BY <1>3
  <2>2. from = {i}
    BY <2>1, ListMoves
  <2>3. i \in Int
    BY DEF Position
  <2>4. Max({i}) = i
    BY <2>3 DEF Max
  <2>5. QED  BY <1>1, <2>1, <2>2, <2>4
<1>4. QED  BY <1>2, <1>3

LEMMA NoListLost ==
  ASSUME IInv, NEW p \in Phase, NEW i \in Position, cal[p][i] # <<>>
  PROVE  \E j \in Position : Moved(p)[j] = cal[p][i]
<1>1. /\ cal[p][i] \in Seq(Event)
      /\ Head(cal[p][i]) \in ToSet(cal[p][i])
  BY TailList DEF IInv, TypeOK
<1>2. PICK x \in Nat : x = time[Head(cal[p][i])] /\ x - SimTime \in Nat
  <2>1. /\ time[Head(cal[p][i])] # None
        /\ time[Head(cal[p][i])] >= SimTime
    BY <1>1 DEF IInv, CalendarInv, Placed, NoneMissed
  <2>2. Head(cal[p][i]) \in Event
    BY <1>1, ElementsTyped
  <2>3. time[Head(cal[p][i])] \in Nat /\ SimTime \in Nat
    BY <2>1, <2>2, WordAssumption DEF IInv, TypeOK
  <2>4. QED  BY <2>1, <2>3
<1>3. PICK j \in Position : j = Hash(x - SimTime)
  BY <1>2, HashType
<1>4. MovesTo(p, i, j)
  BY <1>2, <1>3 DEF MovesTo
<1> DEFINE from == {k \in Position : MovesTo(p, k, j)}
<1>5. from = {i}
  BY <1>4, ListMoves
<1>6. Moved(p)[j] = IF from = {} THEN <<>> ELSE cal[p][Max(from)]
  BY DEF Moved, MovesTo
<1>7. Max({i}) = i
  <2>1. i \in Int
    BY DEF Position
  <2>2. QED  BY <2>1 DEF Max
<1>8. QED  BY <1>5, <1>6, <1>7

LEMMA ResetTimeCalendar ==
  ASSUME IInv, ResetTime
  PROVE  CalendarInv'
<1>1. /\ pc = "idle" /\ pc' = "idle" /\ now' = now /\ SimTime' = 0
      /\ \A q \in Phase, j \in Position : cal'[q][j] = Moved(q)[j]
      /\ time' = [e \in Event |-> IF \E p \in Phase : InCalendar(e, p)
                                   THEN (time[e] - SimTime) % Word
                                   ELSE time[e]]
      /\ SimTime \in Nat
      /\ CalendarInv
  BY WordAssumption DEF ResetTime, loop, IInv, TypeOK
<1>2. ASSUME NEW q \in Phase, NEW j \in Position, NEW e \in ToSet(cal'[q][j])
      PROVE  /\ \E i \in Position : MovesTo(q, i, j) /\ e \in ToSet(cal[q][i])
             /\ time'[e] \in Nat /\ Hash(time'[e]) = j
  <2>1. PICK i \in Position : MovesTo(q, i, j) /\ cal'[q][j] = cal[q][i]
    BY <1>1, <1>2, MovedList, EmptyList
  <2>2. e \in ToSet(cal[q][i])
    BY <1>2, <2>1
  <2>3. /\ time[e] \in 0 .. Word - 1 /\ time[e] >= SimTime
        /\ Hash(time[e] - SimTime) = j
    BY <2>1, <2>2, ListMoves
  <2>4. e \in Event /\ InCalendar(e, q)
    BY <2>2, ElementsTyped DEF InCalendar
  <2>5. time[e] - SimTime \in 0 .. Word - 1
    BY <2>3, <1>1, WordAssumption
  <2>6. (time[e] - SimTime) % Word = time[e] - SimTime
    BY <2>5, WordAssumption
  <2>7. time'[e] = time[e] - SimTime
    BY <1>1, <2>4, <2>6
  <2>8. QED  BY <2>1, <2>2, <2>3, <2>5, <2>7
<1>3. Placed'
  <2>1. \A q \in Phase, j \in Position : \A e \in ToSet(cal'[q][j]) :
          time'[e] \in Nat /\ Hash(time'[e]) = j
    BY <1>2
  <2>2. \A q \in Phase, j \in Position : \A e \in ToSet(cal'[q][j]) :
          time'[e] # None /\ Hash(time'[e]) = j
    BY <2>1, EventAssumption
  <2>3. pc' # "evt"
    BY <1>1
  <2>4. QED  BY <2>2, <2>3 DEF Placed
<1>4. NoDuplicate'
  <2>1. \A q \in Phase, j \in Position : IsInjective(cal'[q][j])
    <3>1. TAKE q \in Phase, j \in Position
    <3>2. cal'[q][j] = <<>> \/ \E i \in Position : cal'[q][j] = cal[q][i]
      BY <1>1, MovedList
    <3>3. QED  BY <3>2, <1>1, EmptyList DEF CalendarInv, NoDuplicate
  <2>2. ASSUME NEW q \in Phase, NEW r \in Phase,
               NEW j \in Position, NEW k \in Position,
               NEW e \in ToSet(cal'[q][j]), e \in ToSet(cal'[r][k])
        PROVE  q = r /\ j = k
    <3>1. PICK a \in Position : MovesTo(q, a, j) /\ e \in ToSet(cal[q][a])
      BY <1>2, <2>2
    <3>2. PICK b \in Position : MovesTo(r, b, k) /\ e \in ToSet(cal[r][b])
      BY <1>2, <2>2
    <3>3. q = r /\ a = b
      BY <3>1, <3>2, <1>1 DEF CalendarInv, NoDuplicate
    <3>4. QED  BY <3>1, <3>2, <3>3 DEF MovesTo
  <2>3. \A q, r \in Phase, i, j \in Position :
          <<q, i>> # <<r, j>> => ToSet(cal'[q][i]) \cap ToSet(cal'[r][j]) = {}
    BY <2>2
  <2>4. \A q, r \in Phase, i \in Position :
          ToSet(cal'[q][i]) \cap ToSet(now'[r]) = {}
    <3>1. TAKE q, r \in Phase, i \in Position
    <3>2. \A e \in ToSet(cal'[q][i]) : \E a \in Position : e \in ToSet(cal[q][a])
      BY <1>2
    <3>3. QED  BY <3>2, <1>1 DEF CalendarInv, NoDuplicate
  <2>5. QED
    BY <1>1, <2>1, <2>3, <2>4 DEF CalendarInv, NoDuplicate
<1>5. NoneMissed'
  BY <1>1, <1>2 DEF NoneMissed, ToCome, SlotPC
<1>6. QED  BY <1>3, <1>4, <1>5 DEF CalendarInv

-----------------------------------------------------------------------------
(***************************************************************************)
(* Types                                                                   *)
(***************************************************************************)

LEMMA DelType ==
  ASSUME IInv, NEW p \in Phase, NEW e \in Event
  PROVE  /\ \A i \in Position :
              e \in ToSet(cal[p][i]) => Del(cal[p][i], e) \in Seq(Event)
         /\ e \in ToSet(now[p]) => Del(now[p], e) \in Seq(Event)
<1>1. /\ \A i \in Position : cal[p][i] \in Seq(Event) /\ IsInjective(cal[p][i])
      /\ now[p] \in Seq(Event) /\ IsInjective(now[p])
  BY DEF IInv, TypeOK, CalendarInv, NoDuplicate
<1>2. QED  BY <1>1, DelList

LEMMA LeaveRunType ==
  ASSUME TypeOK, LeaveRun, SimTime' \in 0 .. Word - 1,
         SimStopCommand' \in BOOLEAN, wanted' \in [Event -> Phase \cup {None}],
         UNCHANGED <<cal, now, time, each, TimeType>>
  PROVE  TypeOK'
BY LineAssumption DEF TypeOK, LeaveRun, registry, calendar, SlotPC

LEMMA CallType ==
  ASSUME IInv, Call
  PROVE  TypeOK'
<1> USE DEF registry, calendar, clock, loop, run
<1>1. TypeOK
  BY DEF IInv
<1>2. ASSUME NEW p \in Phase, NEW e \in Event, NEW d \in Delay, Alarm(p, e, d)
      PROVE  TypeOK'
  <2>1. SimTime + d \in Nat /\ SimTime + d \in 0 .. Word - 1
    BY <1>1, <1>2, DelayAssumption, WordAssumption DEF TypeOK, Alarm
  <2>2. /\ time' \in [Event -> 0 .. Word - 1 \cup {None}]
        /\ Hash(SimTime + d) \in Position
    BY <1>1, <1>2, <2>1, HashType DEF TypeOK, Alarm
  <2>3. Cons(e, cal[p][Hash(SimTime + d)]) \in Seq(Event)
    BY <1>1, <2>2, ConsList DEF TypeOK
  <2>4. cal' \in [Phase -> [Position -> Seq(Event)]]
    BY <1>1, <1>2, <2>2, <2>3 DEF TypeOK, Alarm
  <2>5. QED  BY <1>1, <1>2, <2>2, <2>4 DEF TypeOK, Alarm
<1>3. ASSUME NEW p \in Phase, NEW e \in Event, Unalarm(p, e)
      PROVE  TypeOK'
  <2>1. /\ \A i \in Position :
             e \in ToSet(cal[p][i]) => Del(cal[p][i], e) \in Seq(Event)
        /\ e \in ToSet(now[p]) => Del(now[p], e) \in Seq(Event)
    BY DelType
  <2>2. Hash(time[e]) \in Position
    BY <1>1, <1>3, HashType, WordAssumption DEF TypeOK, Unalarm
  <2>3. CASE RaiseError
    BY <1>1, <2>3, LeaveRunType DEF RaiseError, TypeOK
  <2>4. CASE /\ e \in ToSet(cal[p][Hash(time[e])])
             /\ cal' = [cal EXCEPT ![p][Hash(time[e])] = Del(@, e)]
             /\ wanted' = [wanted EXCEPT ![e] = None]
             /\ UNCHANGED <<now, time, each, clock, loop, SimStopCommand>>
    BY <1>1, <2>1, <2>2, <2>4 DEF TypeOK
  <2>5. CASE /\ e \in ToSet(now[p])
             /\ now' = [now EXCEPT ![p] = Del(@, e)]
             /\ wanted' = [wanted EXCEPT ![e] = None]
             /\ UNCHANGED <<cal, time, each, clock, loop, SimStopCommand>>
    BY <1>1, <2>1, <2>5 DEF TypeOK
  <2>6. QED  BY <1>3, <2>3, <2>4, <2>5 DEF Unalarm, InNow
<1>4. ASSUME NEW p \in Phase, NEW e \in EachEvent, Each(p, e)
      PROVE  TypeOK'
  <2>1. Cons(e, each[p]) \in Seq(EachEvent)
    BY <1>1, ConsList DEF TypeOK
  <2>2. QED  BY <1>1, <1>4, <2>1 DEF TypeOK, Each
<1>5. CASE Stop
  BY <1>1, <1>5 DEF TypeOK, Stop
<1>6. CASE ResetTime
  <2>1. \A q \in Phase, j \in Position : Moved(q)[j] \in Seq(Event)
    <3>1. TAKE q \in Phase, j \in Position
    <3>2. Moved(q)[j] = <<>> \/ \E i \in Position : Moved(q)[j] = cal[q][i]
      BY MovedList
    <3>3. \A i \in Position : cal[q][i] \in Seq(Event)
      BY <1>1 DEF TypeOK
    <3>4. <<>> \in Seq(Event)
      OBVIOUS
    <3>5. QED  BY <3>2, <3>3, <3>4
  <2>2. \A q \in Phase : Moved(q) = [j \in Position |-> Moved(q)[j]]
    BY DEF Moved
  <2>3. cal' \in [Phase -> [Position -> Seq(Event)]]
    <3>1. cal' = [q \in Phase |-> Moved(q)]
      BY <1>6 DEF ResetTime
    <3>2. \A q \in Phase : Moved(q) \in [Position -> Seq(Event)]
      BY <2>1, <2>2
    <3>3. QED  BY <3>1, <3>2
  <2>4. ASSUME NEW e \in Event
        PROVE  time'[e] \in 0 .. Word - 1 \cup {None}
    <3>1. CASE \E p \in Phase : InCalendar(e, p)
      <4>1. PICK p \in Phase, i \in Position : e \in ToSet(cal[p][i])
        BY <3>1 DEF InCalendar
      <4>2. time[e] # None
        BY <4>1 DEF IInv, CalendarInv, Placed
      <4>3. time[e] - SimTime \in Int
        BY <1>1, <4>2, WordAssumption DEF TypeOK
      <4>4. (time[e] - SimTime) % Word \in 0 .. Word - 1
        BY <4>3, WordAssumption
      <4>5. QED  BY <1>6, <3>1, <4>4 DEF ResetTime
    <3>2. CASE ~ \E p \in Phase : InCalendar(e, p)
      BY <1>1, <1>6, <3>2 DEF ResetTime, TypeOK
    <3>3. QED  BY <3>1, <3>2
  <2>5. time' = [e \in Event |-> time'[e]]
    BY <1>6 DEF ResetTime
  <2>6. SimTime' \in 0 .. Word - 1
    BY <1>6, WordAssumption DEF ResetTime
  <2>7. time' \in [Event -> 0 .. Word - 1 \cup {None}]
    BY <2>4, <2>5
  <2>8. QED  BY <1>1, <1>6, <2>3, <2>6, <2>7 DEF TypeOK, ResetTime
<1>7. CASE Flush
  BY <1>1, <1>7 DEF TypeOK, Flush
<1>8. ASSUME NEW s \in Slots, NEW d \in Int, Run(s, d)
      PROVE  TypeOK'
  <2>1. s \in Nat /\ SimTime \in Nat
    BY <1>1, RunAssumption, WordAssumption DEF TypeOK
  <2>2. s - d \in Int /\ SimTime + s \in Nat
    BY <1>8, <2>1
  <2>3. SimStopCommand' \in BOOLEAN
    BY <1>8 DEF Run
  <2>4. nDots' \in Int /\ nSlots' \in Nat /\ nextDot' \in Int /\ target' \in Nat
        /\ dotsPerLine' \in 0 .. LineLen - 1
    BY <1>8, <2>1, <2>2, LineAssumption DEF Run
  <2>5. QED
    BY <1>1, <1>8, <2>3, <2>4 DEF TypeOK, Run, SlotPC
<1>9. \A s \in Slots : \A d \in Dots : d \in Int
  BY RunAssumption
<1>10. \A s \in Slots : s - 1 \in Int
  BY RunAssumption
<1>11. QED
  BY <1>2, <1>3, <1>4, <1>5, <1>6, <1>7, <1>8, <1>9, <1>10 DEF Call, RunDefault

LEMMA RunStepType ==
  ASSUME IInv, RunStep
  PROVE  TypeOK'
<1> USE DEF registry, calendar, clock, run
<1>1. TypeOK
  BY DEF IInv
<1>2. /\ SimTime \in Nat /\ EARLY \in Phase /\ LATE \in Phase
  BY <1>1, WordAssumption DEF TypeOK, Phase
<1>3. CASE Segment
  <2>1. Hash(SimTime) \in Position /\ nSlots \in Nat
    BY <1>1, <1>2, HashType DEF TypeOK
  <2>2. pos' \in Nat /\ endMark' \in Nat /\ nSlots' \in Nat
    BY <1>3, <2>1, TimeLenAssumption DEF Segment, Position
  <2>3. QED  BY <1>1, <1>3, <2>2 DEF TypeOK, Segment, SlotPC
<1>4. ASSUME NEW p \in Phase, pos \in Position, Detach(p)
      PROVE  /\ cal' \in [Phase -> [Position -> Seq(Event)]]
             /\ now' \in [Phase -> Seq(Event)]
  BY <1>1, <1>4 DEF TypeOK, Detach
<1>5. CASE BeginSlot
  <2>1. pos \in Position
    BY <1>1, <1>5, TimeLenAssumption DEF IInv, InStep, TypeOK, BeginSlot, Position
  <2>2. /\ cal' \in [Phase -> [Position -> Seq(Event)]]
        /\ now' \in [Phase -> Seq(Event)]
    BY <1>2, <1>4, <1>5, <2>1 DEF BeginSlot
  <2>3. QED  BY <1>1, <1>2, <1>5, <2>2 DEF TypeOK, BeginSlot, SlotPC
<1>6. CASE EnterLate
  <2>1. pos \in Position
    BY <1>1, <1>6, TimeLenAssumption
    DEF IInv, InStep, TypeOK, EnterLate, Position, SlotPC
  <2>2. /\ cal' \in [Phase -> [Position -> Seq(Event)]]
        /\ now' \in [Phase -> Seq(Event)]
    BY <1>2, <1>4, <1>6, <2>1 DEF EnterLate
  <2>3. QED  BY <1>1, <1>2, <1>6, <2>2 DEF TypeOK, EnterLate, SlotPC
<1>7. CASE Pop
  <2>1. /\ TimeType \in Phase /\ pos \in Position
        /\ now[TimeType] \in Seq(Event) /\ now[TimeType] # <<>>
    BY <1>1, <1>7, TimeLenAssumption
    DEF IInv, InStep, TypeOK, Pop, Position, SlotPC
  <2>2. /\ Head(now[TimeType]) \in Event
        /\ Tail(now[TimeType]) \in Seq(Event)
    BY <2>1, TailList
  <2>3. Cons(Head(now[TimeType]), cal[TimeType][pos]) \in Seq(Event)
    <3>1. cal[TimeType][pos] \in Seq(Event)
      BY <1>1, <2>1 DEF TypeOK
    <3>2. QED  BY <3>1, <2>2, ConsList
  <2>4. now' \in [Phase -> Seq(Event)]
    BY <1>1, <1>7, <2>2 DEF TypeOK, Pop
  <2>5. active' \in Event \cup EachEvent \cup {None}
    BY <1>1, <1>7, <2>2 DEF TypeOK, Pop
  <2>6. cal' \in [Phase -> [Position -> Seq(Event)]]
    <3>1. \/ cal' = cal
          \/ cal' = [cal EXCEPT ![TimeType][pos] = Cons(Head(now[TimeType]), @)]
      BY <1>7 DEF Pop
    <3>2. cal \in [Phase -> [Position -> Seq(Event)]]
      BY <1>1 DEF TypeOK
    <3>3. ASSUME NEW L \in Seq(Event)
          PROVE  [cal EXCEPT ![TimeType][pos] = L] \in [Phase -> [Position -> Seq(Event)]]
      BY <2>1, <3>2
    <3>4. QED  BY <2>3, <3>1, <3>2, <3>3
  <2>7. QED  BY <1>1, <1>7, <2>4, <2>5, <2>6 DEF TypeOK, Pop
<1>8. CASE Return
  BY <1>1, <1>8 DEF TypeOK, Return
<1>9. CASE EnterEach
  <2>1. TimeType \in Phase /\ each[TimeType] \in Seq(EachEvent)
    BY <1>1, <1>9 DEF TypeOK, EnterEach, SlotPC
  <2>2. each[TimeType] # <<>> =>
          /\ Head(each[TimeType]) \in EachEvent
          /\ ToSet(Tail(each[TimeType])) \subseteq EachEvent
    BY <2>1, TailList, ListElements
  <2>3. QED  BY <1>1, <1>9, <2>1, <2>2 DEF TypeOK, EnterEach, SlotPC
<1>10. CASE EachNext
  <2> DEFINE list == each[TimeType]
             k == CHOOSE i \in DOMAIN list : list[i] = active
  <2>1. TimeType \in Phase /\ list \in Seq(EachEvent)
    BY <1>1, <1>10 DEF TypeOK, EachNext, SlotPC
  <2>2. k \in DOMAIN list
    BY <1>10 DEF IInv, EachServedOnce, EachNext
  <2> HIDE DEF k
  <2>3. k # Len(list) => list[k + 1] \in EachEvent
    BY <2>1, <2>2
  <2>4. active' \in Event \cup EachEvent \cup {None} /\ owed' \subseteq EachEvent
    BY <1>1, <1>10, <2>3 DEF TypeOK, EachNext, k
  <2>5. pc' \in {"each", "phaseEnd"}
    BY <1>10 DEF EachNext
  <2>6. QED  BY <1>1, <1>10, <2>1, <2>4, <2>5 DEF TypeOK, EachNext, SlotPC
<1>11. CASE NextSlot
  <2>1. SimTime' \in 0 .. Word - 1
    BY <1>2, <1>11, WordAssumption DEF NextSlot
  <2>2. CASE LeaveRun
    BY <1>1, <1>11, <2>1, <2>2, LeaveRunType DEF NextSlot, TypeOK
  <2>3. CASE pc' = "slot" /\ pos' = pos + 1
             /\ UNCHANGED <<endMark, nSlots, nDots, nextDot, dotsPerLine,
                            active, target, owed>>
    BY <1>1, <1>11, <2>1, <2>3 DEF TypeOK, NextSlot, SlotPC
  <2>4. QED  BY <1>11, <2>2, <2>3 DEF NextSlot
<1>12. CASE EndSegment
  BY <1>1, <1>12 DEF TypeOK, EndSegment, SlotPC
<1>13. CASE Dot
  <2>1. nextDot' \in Int /\ dotsPerLine' \in 0 .. LineLen - 1
    BY <1>1, <1>13, LineAssumption DEF TypeOK, Dot
  <2>2. QED  BY <1>1, <1>13, <2>1 DEF TypeOK, Dot
<1>14. CASE DotsDone
  BY <1>1, <1>14 DEF TypeOK, DotsDone, SlotPC
<1>15. CASE EndRun
  <2>1. SimStopCommand' \in BOOLEAN /\ LeaveRun /\ UNCHANGED <<registry, clock>>
    BY <1>15 DEF EndRun
  <2>2. QED  BY <1>1, <2>1, LeaveRunType DEF TypeOK
<1>16. QED
  BY <1>3, <1>5, <1>6, <1>7, <1>8, <1>9, <1>10, <1>11, <1>12, <1>13, <1>14,
     <1>15 DEF RunStep

-----------------------------------------------------------------------------
(***************************************************************************)
(* The walk of sim::run                                                    *)
(***************************************************************************)

LEMMA WalkCall ==
  ASSUME IInv, Call \/ HandlerFails
  PROVE  InStep' /\ RunLength'
<1> USE DEF registry, calendar, clock, loop, run, SlotPC
<1>1. CASE RaiseError
  BY <1>1, TimeLenAssumption DEF RaiseError, LeaveRun, InStep, RunLength
<1>2. CASE UNCHANGED <<clock, loop>>
  BY <1>2 DEF IInv, InStep, RunLength
<1>3. CASE Stop
  BY <1>3 DEF IInv, Stop, InStep, RunLength
<1>4. CASE ResetTime
  BY <1>4 DEF IInv, ResetTime, InStep, RunLength
<1>5. ASSUME NEW s \in Slots, NEW d, Run(s, d)
      PROVE  InStep' /\ RunLength'
  BY <1>5, RunAssumption, WordAssumption DEF IInv, TypeOK, Run, InStep, RunLength
<1>6. ASSUME NEW p \in Phase, NEW e \in Event, Unalarm(p, e)
      PROVE  InStep' /\ RunLength'
  BY <1>1, <1>2, <1>6 DEF Unalarm
<1>7. CASE \E p \in Phase, e \in Event, d \in Delay : Alarm(p, e, d)
  BY <1>2, <1>7 DEF Alarm
<1>8. CASE \E p \in Phase, e \in EachEvent : Each(p, e)
  BY <1>2, <1>8 DEF Each
<1>9. CASE Flush
  BY <1>2, <1>9 DEF Flush
<1>10. QED
  BY <1>1, <1>3, <1>4, <1>5, <1>6, <1>7, <1>8, <1>9
  DEF Call, RunDefault, HandlerFails

LEMMA WalkRunStep ==
  ASSUME IInv, RunStep
  PROVE  InStep' /\ RunLength'
<1> USE DEF registry, calendar, clock, run, SlotPC
<1>1. /\ TypeOK /\ InStep /\ RunLength /\ Walk
      /\ SimTime \in Nat /\ EARLY # LATE
      /\ Hash(SimTime) \in 0 .. TimeLen - 1 /\ TimeLen \in Nat
      /\ pos \in Nat /\ endMark \in Nat /\ nSlots \in Nat /\ target \in Nat
  <2>1. /\ TypeOK /\ InStep /\ RunLength /\ Walk /\ EARLY # LATE
        /\ SimTime \in Nat
        /\ pos \in Nat /\ endMark \in Nat /\ nSlots \in Nat /\ target \in Nat
    BY WordAssumption DEF IInv, TypeOK, EARLY, LATE
  <2>2. Hash(SimTime) \in 0 .. TimeLen - 1
    BY <2>1, HashType DEF Position
  <2>3. QED  BY <2>1, <2>2, TimeLenAssumption
<1>2. CASE Segment
  BY <1>1, <1>2 DEF Segment, InStep, RunLength
<1>3. CASE BeginSlot
  BY <1>1, <1>3 DEF BeginSlot, InStep, RunLength
<1>4. CASE Pop
  BY <1>1, <1>4 DEF Pop, InStep, RunLength
<1>5. CASE Return
  BY <1>1, <1>5 DEF Return, InStep, RunLength
<1>6. CASE EnterEach
  BY <1>1, <1>6 DEF EnterEach, InStep, RunLength
<1>7. CASE EachNext
  <2>1. /\ pc = "each" /\ pc' \in {"each", "phaseEnd"}
        /\ UNCHANGED <<SimTime, pos, endMark, nSlots, target>>
    BY <1>7 DEF EachNext
  <2>2. QED  BY <1>1, <2>1 DEF InStep, RunLength
<1>8. CASE EnterLate
  BY <1>1, <1>8 DEF EnterLate, InStep, RunLength
<1>9. CASE NextSlot
  <2>1. CASE SimTime' = 0
    BY <1>1, <1>9, <2>1 DEF NextSlot, LeaveRun, InStep, RunLength
  <2>2. CASE SimTime' # 0
    <3>1. SimTime' = SimTime + 1
      <4>1. SimTime \in 0 .. Word - 1 /\ SimTime' = (SimTime + 1) % Word
        BY <1>1, <1>9 DEF NextSlot, TypeOK
      <4>2. CASE SimTime + 1 = Word
        BY <2>2, <4>1, <4>2, WordAssumption
      <4>3. CASE SimTime + 1 \in 0 .. Word - 1
        BY <4>1, <4>3, WordAssumption
      <4>4. QED  BY <4>1, <4>2, <4>3, WordAssumption
    <3>2. /\ pc = "phaseEnd" /\ pc' = "slot" /\ pos' = pos + 1
          /\ UNCHANGED <<endMark, nSlots, target>>
      BY <1>9, <2>2 DEF NextSlot
    <3>3. pos = Hash(SimTime) /\ pos < endMark /\ endMark <= TimeLen
      BY <1>1, <3>2 DEF InStep
    <3>4. pos' < endMark => pos' = Hash(SimTime')
      BY <1>1, <3>1, <3>2, <3>3, HashNext
    <3>5. InStep'
      BY <3>2, <3>3, <3>4 DEF InStep
    <3>6. RunLength'
      BY <1>1, <3>1, <3>2, <3>3 DEF RunLength
    <3>7. QED  BY <3>5, <3>6
  <2>3. QED  BY <2>1, <2>2
<1>10. CASE EndSegment
  BY <1>1, <1>10 DEF EndSegment, InStep, RunLength, Walk
<1>11. CASE Dot
  BY <1>1, <1>11 DEF Dot, InStep, RunLength
<1>12. CASE DotsDone
  BY <1>1, <1>12 DEF DotsDone, InStep, RunLength
<1>13. CASE EndRun
  BY <1>1, <1>13 DEF EndRun, LeaveRun, InStep, RunLength
<1>14. QED
  BY <1>2, <1>3, <1>4, <1>5, <1>6, <1>7, <1>8, <1>9, <1>10, <1>11, <1>12, <1>13
  DEF RunStep

-----------------------------------------------------------------------------
(***************************************************************************)
(* The objects activated in every slot                                     *)
(***************************************************************************)

(* What follows the k-th element of a list.                                *)
Rest(s, k) == {s[i] : i \in k + 1 .. Len(s)}

(* Each(p, e) during the traversal: the index of the present object moves  *)
(* by one, the rest of the list is the same.                               *)
LEMMA ConsRest ==
  ASSUME NEW S, NEW s \in Seq(S), NEW e \in S, NEW k \in 1 .. Len(s)
  PROVE  /\ k + 1 \in 1 .. Len(Cons(e, s)) /\ Cons(e, s)[k + 1] = s[k]
         /\ Rest(Cons(e, s), k + 1) = Rest(s, k)
<1> DEFINE t == Cons(e, s)
<1>1. /\ Len(t) = Len(s) + 1
      /\ \A i \in 1 .. Len(s) : t[i + 1] = s[i]
  BY DEF Cons
<1> HIDE DEF t
<1>2. ASSUME NEW i \in (k + 1) + 1 .. Len(t)
      PROVE  t[i] \in {s[j] : j \in k + 1 .. Len(s)}
  <2>1. i - 1 \in k + 1 .. Len(s) /\ i - 1 \in 1 .. Len(s) /\ (i - 1) + 1 = i
    BY <1>1
  <2>2. t[i] = s[i - 1]
    BY <1>1, <2>1
  <2>3. QED  BY <2>1, <2>2
<1>3. ASSUME NEW j \in k + 1 .. Len(s)
      PROVE  s[j] \in {t[i] : i \in (k + 1) + 1 .. Len(t)}
  <2>1. j + 1 \in (k + 1) + 1 .. Len(t) /\ t[j + 1] = s[j]
    BY <1>1
  <2>2. QED  BY <2>1
<1>4. k + 1 \in 1 .. Len(t) /\ t[k + 1] = s[k]
  BY <1>1
<1>5. QED  BY <1>2, <1>3, <1>4 DEF t, Rest

(* The first object of the list and the rest of it.                        *)
LEMMA TailRest ==
  ASSUME NEW S, NEW s \in Seq(S), s # <<>>
  PROVE  /\ 1 \in DOMAIN s /\ s[1] = Head(s)
         /\ ToSet(Tail(s)) = {s[i] : i \in 1 + 1 .. Len(s)}
<1> DEFINE t == Tail(s)
<1>1. /\ 1 \in DOMAIN s /\ s[1] = Head(s)
      /\ t \in Seq(S) /\ Len(t) = Len(s) - 1
      /\ \A i \in 1 .. Len(s) - 1 : t[i] = s[i + 1]
  OBVIOUS
<1> HIDE DEF t
<1>2. ASSUME NEW x \in ToSet(t)
      PROVE  x \in {s[i] : i \in 1 + 1 .. Len(s)}
  <2>1. PICK j \in 1 .. Len(s) - 1 : x = t[j]
    BY <1>1 DEF ToSet
  <2>2. j + 1 \in 1 + 1 .. Len(s) /\ x = s[j + 1]
    BY <1>1, <2>1
  <2>3. QED  BY <2>2
<1>3. ASSUME NEW i \in 1 + 1 .. Len(s)
      PROVE  s[i] \in ToSet(t)
  <2>1. i - 1 \in 1 .. Len(s) - 1 /\ (i - 1) + 1 = i
    OBVIOUS
  <2>2. i - 1 \in DOMAIN t /\ t[i - 1] = s[i]
    BY <1>1, <2>1
  <2>3. QED  BY <2>2 DEF ToSet
<1>4. QED  BY <1>1, <1>2, <1>3 DEF t

LEMMA EachStep ==
  ASSUME IInv, [Next]_vars
  PROVE  EachServedOnce' /\ Walk'
<1> USE DEF registry, calendar, clock, loop, run, SlotPC
<1>1. /\ TypeOK /\ InStep /\ EachServedOnce /\ Walk
      /\ \A p \in Phase : each[p] \in Seq(EachEvent)
      /\ \A p \in Phase : IsInjective(each[p])
      /\ pc \in SlotPC => TimeType \in Phase
      /\ pos \in Nat /\ endMark \in Nat
  BY DEF IInv, TypeOK, Walk
<1>2. CASE RaiseError
  BY <1>2, <1>1 DEF RaiseError, LeaveRun, EachServedOnce, Walk
<1>3. CASE UNCHANGED <<each, TimeType, loop>>
  BY <1>3, <1>1 DEF EachServedOnce, Walk
<1>4. ASSUME NEW p \in Phase, NEW e \in EachEvent, Each(p, e)
      PROVE  EachServedOnce' /\ Walk'
  <2>1. /\ e \notin ToSet(each[p]) /\ each' = [each EXCEPT ![p] = Cons(e, @)]
        /\ UNCHANGED <<TimeType, pc, active, owed, pos, endMark>>
    BY <1>4 DEF Each
  <2>2. /\ each'[p] = Cons(e, each[p])
        /\ \A q \in Phase : q # p => each'[q] = each[q]
    BY <1>1, <2>1 DEF TypeOK
  <2>3. IsInjective(each'[p])
    BY <1>1, <2>1, <2>2, ConsList
  <2>4. Walk'
    BY <1>1, <2>1, <2>2, <2>3 DEF Walk
  <2>5. CASE pc = "each" /\ TimeType = p
    <3>1. PICK k \in DOMAIN each[p] :
            /\ each[p][k] = active
            /\ owed = {each[p][i] : i \in k + 1 .. Len(each[p])}
      BY <1>1, <2>5 DEF EachServedOnce
    <3> DEFINE s == each[p]
    <3>2. s \in Seq(EachEvent) /\ k \in 1 .. Len(s)
      BY <1>1, <3>1
    <3> HIDE DEF s
    <3>3. /\ k + 1 \in 1 .. Len(Cons(e, s)) /\ Cons(e, s)[k + 1] = s[k]
          /\ Rest(Cons(e, s), k + 1) = Rest(s, k)
      BY <3>2, ConsRest
    <3>4. Cons(e, s) \in Seq(EachEvent)
      BY <3>2, ConsList
    <3>5. /\ k + 1 \in DOMAIN each'[p] /\ each'[p][k + 1] = active
          /\ owed = {each'[p][i] : i \in (k + 1) + 1 .. Len(each'[p])}
      <4>1. owed = Rest(s, k)
        BY <3>1 DEF s, Rest
      <4>2. owed = Rest(each'[p], k + 1)
        BY <2>2, <3>3, <4>1 DEF s
      <4>3. k + 1 \in DOMAIN each'[p] /\ each'[p][k + 1] = active
        BY <2>2, <3>1, <3>3, <3>4 DEF s
      <4>4. QED  BY <4>2, <4>3 DEF Rest
    <3>6. QED  BY <2>1, <2>4, <2>5, <3>5 DEF EachServedOnce
  <2>6. CASE ~ (pc = "each" /\ TimeType = p)
    BY <1>1, <2>1, <2>2, <2>4, <2>6 DEF EachServedOnce
  <2>7. QED  BY <2>5, <2>6
<1>5. CASE Flush
  BY <1>1, <1>5, EmptyList DEF Flush, EachServedOnce, Walk
<1>6. CASE EnterEach
  <2>1. CASE each[TimeType] = <<>>
    BY <1>1, <1>6, <2>1 DEF EnterEach, EachServedOnce, Walk
  <2>2. CASE each[TimeType] # <<>>
    <3> DEFINE s == each[TimeType]
    <3>1. /\ pc' = "each" /\ active' = Head(s) /\ owed' = ToSet(Tail(s))
          /\ UNCHANGED <<each, TimeType, pos, endMark>>
          /\ s \in Seq(EachEvent) /\ pc = "evt"
      BY <1>1, <1>6, <2>2 DEF EnterEach
    <3>2. 1 \in DOMAIN s /\ s[1] = Head(s)
          /\ ToSet(Tail(s)) = {s[i] : i \in 1 + 1 .. Len(s)}
      BY <2>2, <3>1, TailRest
    <3> HIDE DEF s
    <3>3. \E k \in DOMAIN s : /\ s[k] = active'
                              /\ owed' = {s[i] : i \in k + 1 .. Len(s)}
      BY <3>1, <3>2
    <3>4. EachServedOnce'
      <4>1. each'[TimeType'] = s /\ pc' # "phaseEnd"
        BY <3>1 DEF s
      <4>2. QED  BY <3>3, <4>1 DEF EachServedOnce
    <3>5. Walk'
      BY <1>1, <3>1 DEF Walk
    <3>6. QED  BY <3>4, <3>5
  <2>3. QED  BY <2>1, <2>2
<1>7. CASE EachNext
  <2> DEFINE s == each[TimeType]
             c == CHOOSE i \in DOMAIN s : s[i] = active
  <2>1. /\ pc = "each" /\ s \in Seq(EachEvent) /\ IsInjective(s)
        /\ UNCHANGED <<each, TimeType, pos, endMark>>
    BY <1>1, <1>7 DEF EachNext
  <2>2. PICK k \in DOMAIN s : /\ s[k] = active
                              /\ owed = {s[i] : i \in k + 1 .. Len(s)}
    BY <1>1, <2>1 DEF EachServedOnce
  <2>3. c \in DOMAIN s /\ s[c] = active
    BY <2>2
  <2> HIDE DEF s, c
  <2>4. c = k /\ k \in 1 .. Len(s) /\ Len(s) \in Nat
    BY <2>1, <2>2, <2>3 DEF IsInjective
  <2>5. CASE k = Len(s)
    <3>1. pc' = "phaseEnd" /\ active' = None /\ owed' = owed
      BY <1>7, <2>4, <2>5 DEF EachNext, s, c
    <3>2. owed = {}
      BY <2>2, <2>4, <2>5
    <3>3. QED  BY <1>1, <2>1, <3>1, <3>2 DEF EachServedOnce, Walk
  <2>6. CASE k # Len(s)
    <3>1. pc' = "each" /\ active' = s[k + 1] /\ owed' = owed \ {s[k + 1]}
      BY <1>7, <2>1, <2>4, <2>6 DEF EachNext, s, c
    <3>2. /\ k + 1 \in DOMAIN s
          /\ owed' = {s[i] : i \in (k + 1) + 1 .. Len(s)}
      <4>1. k + 1 \in DOMAIN s
        BY <2>1, <2>4, <2>6
      <4>2. \A i \in k + 1 .. Len(s) : i \in DOMAIN s
        BY <2>1, <2>4
      <4>3. \A i \in k + 1 .. Len(s) : s[i] = s[k + 1] <=> i = k + 1
        BY <4>1, <4>2, <2>1 DEF IsInjective
      <4>4. \A i : i \in (k + 1) + 1 .. Len(s) <=>
                   i \in k + 1 .. Len(s) /\ i # k + 1
        BY <2>4
      <4>5. QED  BY <2>2, <3>1, <4>1, <4>3, <4>4
    <3>3. EachServedOnce'
      BY <2>1, <3>1, <3>2 DEF EachServedOnce, s
    <3>4. Walk'
      BY <1>1, <2>1, <3>1 DEF Walk, s
    <3>5. QED  BY <3>3, <3>4
  <2>7. QED  BY <2>5, <2>6
<1>8. CASE NextSlot
  BY <1>1, <1>8 DEF NextSlot, LeaveRun, EachServedOnce, Walk, InStep
<1>9. CASE Stop \/ ResetTime
  BY <1>1, <1>9 DEF Stop, ResetTime, EachServedOnce, Walk
<1>10. ASSUME NEW s \in Slots, NEW d, Run(s, d)
       PROVE  EachServedOnce' /\ Walk'
  BY <1>1, <1>10 DEF Run, EachServedOnce, Walk
<1>11. CASE Segment
  <2>1. Hash(SimTime) \in 0 .. TimeLen - 1
    <3>1. SimTime \in Nat
      BY <1>1, WordAssumption DEF TypeOK
    <3>2. QED  BY <3>1, HashType DEF Position
  <2>2. pos' <= endMark'
    BY <1>1, <1>11, <2>1, TimeLenAssumption DEF Segment, TypeOK
  <2>3. QED  BY <1>1, <1>11, <2>2 DEF Segment, EachServedOnce, Walk
<1>12. CASE BeginSlot \/ EnterLate
  BY <1>1, <1>12 DEF BeginSlot, EnterLate, EachServedOnce, Walk
<1>13. CASE Pop
  <2>1. Head(now[TimeType]) \in Event
    BY <1>1, <1>13, TailList DEF Pop, TypeOK
  <2>2. QED  BY <1>1, <1>13, <2>1 DEF Pop, EachServedOnce, Walk
<1>14. CASE Return \/ EndSegment \/ Dot \/ DotsDone \/ EndRun
  BY <1>1, <1>14
  DEF Return, EndSegment, Dot, DotsDone, EndRun, LeaveRun, EachServedOnce, Walk
<1>15. CASE UNCHANGED vars
  BY <1>3, <1>15 DEF vars
<1>16. ASSUME NEW p \in Phase, NEW e \in Event, Unalarm(p, e)
       PROVE  EachServedOnce' /\ Walk'
  BY <1>2, <1>3, <1>16 DEF Unalarm
<1>17. ASSUME NEW p \in Phase, NEW e \in Event, NEW d \in Delay, Alarm(p, e, d)
       PROVE  EachServedOnce' /\ Walk'
  BY <1>3, <1>17 DEF Alarm
<1>18. QED
  BY <1>2, <1>4, <1>5, <1>6, <1>7, <1>8, <1>9, <1>10, <1>11, <1>12, <1>13,
     <1>14, <1>15, <1>16, <1>17
  DEF Next, Call, RunDefault, HandlerFails, RunStep

-----------------------------------------------------------------------------
(***************************************************************************)
(* Standing requests                                                       *)
(***************************************************************************)

(* Steps that leave the lists alone and do not leave or enter the          *)
(* processing of a list that is not used up.                               *)
LEMMA QuietRequests ==
  ASSUME IInv, UNCHANGED <<cal, now, wanted>>,
         \/ UNCHANGED <<pc, TimeType>>
         \/ pc # "evt" /\ pc' # "evt"
         \/ pc = "evt" /\ now[TimeType] = <<>> /\ pc' # "evt"
  PROVE  NoneForgotten'
<1>1. \A e, p : InCalendar(e, p)' <=> InCalendar(e, p)
  BY DEF InCalendar
<1>2. \A e, p : InNow(e, p)' <=> InNow(e, p)
  BY DEF InNow
<1>3. \A e \in Event, p \in Phase : Waiting(e, p)' <=> Waiting(e, p)
  <2>1. CASE UNCHANGED <<pc, TimeType>>
    BY <1>1, <1>2, <2>1 DEF Waiting
  <2>2. CASE pc # "evt" /\ pc' # "evt"
    BY <1>1, <2>2 DEF Waiting
  <2>3. CASE pc = "evt" /\ now[TimeType] = <<>> /\ pc' # "evt"
    <3>1. \A e : ~ InNow(e, TimeType)
      BY <2>3, EmptyList DEF InNow
    <3>2. QED  BY <1>1, <2>3, <3>1 DEF Waiting
  <2>4. QED  BY <2>1, <2>2, <2>3
<1>4. QED  BY <1>3 DEF IInv, NoneForgotten

(* An event in the calendar is in no detached list, and at one place only. *)
LEMMA OnePlace ==
  ASSUME IInv
  PROVE  /\ \A e, p, q : p \in Phase /\ q \in Phase /\ InCalendar(e, p) =>
                           /\ ~ InNow(e, q)
                           /\ InCalendar(e, q) => q = p
         /\ \A e, p, q : p \in Phase /\ q \in Phase /\ InNow(e, p) /\ InNow(e, q)
                           => p = q
         /\ \A p, q \in Phase, i, j \in Position : \A e :
              e \in ToSet(cal[p][i]) /\ e \in ToSet(cal[q][j]) => p = q /\ i = j
<1>1. /\ \A p, q \in Phase, i, j \in Position :
           <<p, i>> # <<q, j>> => ToSet(cal[p][i]) \cap ToSet(cal[q][j]) = {}
      /\ \A p, q \in Phase, i \in Position :
           ToSet(cal[p][i]) \cap ToSet(now[q]) = {}
      /\ ToSet(now[EARLY]) \cap ToSet(now[LATE]) = {}
  BY DEF IInv, CalendarInv, NoDuplicate
<1>2. ASSUME NEW p \in Phase, NEW q \in Phase, NEW e, InCalendar(e, p)
      PROVE  ~ InNow(e, q) /\ (InCalendar(e, q) => q = p)
  <2>1. PICK i \in Position : e \in ToSet(cal[p][i])
    BY <1>2 DEF InCalendar
  <2>2. ~ InNow(e, q)
    BY <1>1, <2>1 DEF InNow
  <2>3. ASSUME InCalendar(e, q), q # p
        PROVE  FALSE
    <3>1. PICK j \in Position : e \in ToSet(cal[q][j])
      BY <2>3 DEF InCalendar
    <3>2. <<p, i>> # <<q, j>>
      BY <2>3
    <3>3. QED  BY <1>1, <2>1, <3>1, <3>2
  <2>4. QED  BY <2>2, <2>3
<1>3. ASSUME NEW p \in Phase, NEW q \in Phase, NEW e, InNow(e, p), InNow(e, q)
      PROVE  p = q
  BY <1>1, <1>3 DEF InNow, Phase
<1>4. ASSUME NEW p \in Phase, NEW q \in Phase, NEW i \in Position, NEW j \in Position, NEW e,
             e \in ToSet(cal[p][i]), e \in ToSet(cal[q][j])
      PROVE  p = q /\ i = j
  <2>1. <<p, i>> = <<q, j>>
    BY <1>1, <1>4
  <2>2. QED  BY <2>1
<1>5. QED  BY <1>2, <1>3, <1>4

LEMMA RaiseErrorRequests ==
  ASSUME IInv, RaiseError
  PROVE  NoneForgotten'
<1>1. /\ cal' = cal /\ pc' = "idle"
      /\ wanted' = [e \in Event |-> IF \E p \in Phase : InNow(e, p) THEN None
                                                              ELSE wanted[e]]
  BY DEF RaiseError, LeaveRun
<1>2. \A e, p : Waiting(e, p)' <=> InCalendar(e, p)
  BY <1>1 DEF Waiting, InCalendar
<1>3. \A e \in Event, p \in Phase : wanted[e] = p <=> Waiting(e, p)
  BY DEF IInv, NoneForgotten
<1>4. ASSUME NEW e \in Event, NEW p \in Phase
      PROVE  wanted'[e] = p <=> InCalendar(e, p)
  <2>1. CASE \E q \in Phase : InNow(e, q)
    BY <1>1, <2>1, OnePlace, EventAssumption
  <2>2. CASE ~ \E q \in Phase : InNow(e, q)
    BY <1>1, <1>3, <2>2 DEF Waiting
  <2>3. QED  BY <2>1, <2>2
<1>5. QED  BY <1>2, <1>4 DEF NoneForgotten

LEMMA AlarmRequests ==
  ASSUME IInv, NEW p \in Phase, NEW e \in Event, NEW d \in Delay,
         Alarm(p, e, d)
  PROVE  NoneForgotten'
<1> DEFINE h == Hash(SimTime + d)
<1>1. h \in Position
  <2>1. SimTime + d \in Nat
    BY DelayAssumption, WordAssumption DEF IInv, TypeOK
  <2>2. QED  BY <2>1, HashType
<1>2. /\ cal \in [Phase -> [Position -> Seq(Event)]]
      /\ wanted \in [Event -> Phase \cup {None}]
      /\ now' = now /\ TimeType' = TimeType /\ pc' = pc
      /\ wanted' = [wanted EXCEPT ![e] = p]
      /\ cal' = [cal EXCEPT ![p][h] = Cons(e, @)]
      /\ ~ Registered(e)
  BY DEF IInv, TypeOK, Alarm, MayRegister, clock, loop
<1> HIDE DEF h
<1>3. /\ ToSet(cal'[p][h]) = ToSet(cal[p][h]) \cup {e}
      /\ \A q \in Phase, i \in Position :
           <<q, i>> # <<p, h>> => cal'[q][i] = cal[q][i]
  <2>1. /\ cal[p][h] \in Seq(Event) /\ cal'[p][h] = Cons(e, cal[p][h])
        /\ \A q \in Phase, i \in Position :
             <<q, i>> # <<p, h>> => cal'[q][i] = cal[q][i]
    BY <1>1, <1>2
  <2>2. QED  BY <2>1, ConsList
<1>4. \A x, q : q \in Phase =>
        (InCalendar(x, q)' <=> InCalendar(x, q) \/ (x = e /\ q = p))
  BY <1>1, <1>3 DEF InCalendar
<1>5. \A x, q : InNow(x, q)' <=> InNow(x, q)
  BY <1>2 DEF InNow
<1>6. \A q \in Phase : ~ InCalendar(e, q) /\ ~ InNow(e, q)
  BY <1>2 DEF Registered
<1>7. \A x \in Event, q \in Phase :
        Waiting(x, q)' <=> Waiting(x, q) \/ (x = e /\ q = p)
  BY <1>2, <1>4, <1>5 DEF Waiting
<1>8. \A q \in Phase : ~ Waiting(e, q)
  BY <1>6 DEF Waiting
<1>9. wanted'[e] = p /\ \A x \in Event : x # e => wanted'[x] = wanted[x]
  BY <1>2
<1>10. QED  BY <1>7, <1>8, <1>9 DEF IInv, NoneForgotten

(* Taking an event out of the list it is in.                               *)
LEMMA RemovedRequest ==
  ASSUME IInv, NEW e \in Event, UNCHANGED <<pc, TimeType>>,
         wanted' = [wanted EXCEPT ![e] = None],
         \A q \in Phase : ~ InCalendar(e, q)' /\ ~ InNow(e, q)',
         \A x \in Event, q \in Phase : x # e =>
           /\ InCalendar(x, q)' <=> InCalendar(x, q)
           /\ InNow(x, q)' <=> InNow(x, q)
  PROVE  NoneForgotten'
<1>1. \A q \in Phase : ~ Waiting(e, q)'
  BY DEF Waiting
<1>2. \A x \in Event, q \in Phase : x # e => (Waiting(x, q)' <=> Waiting(x, q))
  BY DEF Waiting
<1>3. wanted \in [Event -> Phase \cup {None}]
  BY DEF IInv, TypeOK
<1>4. wanted'[e] = None /\ \A x \in Event : x # e => wanted'[x] = wanted[x]
  BY <1>3
<1>5. QED  BY <1>1, <1>2, <1>4, EventAssumption DEF IInv, NoneForgotten

LEMMA UnalarmRequests ==
  ASSUME IInv, NEW p \in Phase, NEW e \in Event, Unalarm(p, e)
  PROVE  NoneForgotten'
<1> DEFINE h == Hash(time[e])
<1>1. /\ cal \in [Phase -> [Position -> Seq(Event)]]
      /\ now \in [Phase -> Seq(Event)]
      /\ \A q \in Phase : /\ IsInjective(now[q])
                          /\ \A i \in Position : IsInjective(cal[q][i])
  BY DEF IInv, TypeOK, CalendarInv, NoDuplicate
<1>2. h \in Position
  BY HashType, WordAssumption DEF IInv, TypeOK, Unalarm
<1> HIDE DEF h
<1>3. CASE /\ e \in ToSet(cal[p][h])
           /\ cal' = [cal EXCEPT ![p][h] = Del(@, e)]
           /\ wanted' = [wanted EXCEPT ![e] = None]
           /\ UNCHANGED <<now, clock, loop>>
  <2>1. /\ cal[p][h] \in Seq(Event) /\ IsInjective(cal[p][h])
        /\ cal'[p][h] = Del(cal[p][h], e)
        /\ \A q \in Phase, i \in Position :
             <<q, i>> # <<p, h>> => cal'[q][i] = cal[q][i]
    BY <1>1, <1>2, <1>3
  <2>2. ToSet(cal'[p][h]) = ToSet(cal[p][h]) \ {e}
    BY <2>1, <1>3, DelList
  <2>3. InCalendar(e, p)
    BY <1>2, <1>3 DEF InCalendar
  <2>4. \A q \in Phase : ~ InNow(e, q)'
    BY <1>3, <2>3, OnePlace DEF InNow
  <2>5. \A q \in Phase, i \in Position : e \notin ToSet(cal'[q][i])
    BY <1>2, <1>3, <2>1, <2>2, OnePlace
  <2>6. \A x, q : q \in Phase /\ x # e =>
          /\ InCalendar(x, q)' <=> InCalendar(x, q)
          /\ InNow(x, q)' <=> InNow(x, q)
    BY <1>2, <1>3, <2>1, <2>2 DEF InCalendar, InNow
  <2>7. QED
    BY <1>3, <2>4, <2>5, <2>6, RemovedRequest DEF InCalendar, clock, loop
<1>4. CASE /\ e \in ToSet(now[p])
           /\ now' = [now EXCEPT ![p] = Del(@, e)]
           /\ wanted' = [wanted EXCEPT ![e] = None]
           /\ UNCHANGED <<cal, clock, loop>>
  <2>1. /\ now[p] \in Seq(Event) /\ IsInjective(now[p])
        /\ now'[p] = Del(now[p], e)
        /\ \A q \in Phase : q # p => now'[q] = now[q]
    BY <1>1, <1>4
  <2>2. ToSet(now'[p]) = ToSet(now[p]) \ {e}
    BY <2>1, <1>4, DelList
  <2>3. InNow(e, p)
    BY <1>4 DEF InNow
  <2>4. \A q \in Phase : ~ InCalendar(e, q) /\ (q # p => ~ InNow(e, q))
    BY <2>3, OnePlace
  <2>5. \A q \in Phase : ~ InNow(e, q)'
    BY <2>1, <2>2, <2>4 DEF InNow
  <2>6. \A x, q : q \in Phase /\ x # e => (InNow(x, q)' <=> InNow(x, q))
    BY <2>1, <2>2 DEF InNow
  <2>7. \A x, q : InCalendar(x, q)' <=> InCalendar(x, q)
    BY <1>4 DEF InCalendar
  <2>8. QED
    BY <1>4, <2>4, <2>5, <2>6, <2>7, RemovedRequest DEF clock, loop
<1>5. QED
  BY <1>3, <1>4, RaiseErrorRequests DEF Unalarm, InNow, h

(* Detaching a list: what was in the calendar is in the detached list, and *)
(* that list is gone through now.                                          *)
LEMMA DetachRequests ==
  ASSUME IInv, NEW p \in Phase, pos \in Position, Detach(p),
         pc # "evt", pc' = "evt", TimeType' = p, UNCHANGED wanted
  PROVE  NoneForgotten'
<1>1. /\ cal \in [Phase -> [Position -> Seq(Event)]]
      /\ now \in [Phase -> Seq(Event)]
  BY DEF IInv, TypeOK
<1>2. /\ now'[p] = cal[p][pos] /\ cal'[p][pos] = <<>>
      /\ \A q \in Phase, i \in Position :
           <<q, i>> # <<p, pos>> => cal'[q][i] = cal[q][i]
  BY <1>1 DEF Detach
<1>3. ASSUME NEW e \in Event, NEW q \in Phase
      PROVE  Waiting(e, q)' <=> Waiting(e, q)
  <2>1. Waiting(e, q) <=> \E i \in Position : e \in ToSet(cal[q][i])
    BY DEF Waiting, InCalendar
  <2>2. CASE q = p
    <3>1. InCalendar(e, q)' <=>
            \E i \in Position : i # pos /\ e \in ToSet(cal[q][i])
      BY <1>2, <2>2, EmptyList DEF InCalendar
    <3>2. Waiting(e, q)' <=> InCalendar(e, q)' \/ e \in ToSet(cal[q][pos])
      BY <1>2, <2>2 DEF Waiting, InNow
    <3>3. QED  BY <2>1, <3>1, <3>2
  <2>3. CASE q # p
    <3>1. InCalendar(e, q)' <=> \E i \in Position : e \in ToSet(cal[q][i])
      BY <1>2, <2>3 DEF InCalendar
    <3>2. QED  BY <2>1, <2>3, <3>1 DEF Waiting
  <2>4. QED  BY <2>2, <2>3
<1>4. QED  BY <1>3 DEF IInv, NoneForgotten

(* The next event of the detached list is activated, which fulfils the     *)
(* request, or goes back into the calendar.                                *)
LEMMA PopRequests ==
  ASSUME IInv, Pop
  PROVE  NoneForgotten'
<1> DEFINE T == TimeType
<1>1. /\ pc = "evt" /\ pc' = pc /\ TimeType' = T /\ pos \in Position
      /\ T \in Phase /\ now[T] # <<>> /\ now[T] \in Seq(Event)
      /\ cal \in [Phase -> [Position -> Seq(Event)]]
      /\ now \in [Phase -> Seq(Event)]
      /\ now' = [now EXCEPT ![T] = Tail(@)]
      /\ IsInjective(now[T])
  BY SMTT(40), TimeLenAssumption
  DEF IInv, TypeOK, InStep, CalendarInv, NoDuplicate, SlotPC, Pop, clock, run,
      Position
<1> HIDE DEF T
<1>2. PICK e \in Event :
        /\ e = Head(now[T]) /\ e \notin ToSet(Tail(now[T]))
        /\ ToSet(now[T]) = ToSet(Tail(now[T])) \cup {e}
  BY <1>1, TailList
<1>3. /\ now'[T] = Tail(now[T])
      /\ \A q \in Phase : q # T => now'[q] = now[q]
  BY <1>1
<1>4. InNow(e, T)
  BY <1>2 DEF InNow
<1>5. \A q \in Phase : ~ InCalendar(e, q) /\ (q # T => ~ InNow(e, q))
  BY <1>1, <1>4, OnePlace
<1>6. /\ \A q \in Phase : ~ InNow(e, q)'
      /\ \A x, q : q \in Phase /\ x # e => (InNow(x, q)' <=> InNow(x, q))
  <2>1. ASSUME NEW x, NEW q \in Phase
        PROVE  InNow(x, q)' <=> IF q = T THEN x \in ToSet(Tail(now[T]))
                                         ELSE InNow(x, q)
    BY <1>3, <2>1 DEF InNow
  <2>2. \A x : InNow(x, T) <=> x \in ToSet(Tail(now[T])) \/ x = e
    BY <1>2 DEF InNow
  <2>3. \A q \in Phase : ~ InNow(e, q)'
    BY <1>2, <1>5, <2>1
  <2>4. ASSUME NEW x, NEW q \in Phase, x # e
        PROVE  InNow(x, q)' <=> InNow(x, q)
    BY <2>1, <2>2, <2>4
  <2>5. QED  BY <2>3, <2>4
<1>7. CASE UNCHANGED cal /\ wanted' = [wanted EXCEPT ![e] = None]
  <2>1. \A x, q : InCalendar(x, q)' <=> InCalendar(x, q)
    BY <1>7 DEF InCalendar
  <2>2. \A q \in Phase : ~ InCalendar(e, q)' /\ ~ InNow(e, q)'
    BY <1>5, <1>6, <2>1
  <2>3. \A x \in Event, q \in Phase : x # e =>
          /\ InCalendar(x, q)' <=> InCalendar(x, q)
          /\ InNow(x, q)' <=> InNow(x, q)
    BY <1>6, <2>1
  <2>4. UNCHANGED <<pc, TimeType>>
    BY <1>1 DEF T
  <2>5. QED  BY <1>2, <1>7, <2>2, <2>3, <2>4, RemovedRequest
<1>8. CASE UNCHANGED wanted /\ cal' = [cal EXCEPT ![T][pos] = Cons(e, @)]
  <2>1. /\ cal[T][pos] \in Seq(Event)
        /\ cal'[T][pos] = Cons(e, cal[T][pos])
        /\ \A q \in Phase, i \in Position :
             <<q, i>> # <<T, pos>> => cal'[q][i] = cal[q][i]
    BY <1>1, <1>8
  <2>2. ToSet(cal'[T][pos]) = ToSet(cal[T][pos]) \cup {e}
    BY <2>1, <1>2, ConsList
  <2>3. \A x, q : q \in Phase =>
          (InCalendar(x, q)' <=> InCalendar(x, q) \/ (x = e /\ q = T))
    BY <1>1, <2>1, <2>2 DEF InCalendar
  <2>4. ASSUME NEW x \in Event, NEW q \in Phase
        PROVE  Waiting(x, q)' <=> Waiting(x, q)
    <3>1. CASE x = e
      BY <1>1, <1>4, <1>5, <1>6, <2>3, <3>1 DEF Waiting, T
    <3>2. CASE x # e
      BY <1>1, <1>6, <2>3, <3>2 DEF Waiting, T
    <3>3. QED  BY <3>1, <3>2
  <2>5. QED  BY <1>8, <2>4 DEF IInv, NoneForgotten
<1>9. QED  BY <1>2, <1>7, <1>8 DEF Pop, T

LEMMA FlushRequests ==
  ASSUME Flush
  PROVE  NoneForgotten'
<1>1. \A q \in Phase : /\ now'[q] = <<>>
                       /\ \A i \in Position : cal'[q][i] = <<>>
  BY DEF Flush
<1>2. \A e \in Event, q \in Phase : ~ Waiting(e, q)'
  BY <1>1, EmptyList DEF Waiting, InCalendar, InNow
<1>3. \A e \in Event : wanted'[e] = None
  BY DEF Flush
<1>4. QED  BY <1>2, <1>3, EventAssumption DEF NoneForgotten

(* ResetTime moves whole lists and loses none.                             *)
LEMMA ResetTimeRequests ==
  ASSUME IInv, ResetTime
  PROVE  NoneForgotten'
<1>1. /\ pc = "idle" /\ pc' = "idle" /\ wanted' = wanted
      /\ \A q \in Phase, j \in Position : cal'[q][j] = Moved(q)[j]
      /\ cal \in [Phase -> [Position -> Seq(Event)]]
  BY DEF ResetTime, loop, IInv, TypeOK
<1>2. ASSUME NEW e \in Event, NEW q \in Phase, InCalendar(e, q)'
      PROVE  InCalendar(e, q)
  <2>1. PICK j \in Position : e \in ToSet(cal'[q][j])
    BY <1>2 DEF InCalendar
  <2>2. PICK i \in Position : cal'[q][j] = cal[q][i]
    BY SMTT(40), <1>1, <2>1, MovedList, EmptyList
  <2>3. QED  BY <2>1, <2>2 DEF InCalendar
<1>3. ASSUME NEW e \in Event, NEW q \in Phase, InCalendar(e, q)
      PROVE  InCalendar(e, q)'
  <2>1. PICK i \in Position : e \in ToSet(cal[q][i])
    BY <1>3 DEF InCalendar
  <2>2. cal[q][i] # <<>>
    BY <2>1, EmptyList
  <2>3. PICK j \in Position : cal'[q][j] = cal[q][i]
    BY <1>1, <2>2, NoListLost
  <2>4. QED  BY <2>1, <2>3 DEF InCalendar
<1>4. \A e \in Event, q \in Phase : Waiting(e, q)' <=> Waiting(e, q)
  BY <1>1, <1>2, <1>3 DEF Waiting
<1>5. QED  BY <1>1, <1>4 DEF IInv, NoneForgotten

LEMMA RequestsStep ==
  ASSUME IInv, [Next]_vars
  PROVE  NoneForgotten'
<1> USE DEF registry, calendar, clock, loop, run, SlotPC
<1>1. CASE BeginSlot
  <2>1. pos \in Position /\ EARLY \in Phase
    BY <1>1, TimeLenAssumption
    DEF BeginSlot, IInv, TypeOK, InStep, Position, Phase
  <2>2. QED  BY <1>1, <2>1, DetachRequests DEF BeginSlot
<1>2. CASE EnterLate
  <2>1. pos \in Position /\ LATE \in Phase
    BY <1>2, TimeLenAssumption
    DEF EnterLate, IInv, TypeOK, InStep, Position, Phase
  <2>2. QED  BY <1>2, <2>1, DetachRequests DEF EnterLate
<1>3. ASSUME NEW p \in Phase, NEW e \in EachEvent, Each(p, e)
      PROVE  NoneForgotten'
  BY <1>3, QuietRequests DEF Each
<1>4. ASSUME NEW s \in Slots, NEW d, Run(s, d)
      PROVE  NoneForgotten'
  BY <1>4, QuietRequests DEF Run
<1>5. CASE Stop \/ Return \/ EnterEach \/ EachNext \/ NextSlot
  BY <1>5, QuietRequests
  DEF Stop, Return, EnterEach, EachNext, NextSlot, LeaveRun
<1>6. CASE Segment \/ EndSegment \/ Dot \/ DotsDone \/ EndRun
  BY <1>6, QuietRequests
  DEF Segment, EndSegment, Dot, DotsDone, EndRun, LeaveRun
<1>7. CASE UNCHANGED vars
  BY <1>7, QuietRequests DEF vars
<1>8. QED
  BY <1>1, <1>2, <1>3, <1>4, <1>5, <1>6, <1>7, AlarmRequests, UnalarmRequests,
     FlushRequests, ResetTimeRequests, PopRequests, RaiseErrorRequests
  DEF Next, Call, RunDefault, HandlerFails, RunStep

-----------------------------------------------------------------------------
(***************************************************************************)
(* The calendar queue keeps the promise of module Activation.              *)
(***************************************************************************)

LEMMA DueType ==
  ASSUME IInv, NEW e \in Event
  PROVE  /\ wanted[e] = None <=> Due[e] = None
         /\ wanted[e] # None => /\ Due[e] = [time |-> time[e], phase |-> wanted[e]]
                                /\ wanted[e] \in Phase
                                /\ time[e] \in 0 .. Word - 1
                                /\ time[e] >= SimTime
<1>1. /\ wanted[e] \in Phase \cup {None}
      /\ time[e] \in 0 .. Word - 1 \cup {None}
  BY DEF IInv, TypeOK
<1>2. CASE wanted[e] = None
  BY <1>2 DEF Due
<1>3. CASE wanted[e] # None
  <2>1. Waiting(e, wanted[e]) /\ wanted[e] \in Phase
    BY <1>1, <1>3 DEF IInv, NoneForgotten
  <2>2. time[e] # None /\ time[e] >= SimTime
    BY <2>1
    DEF Waiting, InCalendar, InNow, IInv, CalendarInv, Placed, NoneMissed
  <2>3. time[e] \in 0 .. Word - 1
    BY <1>1, <2>2
  <2>4. time[e] \in Nat
    BY <2>3, WordAssumption
  <2>5. Due[e] = [time |-> time[e], phase |-> wanted[e]]
    BY <1>3 DEF Due
  <2>6. Due[e] \in [time : Nat, phase : Phase]
    BY <2>1, <2>4, <2>5
  <2>7. QED  BY <1>3, <2>1, <2>2, <2>3, <2>5, <2>6, EventAssumption
<1>4. QED  BY <1>2, <1>3

(* No request is left behind for a phase that is over.                     *)
LEMMA PhaseServed ==
  ASSUME IInv, pc = "phaseEnd", NEW e \in Event
  PROVE  Due[e] # [time |-> SimTime, phase |-> TimeType]
<1>1. SUFFICES ASSUME Due[e] = [time |-> SimTime, phase |-> TimeType]
               PROVE  FALSE
  OBVIOUS
<1>2. TimeType \in Phase /\ SimTime \in Nat
  BY WordAssumption DEF IInv, TypeOK, SlotPC
<1>3. wanted[e] # None
  <2>1. Due[e] \in [time : Nat, phase : Phase]
    BY <1>1, <1>2
  <2>2. QED  BY <2>1, DueType, EventAssumption
<1>4. time[e] = SimTime /\ wanted[e] = TimeType
  <2>1. [time |-> time[e], phase |-> wanted[e]]
          = [time |-> SimTime, phase |-> TimeType]
    BY <1>1, <1>3, DueType
  <2>2. QED  BY <2>1
<1>5. InCalendar(e, TimeType)
  BY <1>2, <1>4 DEF IInv, NoneForgotten, Waiting
<1>6. QED
  <2>1. PICK i \in Position : e \in ToSet(cal[TimeType][i])
    BY <1>5 DEF InCalendar
  <2>2. ToCome(TimeType)
    BY <1>2, <1>4, <2>1 DEF IInv, CalendarInv, NoneMissed
  <2>3. TimeType = LATE /\ TimeType = EARLY
    BY <2>2 DEF ToCome, SlotPC
  <2>4. QED  BY <2>3 DEF EARLY, LATE

(* Steps that leave the requests and the phase alone are stuttering steps. *)
LEMMA StutterStep ==
  ASSUME UNCHANGED <<wanted, time, SimTime>>, Half' = Half
  PROVE  UNCHANGED Promise!avars
BY DEF Promise!avars, Due

LEMMA AlarmPromise ==
  ASSUME IInv, NEW p \in Phase, NEW e \in Event, NEW d \in Delay,
         Alarm(p, e, d)
  PROVE  Promise!Request(e)
<1>1. /\ time \in [Event -> 0 .. Word - 1 \cup {None}]
      /\ wanted \in [Event -> Phase \cup {None}]
      /\ SimTime \in Nat /\ d \in Nat /\ Word \in Nat
  BY DelayAssumption, WordAssumption DEF IInv, TypeOK
<1>2. /\ SimTime + d < Word
      /\ time' = [time EXCEPT ![e] = SimTime + d]
      /\ wanted' = [wanted EXCEPT ![e] = p]
      /\ SimTime' = SimTime /\ TimeType' = TimeType /\ pc' = pc
      /\ d = 0 => pc = "idle" \/ TimeType = EARLY
  BY DEF Alarm, MayRegister, clock, loop
<1>3. wanted[e] = None
  <2>1. \A q \in Phase : ~ InCalendar(e, q) /\ ~ InNow(e, q)
    BY DEF Alarm, MayRegister, Registered
  <2>2. \A q \in Phase : wanted[e] # q
    BY <2>1 DEF IInv, NoneForgotten, Waiting
  <2>3. QED  BY <1>1, <2>2
<1> DEFINE t == SimTime + d
<1>4. t \in SimTime .. Word - 1 /\ (t = SimTime => Half = EARLY)
  BY <1>1, <1>2 DEF Half, SlotPC
<1>5. Due' = [Due EXCEPT ![e] = [time |-> t, phase |-> p]]
  <2>1. Due'[e] = [time |-> t, phase |-> p]
    <3>1. wanted'[e] = p /\ time'[e] = t /\ p # None
      BY <1>1, <1>2, EventAssumption
    <3>2. QED  BY <3>1 DEF Due
  <2>2. \A x \in Event : x # e => Due'[x] = Due[x]
    BY <1>1, <1>2 DEF Due
  <2>3. /\ Due = [x \in Event |-> Due[x]]
        /\ Due' = [x \in Event |-> Due'[x]]
    BY DEF Due
  <2>4. QED  BY <2>1, <2>2, <2>3
<1>6. UNCHANGED <<SimTime, Half>>
  BY <1>2 DEF Half
<1>7. Due[e] = None
  BY <1>3, DueType
<1> HIDE DEF t
<1>8. QED  BY <1>4, <1>5, <1>6, <1>7 DEF Promise!Request, Promise!Phase, Promise!EARLY, Promise!LATE, Phase, EARLY, LATE

LEMMA GoneRequest ==
  ASSUME IInv, NEW e \in Event, UNCHANGED <<time, SimTime>>, Half' = Half,
         wanted' = [wanted EXCEPT ![e] = None]
  PROVE  Due' = [Due EXCEPT ![e] = None]
<1>1. wanted \in [Event -> Phase \cup {None}]
  BY DEF IInv, TypeOK
<1>2. /\ Due'[e] = None
      /\ \A x \in Event : x # e => Due'[x] = Due[x]
  BY <1>1 DEF Due
<1>3. /\ Due = [x \in Event |-> Due[x]]
      /\ Due' = [x \in Event |-> Due'[x]]
  BY DEF Due
<1>4. QED  BY <1>2, <1>3

LEMMA RaiseErrorPromise ==
  ASSUME IInv, RaiseError
  PROVE  Promise!Fail
<1>1. /\ pc' = "idle" /\ time' = time /\ SimTime' = SimTime
      /\ wanted' = [e \in Event |-> IF \E p \in Phase : InNow(e, p) THEN None
                                                              ELSE wanted[e]]
  BY DEF RaiseError, LeaveRun, clock
<1> DEFINE lost == {e \in Event : wanted[e] # None
                                  /\ \E p \in Phase : InNow(e, p)}
<1>2. \A e \in lost : Due[e] # None /\ Due[e].phase = Half
  <2>1. TAKE e \in lost
  <2>2. PICK p \in Phase : InNow(e, p)
    OBVIOUS
  <2>3. wanted[e] \in Phase /\ Due[e] # None /\ Due[e].phase = wanted[e]
    <3>1. Due[e] = [time |-> time[e], phase |-> wanted[e]]
          /\ wanted[e] \in Phase /\ Due[e] # None
      BY DueType
    <3>2. QED  BY <3>1
  <2>4. Waiting(e, wanted[e])
    BY <2>3 DEF IInv, NoneForgotten
  <2>5. pc = "evt" /\ TimeType = wanted[e]
    BY <2>2, <2>3, <2>4, OnePlace DEF Waiting
  <2>6. QED  BY <2>3, <2>5 DEF Half, SlotPC
<1>3. Due' = [e \in Event |-> IF e \in lost THEN None ELSE Due[e]]
  <2>1. ASSUME NEW e \in Event
        PROVE  Due'[e] = IF e \in lost THEN None ELSE Due[e]
    <3>1. CASE \E p \in Phase : InNow(e, p)
      BY <1>1, <3>1 DEF Due
    <3>2. CASE ~ \E p \in Phase : InNow(e, p)
      BY <1>1, <3>2 DEF Due
    <3>3. QED  BY <3>1, <3>2
  <2>2. Due' = [e \in Event |-> Due'[e]]
    BY DEF Due
  <2>3. QED  BY <2>1, <2>2
<1>4. lost \in SUBSET {e \in Event : Due[e] # None /\ Due[e].phase = Half}
  BY <1>2
<1>5. Half' = EARLY
  BY <1>1 DEF Half, SlotPC
<1> HIDE DEF lost
<1>6. QED  BY <1>1, <1>3, <1>4, <1>5 DEF Promise!Fail, Promise!EARLY, EARLY

LEMMA UnalarmPromise ==
  ASSUME IInv, NEW p \in Phase, NEW e \in Event, Unalarm(p, e)
  PROVE  Promise!Withdraw(e) \/ Promise!Fail \/ UNCHANGED Promise!avars
<1>1. CASE /\ wanted' = [wanted EXCEPT ![e] = None]
           /\ UNCHANGED <<time, clock, loop>>
  <2>1. UNCHANGED <<time, SimTime, Half>>
    BY <1>1 DEF clock, loop, Half
  <2>2. CASE wanted[e] = None
    <3>1. wanted' = wanted
      BY <1>1, <2>2 DEF IInv, TypeOK
    <3>2. QED  BY <2>1, <3>1, StutterStep
  <2>3. CASE wanted[e] # None
    BY <1>1, <2>1, <2>3, DueType, GoneRequest DEF Promise!Withdraw
  <2>4. QED  BY <2>2, <2>3
<1>2. CASE RaiseError
  BY <1>2, RaiseErrorPromise
<1>3. QED  BY <1>1, <1>2 DEF Unalarm

LEMMA PopPromise ==
  ASSUME IInv, Pop
  PROVE  (\E e \in Event : Promise!Activate(e)) \/ UNCHANGED Promise!avars
<1>1. /\ pc = "evt" /\ pc' = pc /\ UNCHANGED <<time, SimTime, TimeType>>
      /\ TimeType \in Phase /\ now[TimeType] # <<>>
      /\ now[TimeType] \in Seq(Event)
  BY DEF Pop, IInv, TypeOK, SlotPC, clock
<1>2. Half' = Half /\ Half = TimeType
  BY <1>1 DEF Half, SlotPC
<1>3. PICK e \in Event : e = Head(now[TimeType]) /\ InNow(e, TimeType)
  BY <1>1, TailList DEF InNow
<1>4. CASE time[e] = SimTime /\ wanted' = [wanted EXCEPT ![e] = None]
  <2>1. Waiting(e, TimeType)
    BY <1>1, <1>3 DEF Waiting
  <2>2. wanted[e] = TimeType /\ TimeType # None
    BY <2>1, <1>1, EventAssumption DEF IInv, NoneForgotten
  <2>3. Due[e] = [time |-> SimTime, phase |-> Half]
    BY <2>2, <1>2, <1>4, DueType
  <2>4. Due' = [Due EXCEPT ![e] = None]
    BY <1>1, <1>2, <1>4, GoneRequest
  <2>5. QED  BY <2>3, <2>4, <1>1, <1>2 DEF Promise!Activate
<1>5. CASE UNCHANGED wanted
  BY <1>1, <1>2, <1>5, StutterStep
<1>6. QED  BY <1>3, <1>4, <1>5 DEF Pop

(* The two ends of a phase.                                                *)
LEMMA PhasePromise ==
  ASSUME IInv, EnterLate \/ NextSlot
  PROVE  Promise!EnterLate \/ Promise!EnterNextSlot
<1>1. pc = "phaseEnd" /\ UNCHANGED <<time, wanted>> /\ Half = TimeType
  BY DEF EnterLate, NextSlot, registry, calendar, Half, SlotPC
<1>2. Due' = Due
  BY <1>1 DEF Due
<1>3. \A e \in Event : Due[e] # [time |-> SimTime, phase |-> Half]
  BY <1>1, PhaseServed
<1>4. CASE EnterLate
  <2>1. Half = EARLY /\ Half' = LATE /\ SimTime' = SimTime
    BY <1>1, <1>4 DEF EnterLate, Half, SlotPC
  <2>2. QED
    BY <1>2, <1>3, <2>1
    DEF Promise!EnterLate, Promise!Served, Promise!EARLY, Promise!LATE, EARLY, LATE
<1>5. CASE NextSlot
  <2>1. Half = LATE /\ Half' = EARLY /\ SimTime' = (SimTime + 1) % Word
    BY <1>1, <1>5 DEF NextSlot, LeaveRun, Half, SlotPC
  <2>2. QED
    BY <1>2, <1>3, <2>1
    DEF Promise!EnterNextSlot, Promise!Served, Promise!EARLY, Promise!LATE, EARLY, LATE
<1>6. QED  BY <1>4, <1>5

LEMMA ResetTimePromise ==
  ASSUME IInv, ResetTime
  PROVE  Promise!Rebase
<1>1. /\ pc = "idle" /\ pc' = "idle" /\ wanted' = wanted /\ SimTime' = 0
      /\ time' = [e \in Event |-> IF \E p \in Phase : InCalendar(e, p)
                                   THEN (time[e] - SimTime) % Word
                                   ELSE time[e]]
      /\ SimTime \in Nat /\ Word \in Nat
  BY WordAssumption DEF ResetTime, loop, IInv, TypeOK
<1>2. ASSUME NEW e \in Event
      PROVE  Due'[e] = IF Due[e] = None THEN None
                       ELSE [Due[e] EXCEPT !.time = @ - SimTime]
  <2>1. CASE wanted[e] = None
    BY <1>1, <2>1, DueType DEF Due
  <2>2. CASE wanted[e] # None
    <3>1. /\ Due[e] = [time |-> time[e], phase |-> wanted[e]] /\ Due[e] # None
          /\ wanted[e] \in Phase
          /\ time[e] \in 0 .. Word - 1 /\ time[e] >= SimTime
      BY <2>2, DueType
    <3>2. InCalendar(e, wanted[e])
      BY <1>1, <3>1 DEF IInv, NoneForgotten, Waiting
    <3>3. time[e] - SimTime \in 0 .. Word - 1
      BY <1>1, <3>1
    <3>4. (time[e] - SimTime) % Word = time[e] - SimTime
      BY <1>1, <3>3
    <3>5. time'[e] = time[e] - SimTime
      BY <1>1, <3>1, <3>2, <3>4
    <3>6. Due'[e] = [time |-> time[e] - SimTime, phase |-> wanted[e]]
      BY <1>1, <2>2, <3>5 DEF Due
    <3>7. QED  BY <3>1, <3>6
  <2>3. QED  BY <2>1, <2>2
<1>3. Due' = [e \in Event |-> IF Due[e] = None THEN None
                              ELSE [Due[e] EXCEPT !.time = @ - SimTime]]
  <2>1. Due' = [e \in Event |-> Due'[e]]
    BY DEF Due
  <2>2. QED  BY <2>1, <1>2
<1>4. Half = EARLY /\ Half' = EARLY
  BY <1>1 DEF Half, SlotPC
<1>5. QED  BY <1>1, <1>3, <1>4 DEF Promise!Rebase, Promise!EARLY, EARLY

LEMMA FlushPromise ==
  ASSUME Flush
  PROVE  Promise!Forget
<1>1. Due' = [e \in Event |-> None]
  BY DEF Flush, Due
<1>2. UNCHANGED <<SimTime, Half>>
  BY DEF Flush, clock, loop, Half
<1>3. QED  BY <1>1, <1>2 DEF Promise!Forget

LEMMA PromiseStep ==
  ASSUME IInv, [Next]_vars
  PROVE  [Promise!ANext]_(Promise!avars)
<1> USE DEF registry, calendar, clock, loop, run
<1>1. ASSUME NEW p \in Phase, NEW e \in EachEvent, Each(p, e)
      PROVE  UNCHANGED Promise!avars
  BY <1>1, StutterStep DEF Each, Half
<1>2. ASSUME NEW s \in Slots, NEW d, Run(s, d)
      PROVE  UNCHANGED Promise!avars
  BY <1>2, StutterStep DEF Run, Half, SlotPC
<1>3. CASE Stop \/ Return \/ EnterEach \/ EachNext
  BY <1>3, StutterStep DEF Stop, Return, EnterEach, EachNext, Half, SlotPC
<1>4. CASE Segment \/ EndSegment \/ Dot \/ DotsDone \/ EndRun
  BY <1>4, StutterStep
  DEF Segment, EndSegment, Dot, DotsDone, EndRun, LeaveRun, Half, SlotPC
<1>5. CASE BeginSlot
  BY <1>5, StutterStep DEF BeginSlot, Half, SlotPC
<1>6. CASE UNCHANGED vars
  BY <1>6, StutterStep DEF vars, Half
<1>7. QED
  BY <1>1, <1>2, <1>3, <1>4, <1>5, <1>6, AlarmPromise, UnalarmPromise,
     RaiseErrorPromise, PopPromise, PhasePromise, ResetTimePromise, FlushPromise
  DEF Next, Call, RunDefault, HandlerFails, RunStep, Promise!ANext

-----------------------------------------------------------------------------
(***************************************************************************)
(* The theorems                                                            *)
(***************************************************************************)

LEMMA CalendarStep ==
  ASSUME IInv, [Next]_vars
  PROVE  CalendarInv'
<1> USE DEF registry, calendar, loop, run, SlotPC
<1>1. CalendarInv
  BY DEF IInv
<1>2. CASE RaiseError
  BY <1>1, <1>2, QuietCalendar DEF RaiseError, LeaveRun
<1>3. ASSUME UNCHANGED <<cal, now, time, clock>>, UNCHANGED pos \/ pc' # "evt",
             pc' \in SlotPC => pc \in SlotPC, pc' = "evt" => pc = "evt"
      PROVE  CalendarInv'
  BY <1>1, <1>3, QuietCalendar
<1>4. ASSUME NEW p \in Phase, NEW e \in EachEvent, Each(p, e)
      PROVE  CalendarInv'
  BY <1>3, <1>4 DEF Each
<1>5. ASSUME NEW s \in Slots, NEW d, Run(s, d)
      PROVE  CalendarInv'
  BY <1>3, <1>5 DEF Run
<1>6. CASE Stop \/ Return \/ EnterEach \/ EachNext
  BY <1>3, <1>6 DEF Stop, Return, EnterEach, EachNext
<1>7. CASE Segment \/ EndSegment \/ Dot \/ DotsDone \/ EndRun
  BY <1>3, <1>7 DEF Segment, EndSegment, Dot, DotsDone, EndRun, LeaveRun
<1>8. CASE UNCHANGED vars
  BY <1>3, <1>8 DEF vars
<1>9. QED
  BY <1>2, <1>4, <1>5, <1>6, <1>7, <1>8, AlarmCalendar, UnalarmCalendar,
     FlushCalendar, ResetTimeCalendar, BeginSlotCalendar, EnterLateCalendar,
     PopCalendar, NextSlotCalendar
  DEF Next, Call, RunDefault, HandlerFails, RunStep

LEMMA InvariantStep == IInv /\ [Next]_vars => IInv'
<1> SUFFICES ASSUME IInv, [Next]_vars PROVE IInv'
  OBVIOUS
<1>1. TypeOK'
  <2>1. TypeOK
    BY DEF IInv
  <2>2. CASE HandlerFails
    BY <2>1, <2>2, LeaveRunType DEF HandlerFails, RaiseError, TypeOK, clock
  <2>3. CASE UNCHANGED vars
    BY <2>1, <2>3 DEF TypeOK, vars, registry, calendar, clock, loop, run
  <2>4. QED  BY <2>2, <2>3, CallType, RunStepType DEF Next
<1>2. InStep' /\ RunLength'
  <2>1. CASE UNCHANGED vars
    BY <2>1 DEF IInv, InStep, RunLength, vars, clock, loop, run, SlotPC
  <2>2. QED  BY <2>1, WalkCall, WalkRunStep DEF Next
<1>3. QED  BY <1>1, <1>2, CalendarStep, EachStep, RequestsStep DEF IInv

(* The kernel's variables keep their types, and what the walk over the     *)
(* calendar relies on holds in every reachable state, whatever the network *)
(* objects ask for, for calendars, clocks and runs of any length.          *)
THEOREM Invariance == Spec => []IInv
<1>1. Init => IInv
  BY InitInv
<1>2. IInv /\ [Next]_vars => IInv'
  BY InvariantStep
<1>3. QED  BY <1>1, <1>2, PTL DEF Spec

(* The values of the kernel's variables, TypeOK.                           *)
THEOREM TypeCorrect == Spec => []TypeOK
<1>1. IInv => TypeOK
  BY DEF IInv
<1>2. QED  BY <1>1, Invariance, PTL

(* Every event of the calendar is where unalarme, sim::run and ResetTime   *)
(* look for it, and nowhere else.                                          *)
THEOREM CalendarListed == Spec => []Listed
<1>1. IInv => Listed
  BY DEF IInv, CalendarInv, Listed
<1>2. QED  BY <1>1, Invariance, PTL

(* No event in the calendar has been passed over.                          *)
THEOREM CalendarNoneMissed == Spec => []NoneMissed
<1>1. IInv => NoneMissed
  BY DEF IInv, CalendarInv
<1>2. QED  BY <1>1, Invariance, PTL

(* A request stands as long as its event waits, and no longer.             *)
THEOREM CalendarNoneForgotten == Spec => []NoneForgotten
<1>1. IInv => NoneForgotten
  BY DEF IInv
<1>2. QED  BY <1>1, Invariance, PTL

(* The walk over the calendar keeps step with the clock, and a run         *)
(* simulates the slots it was asked for.                                   *)
THEOREM WalkIsExact == Spec => []WalkExact
<1>1. IInv => WalkExact
  BY DEF IInv, WalkExact
<1>2. QED  BY <1>1, Invariance, PTL

(* Objects registered for every slot are activated once in each phase.     *)
THEOREM EachIsServedOnce == Spec => []EachServedOnce
<1>1. IInv => EachServedOnce
  BY DEF IInv
<1>2. QED  BY <1>1, Invariance, PTL

(* The calendar queue activates every object in the slot and the phase it  *)
(* asked for, once, and ends no phase with a request for it unserved:      *)
(* module Activation, for calendars and clocks of any length.              *)
THEOREM CalendarKeepsPromise == Spec => KeepsPromise
<1>1. Init => Promise!AInit
  BY DEF Init, Promise!AInit, Due, Half, SlotPC, Promise!EARLY, EARLY
<1>2. IInv /\ [Next]_vars => [Promise!ANext]_(Promise!avars)
  BY PromiseStep
<1>3. QED
  BY <1>1, <1>2, Invariance, PTL DEF Spec, KeepsPromise, Promise!ASpec
=============================================================================
