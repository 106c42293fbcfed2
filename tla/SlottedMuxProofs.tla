-------------------------- MODULE SlottedMuxProofs --------------------------
(***************************************************************************)
(* Proofs about the cell multiplexers with one queue, for any inputs, size *)
(* of the buffer, service times and number of cells, and for all classes   *)
(* at once.                                                                *)
(*                                                                         *)
(* The classes differ in the time between two services (Gap) and in the    *)
(* time until the next one (Wait); with these the sojourn of a cell is     *)
(* bounded in the same way for all of them: what has passed, what remains  *)
(* until the next service and a service for each cell in front never       *)
(* exceed the time for a full queue (OnTime).                              *)
(***************************************************************************)
EXTENDS SlottedMux, FiniteSetTheorems, WellFoundedInduction, TLAPS

Gap == CASE class = "mux"     -> 1
         [] class = "muxDist" -> Max(Table)
         [] OTHER             -> active

Wait == IF std_evt # None THEN std_evt
        ELSE IF class = "mux"
          THEN IF phase = "late" /\ old_q_len = 0 THEN 2 ELSE 1
          ELSE Gap

(* The limit of the queue: only the one of muxAF changes, to 0, and only   *)
(* when the queue is empty.                                                *)
Limits ==
  /\ q_hi = 0 /\ q_lo = -1 /\ Len(q) <= q_max /\ q_max \in 0 .. buff + 1
  /\ served => class = "muxAF"

(* When the event of the server is due.                                    *)
Registered ==
  /\ class = "mux" => std_evt \in {None, 0}
  /\ class = "muxDist" => (serving <=> std_evt # None)
  /\ class = "muxDist" /\ std_evt # None => std_evt \in 0 .. Max(Table)
  /\ class \in {"muxDF", "muxAF"} => std_evt \in 0 .. active
  /\ class \in {"mux", "muxDist"} /\ std_evt # None => q # <<>>
  /\ phase = "late" => std_evt # 0 /\ old_q_len <= Len(q)

OnTime == \A k \in DOMAIN q : q[k].age + Wait + (k - 1) * Gap <= Longest

(* The order of the queue, and the least time a cell has spent in it.      *)
Ages ==
  /\ \A k, l \in DOMAIN q : k <= l => q[l].age <= q[k].age
  /\ phase = "early" => \A k \in DOMAIN q : q[k].age >= 1
  /\ class = "mux" /\ phase = "late" => \A k \in 1 .. old_q_len : q[k].age >= 1
  /\ class = "mux" /\ phase = "early" /\ std_evt = 0 => q[1].age >= 2
  /\ class = "muxDist" /\ std_evt # None => q[1].age + std_evt >= Min(Table)
  /\ \A k \in DOMAIN out : out[k].age \in Shortest .. Longest

IInv == TypeOK /\ Limits /\ Registered /\ OnTime /\ Ages

-----------------------------------------------------------------------------
(* A finite set of numbers has a smallest and a largest element.           *)
LEMMA SmallestExists ==
  ASSUME NEW S, S \subseteq Nat, S # {}
  PROVE  \E x \in S : \A y \in S : x <= y
<1> DEFINE R == OpToRel(<, Nat)
<1>1. IsWellFoundedOn(R, Nat)
  BY NatLessThanWellFounded
<1>2. \A x, y \in Nat : <<x, y>> \in R <=> x < y
  BY DEF OpToRel
<1> HIDE DEF R
<1>3. PICK x \in S : \A y \in S : ~ (<<y, x>> \in R)
  BY <1>1, WFMin
<1>4. \A y \in S : x \in Nat /\ y \in Nat /\ ~ (y < x)
  BY <1>2, <1>3
<1> QED
  BY <1>4

LEMMA LargestExists ==
  ASSUME NEW S, S \subseteq Nat, S # {}, IsFiniteSet(S)
  PROVE  \E x \in S : \A y \in S : x >= y
<1> DEFINE Largest(T) == \E x \in T : \A y \in T : x >= y
           Bad == {T \in SUBSET S : T # {} /\ ~ Largest(T)}
           Sizes == {Cardinality(T) : T \in Bad}
<1> SUFFICES ASSUME Bad # {} PROVE FALSE
  OBVIOUS
<1>1. \A T \in Bad : IsFiniteSet(T) /\ Cardinality(T) \in Nat
  BY FS_Subset, FS_CardinalityType
<1>2. Sizes \subseteq Nat /\ Sizes # {}
  BY <1>1
<1>3. PICK n \in Sizes : \A m \in Sizes : n <= m
  BY <1>2, SmallestExists
<1>4. PICK T \in Bad : n = Cardinality(T)
  OBVIOUS
<1>5. PICK x \in T : TRUE
  OBVIOUS
<1>6. /\ IsFiniteSet(T \ {x}) /\ Cardinality(T \ {x}) = n - 1 /\ n \in Nat
      /\ T \subseteq Nat /\ T \ {x} \subseteq S
  BY <1>1, <1>4, <1>5, FS_RemoveElement
<1>7. T \ {x} \notin Bad
  <2>1. T \ {x} \in Bad => n - 1 \in Sizes
    BY <1>6
  <2> QED
    BY <2>1, <1>3, <1>6
<1>8. T \ {x} = {} \/ Largest(T \ {x})
  BY <1>6, <1>7
<1>9. Largest(T)
  <2>1. CASE T \ {x} = {}
    <3>1. \A y \in T : y = x
      BY <2>1
    <3> QED
      BY <3>1, <1>5, <1>6
  <2>2. CASE Largest(T \ {x})
    <3>1. PICK z \in T \ {x} : \A y \in T \ {x} : z >= y
      BY <2>2
    <3>2. x \in Nat /\ z \in Nat /\ z \in T
      BY <1>6
    <3>3. CASE z >= x
      <4>1. \A y \in T : z >= y
        BY <3>1, <3>3
      <4> QED
        BY <3>2, <4>1
    <3>4. CASE ~ (z >= x)
      <4>1. \A y \in T : x >= y
        BY <3>1, <3>2, <3>4, <1>6
      <4> QED
        BY <4>1, <1>5
    <3> QED
      BY <3>3, <3>4
  <2> QED
    BY <1>8, <2>1, <2>2
<1> QED
  BY <1>9

LEMMA TableFacts ==
  /\ Max(Table) \in Nat \ {0} /\ Min(Table) \in Nat \ {0}
  /\ \A e \in Table : e \in Nat \ {0} /\ Min(Table) <= e /\ e <= Max(Table)
<1>1. Table \subseteq Nat /\ Table # {} /\ IsFiniteSet(Table) /\ 0 \notin Table
  BY TimeAssumption
<1>2. Min(Table) \in Table /\ \A e \in Table : Min(Table) <= e
  BY <1>1, SmallestExists DEF Min
<1>3. Max(Table) \in Table /\ \A e \in Table : Max(Table) >= e
  BY <1>1, LargestExists DEF Max
<1> QED
  BY <1>1, <1>2, <1>3

LEMMA GapFacts ==
  ASSUME class \in Classes
  PROVE  /\ Gap \in Nat \ {0}
         /\ class = "mux" => Gap = 1
         /\ class = "muxDist" => Gap = Max(Table)
         /\ class \in {"muxDF", "muxAF"} => Gap = active
         /\ class \in {"mux", "muxDF", "muxAF", "muxDist"}
  BY ClassAssumption, TimeAssumption, TableFacts DEF Gap

(* k * g is the time that k services take.                                 *)
LEMMA Turns ==
  ASSUME NEW g \in Nat, NEW k \in Nat \ {0}
  PROVE  /\ (k - 1) * g \in Nat /\ k * g \in Nat
         /\ k * g = (k - 1) * g + g
         /\ (k + 1 - 1) * g = k * g
  OBVIOUS

LEMMA TurnsMonotone ==
  ASSUME NEW g \in Nat, NEW k \in Nat, NEW l \in Nat, k <= l
  PROVE  k * g <= l * g
  OBVIOUS

LEMMA LongestFacts ==
  ASSUME class \in Classes
  PROVE  /\ Longest = (buff + 1) * Gap + (IF class = "mux" THEN 1 ELSE 0)
         /\ Longest \in Nat /\ (buff + 1) * Gap \in Nat
         /\ Shortest \in Nat
         /\ class = "mux" => Shortest = 2
         /\ class = "muxDist" => Shortest = Min(Table)
         /\ class \in {"muxDF", "muxAF"} => Shortest = 1
<1>1. Gap \in Nat \ {0} /\ buff + 1 \in Nat \ {0}
  BY GapFacts, BufferAssumption
<1>2. (buff + 1) * Gap \in Nat
  BY <1>1, Turns
<1>3. Longest = (buff + 1) * Gap + (IF class = "mux" THEN 1 ELSE 0)
  <2>1. CASE class = "mux"
    <3>1. Longest = buff + 2 /\ Gap = 1
      BY <2>1 DEF Longest, Gap
    <3> QED
      BY <2>1, <3>1, BufferAssumption
  <2>2. CASE class # "mux"
    <3>1. Longest = (buff + 1) * Gap
      BY <2>2 DEF Longest, Gap
    <3> QED
      BY <2>2, <3>1, <1>2
  <2> QED
    BY <2>1, <2>2
<1>4. /\ class = "mux" => Shortest = 2
      /\ class = "muxDist" => Shortest = Min(Table)
      /\ class \in {"muxDF", "muxAF"} => Shortest = 1
  BY DEF Shortest
<1> QED
  BY <1>2, <1>3, <1>4, GapFacts, TableFacts

LEMMA TailFacts ==
  ASSUME NEW S, NEW s \in Seq(S), s # <<>>
  PROVE  /\ Head(s) \in S /\ Head(s) = s[1] /\ 1 \in DOMAIN s
         /\ Tail(s) \in Seq(S) /\ Len(Tail(s)) = Len(s) - 1 /\ Len(s) \in Nat
         /\ \A k \in DOMAIN Tail(s) :
              k \in Nat \ {0} /\ k + 1 \in DOMAIN s /\ Tail(s)[k] = s[k + 1]
  OBVIOUS

LEMMA CellFacts == \A c \in Cell : c.id \in 1 .. MaxCells /\ c.age \in Nat
  BY DEF Cell

LEMMA QueueFacts ==
  ASSUME TypeOK
  PROVE  /\ \A k \in DOMAIN q : q[k] \in Cell /\ q[k].age \in Nat /\ k \in Nat \ {0} /\ k <= Len(q)
         /\ \A k \in DOMAIN out : out[k] \in Cell /\ out[k].age \in Nat
         /\ Len(q) \in Nat /\ DOMAIN q = 1 .. Len(q) /\ q \in Seq(Cell) /\ out \in Seq(Cell)
<1>1. q \in Seq(Cell) /\ out \in Seq(Cell)
  BY DEF TypeOK
<1> QED
  BY <1>1, CellFacts

-----------------------------------------------------------------------------
LEMMA InitInv == Init => IInv
<1> SUFFICES ASSUME Init PROVE IInv
  OBVIOUS
<1>1. q = <<>> /\ Len(q) = 0 /\ DOMAIN q = {} /\ out = <<>> /\ DOMAIN out = {}
  BY DEF Init
<1>2. TypeOK
  <2>1. q \in Seq(Cell) /\ out \in Seq(Cell)
    BY <1>1
  <2>2. std_evt \in Nat \cup {None}
    BY TimeAssumption DEF Init
  <2>3. arrived \in 0 .. MaxCells /\ q_max \in 0 .. buff + 1 /\ Len(q) <= buff + 1 /\ old_q_len \in 0 .. buff + 1
    BY <1>1, BufferAssumption DEF Init
  <2>4. q_hi \in Nat /\ q_lo \in Int
    BY DEF Init
  <2>5. /\ class \in Classes /\ served \in BOOLEAN /\ serving \in BOOLEAN /\ phase \in {"early", "late"}
        /\ inp_buff \subseteq 1 .. arrived /\ dropped \subseteq 1 .. arrived /\ used \subseteq Input
    BY DEF Init
  <2> QED
    BY <2>1, <2>2, <2>3, <2>4, <2>5 DEF TypeOK
<1>3. Limits
  BY <1>1, BufferAssumption DEF Init, Limits
<1>4. Registered
  BY <1>1, ClassAssumption, TimeAssumption, NoneAssumption DEF Init, Registered
<1>5. OnTime /\ Ages
  BY <1>1, ClassAssumption, TimeAssumption, NoneAssumption DEF Init, OnTime, Ages
<1> QED
  BY <1>2, <1>3, <1>4, <1>5 DEF IInv

LEMMA ArriveInv ==
  ASSUME IInv, NEW i \in Input, Arrive(i)
  PROVE  IInv'
<1>1. /\ phase = "early" /\ arrived < MaxCells /\ used' = used \cup {i} /\ arrived' = arrived + 1
      /\ inp_buff' = inp_buff \cup {arrived'}
      /\ UNCHANGED <<class, q, q_max, q_hi, q_lo, served, serving, std_evt, old_q_len, phase, out, dropped>>
  BY DEF Arrive, server
<1>2. arrived \in Nat /\ arrived' \in 1 .. MaxCells
  BY <1>1, BufferAssumption DEF IInv, TypeOK
<1>3. TypeOK'
  <2>1. inp_buff' \subseteq 1 .. arrived' /\ dropped' \subseteq 1 .. arrived'
    BY <1>1, <1>2 DEF IInv, TypeOK
  <2>2. used' \subseteq Input /\ arrived' \in 0 .. MaxCells
    BY <1>1, <1>2 DEF IInv, TypeOK
  <2> QED
    BY <1>1, <2>1, <2>2 DEF IInv, TypeOK
<1>4. Limits' /\ Registered'
  BY <1>1 DEF IInv, Limits, Registered
<1>5. OnTime'
  BY <1>1 DEF IInv, OnTime, Wait, Gap, Longest
<1>6. Ages'
  BY <1>1 DEF IInv, Ages, Shortest, Longest
<1> QED
  BY <1>3, <1>4, <1>5, <1>6 DEF IInv

(* A service: the head leaves, within its time, and every other cell has   *)
(* one cell less in front of it.                                           *)
LEMMA Served ==
  ASSUME IInv, phase = "early", std_evt = 0, q # <<>>, Send, class' = class, phase' = phase,
         Wait' <= Gap, Wait' \in Nat, std_evt' = None \/ class \notin {"mux", "muxDist"}
  PROVE  /\ q' \in Seq(Cell) /\ out' \in Seq(Cell) /\ Len(q') = Len(q) - 1
         /\ OnTime' /\ Ages'
<1>1. /\ q' = Tail(q) /\ out' = Append(out, Head(q)) /\ class \in Classes /\ 0 # None
  BY NoneAssumption DEF Send, IInv, TypeOK
<1>2. /\ Head(q) \in Cell /\ Head(q) = q[1] /\ 1 \in DOMAIN q /\ q[1].age \in Nat
      /\ q' \in Seq(Cell) /\ Len(q') = Len(q) - 1
      /\ \A k \in DOMAIN q' : k \in Nat \ {0} /\ k + 1 \in DOMAIN q /\ q'[k] = q[k + 1]
                              /\ q[k + 1].age \in Nat
  BY <1>1, QueueFacts, TailFacts DEF IInv
<1>3. Gap' = Gap /\ Longest' = Longest /\ Shortest' = Shortest /\ Wait = 0
  BY <1>1 DEF Gap, Longest, Shortest, Wait
<1>4. OnTime'
  <2> SUFFICES ASSUME NEW k \in DOMAIN q'
               PROVE  q'[k].age + Wait' + (k - 1) * Gap <= Longest
    BY <1>3 DEF OnTime
  <2>1. q[k + 1].age + 0 + (k + 1 - 1) * Gap <= Longest
    BY <1>2, <1>3 DEF IInv, OnTime
  <2> DEFINE w == (k - 1) * Gap
  <2>2. (k + 1 - 1) * Gap = w + Gap /\ w \in Nat /\ Gap \in Nat /\ Longest \in Nat
    BY <1>1, <1>2, Turns, GapFacts, LongestFacts
  <2>3. q'[k].age = q[k + 1].age /\ q[k + 1].age \in Nat
    BY <1>2
  <2> HIDE DEF w
  <2>4. q'[k].age + Wait' + w <= Longest
    BY <2>1, <2>2, <2>3
  <2> QED
    BY <2>4 DEF w
<1>5. Head(q).age \in Shortest .. Longest
  <2>1. q[1].age + 0 + (1 - 1) * Gap <= Longest
    BY <1>2, <1>3 DEF IInv, OnTime
  <2>2. q[1].age <= Longest
    BY <1>1, <1>2, <2>1, GapFacts, LongestFacts
  <2>3. q[1].age >= Shortest
    BY <1>1, <1>2, LongestFacts, GapFacts DEF IInv, Ages
  <2> QED
    BY <1>1, <1>2, <2>2, <2>3, LongestFacts
<1>6. out' \in Seq(Cell) /\ \A k \in DOMAIN out' : out'[k].age \in Shortest .. Longest
  <2>1. out \in Seq(Cell)
    BY QueueFacts DEF IInv
  <2>2. \A k \in DOMAIN out' : out'[k] = Head(q) \/ (k \in DOMAIN out /\ out'[k] = out[k])
    BY <1>1, <2>1
  <2> QED
    BY <1>1, <1>2, <1>5, <2>1, <2>2 DEF IInv, Ages
<1>7. \A k, l \in DOMAIN q' : k <= l => q'[l].age <= q'[k].age
  BY <1>2 DEF IInv, Ages
<1>8. \A k \in DOMAIN q' : q'[k].age >= 1
  BY <1>2 DEF IInv, Ages
<1>9. Ages'
  BY <1>1, <1>3, <1>6, <1>7, <1>8 DEF Ages
<1> QED
  BY <1>2, <1>4, <1>6, <1>9

LEMMA SendNextInv ==
  ASSUME IInv, SendNext
  PROVE  IInv'
<1>1. /\ phase = "early" /\ std_evt = 0 /\ class \in {"mux", "muxDist"} /\ Send
      /\ serving' = FALSE /\ std_evt' = None
      /\ UNCHANGED <<class, q_max, q_hi, q_lo, served, inp_buff, old_q_len, phase, used, arrived, dropped>>
  BY DEF SendNext
<1>2. q # <<>> /\ class \in Classes
  BY <1>1, NoneAssumption DEF IInv, Registered, TypeOK
<1>3. Wait' = Gap /\ Gap \in Nat
  BY <1>1, <1>2, GapFacts DEF Wait, Gap
<1>4. /\ q' \in Seq(Cell) /\ out' \in Seq(Cell) /\ Len(q') = Len(q) - 1
      /\ OnTime' /\ Ages'
  BY <1>1, <1>2, <1>3, Served
<1>5. Len(q) \in Nat
  BY QueueFacts DEF IInv
<1>6. TypeOK'
  <2>1. Len(q') <= buff + 1
    BY <1>4, <1>5, BufferAssumption DEF IInv, TypeOK
  <2>2. serving' \in BOOLEAN /\ std_evt' \in Nat \cup {None}
    BY <1>1
  <2> QED
    BY <1>1, <1>4, <2>1, <2>2 DEF IInv, TypeOK
<1>7. Limits' /\ Registered'
  BY <1>1, <1>4, <1>5, BufferAssumption DEF IInv, Limits, Registered
<1> QED
  BY <1>4, <1>6, <1>7 DEF IInv

(* The limit -1 is refused whatever the length of the queue.               *)
LEMMA ServiceSlotInv ==
  ASSUME IInv, ServiceSlot
  PROVE  IInv'
<1>1. /\ phase = "early" /\ std_evt = 0 /\ class \in {"muxDF", "muxAF"} /\ std_evt' = active
      /\ UNCHANGED <<class, q_hi, q_lo, serving, inp_buff, old_q_len, phase, used, arrived, dropped>>
  BY DEF ServiceSlot
<1>2. Wait' = Gap /\ Gap \in Nat /\ active # None
  BY <1>1, GapFacts, TimeAssumption, NoneAssumption DEF Wait, Gap, IInv, TypeOK
<1>3. Len(q) \in Nat /\ 0 # None
  BY QueueFacts, NoneAssumption DEF IInv
<1>4. Registered'
  BY <1>1, TimeAssumption DEF IInv, Registered
<1>5. CASE q # <<>>
  <2>1. /\ Send /\ served' \in {TRUE, served} /\ (class = "muxDF" => served' = served)
        /\ q_max' \in {q_max, Limit(Len(q'), q_lo)}
    BY <1>5 DEF ServiceSlot
  <2>2. /\ q' \in Seq(Cell) /\ out' \in Seq(Cell) /\ Len(q') = Len(q) - 1
        /\ OnTime' /\ Ages'
    BY <1>1, <1>2, <1>5, <2>1, Served
  <2>3. Len(q') \in Nat
    BY <2>2
  <2>4. q_max' = q_max
    BY <2>1, <2>3 DEF IInv, Limits, Limit
  <2>5. TypeOK'
    <3>1. Len(q') <= buff + 1
      BY <1>3, <2>2, BufferAssumption DEF IInv, TypeOK
    <3>2. served' \in BOOLEAN /\ std_evt' \in Nat \cup {None}
      BY <1>1, <2>1, TimeAssumption DEF IInv, TypeOK
    <3> QED
      BY <1>1, <2>2, <2>4, <3>1, <3>2 DEF IInv, TypeOK
  <2>6. Limits'
    BY <1>1, <1>3, <2>1, <2>2, <2>4, BufferAssumption DEF IInv, Limits
  <2> QED
    BY <1>4, <2>2, <2>5, <2>6 DEF IInv
<1>6. CASE q = <<>>
  <2>1. UNCHANGED <<q, out, served, q_max>>
    BY <1>6 DEF ServiceSlot
  <2>2. TypeOK' /\ Limits'
    BY <1>1, <2>1, TimeAssumption DEF IInv, TypeOK, Limits
  <2>3. OnTime'
    <3>1. DOMAIN q' = {}
      BY <1>6, <2>1
    <3> QED
      BY <3>1 DEF OnTime
  <2>4. Ages'
    BY <1>1, <2>1 DEF IInv, Ages, Shortest, Longest
  <2> QED
    BY <1>4, <2>2, <2>3, <2>4 DEF IInv
<1> QED
  BY <1>5, <1>6

LEMMA EnterLateInv ==
  ASSUME IInv, EnterLate
  PROVE  IInv'
<1>1. /\ phase = "early" /\ std_evt # 0 /\ phase' = "late" /\ old_q_len' = Len(q)
      /\ UNCHANGED <<class, q, q_max, q_hi, q_lo, served, serving, std_evt, inp_buff>>
      /\ UNCHANGED <<used, arrived, out, dropped>>
  BY DEF EnterLate, server, history
<1>2. Len(q) \in Nat /\ DOMAIN q = 1 .. Len(q)
  BY QueueFacts DEF IInv
<1>3. TypeOK' /\ Limits'
  BY <1>1, <1>2, BufferAssumption DEF IInv, TypeOK, Limits
<1>4. Registered'
  BY <1>1, <1>2 DEF IInv, Registered
<1>5. OnTime'
  <2>1. CASE Len(q) = 0
    <3>1. DOMAIN q' = {}
      BY <2>1, <1>1, <1>2
    <3> QED
      BY <3>1 DEF OnTime
  <2>2. CASE Len(q) # 0
    <3>1. Wait' = Wait /\ Gap' = Gap /\ Longest' = Longest
      BY <2>2, <1>1 DEF Wait, Gap, Longest
    <3> QED
      BY <3>1, <1>1 DEF IInv, OnTime
  <2> QED
    BY <2>1, <2>2
<1>6. Ages'
  BY <1>1, <1>2 DEF IInv, Ages, Shortest, Longest
<1> QED
  BY <1>3, <1>4, <1>5, <1>6 DEF IInv

(* In the late phase the next service is at most one Gap away, but for mux *)
(* with a queue that was empty.                                            *)
LEMMA WaitBound ==
  ASSUME IInv, phase = "late"
  PROVE  /\ Wait \in Nat
         /\ Wait <= Gap + (IF class = "mux" THEN 1 ELSE 0)
<1>1. class \in Classes
  BY DEF IInv, TypeOK
<1>2. CASE class = "mux"
  BY <1>1, <1>2, GapFacts DEF IInv, Registered, Wait
<1>3. CASE class \in {"muxDF", "muxAF"}
  <2>1. std_evt \in 0 .. active /\ Gap = active /\ std_evt # None
    BY <1>1, <1>3, GapFacts, NoneAssumption, TimeAssumption DEF IInv, Registered
  <2> QED
    BY <2>1, <1>3, TimeAssumption DEF Wait
<1>4. CASE class = "muxDist"
  <2>1. Gap = Max(Table) /\ Gap \in Nat
    BY <1>1, <1>4, GapFacts
  <2>2. Wait \in Nat /\ Wait <= Gap
    BY <2>1, <1>4 DEF IInv, Registered, Wait
  <2> QED
    BY <2>1, <2>2, <1>4
<1> QED
  BY <1>1, <1>2, <1>3, <1>4, GapFacts

LEMMA EnqueueInv ==
  ASSUME IInv, NEW n \in inp_buff, Enqueue(n)
  PROVE  IInv'
<1> DEFINE cell == [id |-> n, age |-> 0]
<1>1. /\ phase = "late" /\ inp_buff' = inp_buff \ {n}
      /\ UNCHANGED <<class, q_max, q_hi, q_lo, served, serving, std_evt, old_q_len, phase>>
      /\ UNCHANGED <<used, arrived, out>>
  BY DEF Enqueue, server
<1>2. n \in 1 .. arrived /\ n \in 1 .. MaxCells /\ class \in Classes
  BY BufferAssumption DEF IInv, TypeOK
<1>3. /\ Len(q) \in Nat /\ DOMAIN q = 1 .. Len(q) /\ q \in Seq(Cell)
      /\ \A k \in DOMAIN q : q[k].age \in Nat
  BY QueueFacts DEF IInv
<1>4. Gap' = Gap /\ Longest' = Longest /\ Shortest' = Shortest /\ Wait' = Wait
  BY <1>1 DEF Gap, Longest, Shortest, Wait
<1>5. CASE Len(q) = q_max
  <2>1. q' = q /\ dropped' = dropped \cup {n}
    BY <1>5 DEF Enqueue
  <2>2. TypeOK'
    BY <1>1, <1>2, <2>1 DEF IInv, TypeOK
  <2>3. Limits' /\ Registered'
    BY <1>1, <2>1 DEF IInv, Limits, Registered
  <2>4. OnTime' /\ Ages'
    BY <1>1, <1>4, <2>1 DEF IInv, OnTime, Ages
  <2> QED
    BY <2>2, <2>3, <2>4 DEF IInv
<1>6. CASE Len(q) # q_max
  <2>1. q' = Append(q, cell) /\ dropped' = dropped
    BY <1>6 DEF Enqueue
  <2>2. cell \in Cell /\ cell.age = 0
    BY <1>2 DEF Cell
  <2> HIDE DEF cell
  <2>3. /\ q' \in Seq(Cell) /\ Len(q') = Len(q) + 1 /\ DOMAIN q' = 1 .. Len(q) + 1
        /\ \A k \in DOMAIN q : q'[k] = q[k] /\ k \in DOMAIN q'
        /\ q'[Len(q) + 1] = cell
        /\ \A k \in DOMAIN q' : k \in DOMAIN q \/ k = Len(q) + 1
    BY <1>3, <2>1, <2>2
  <2>4. Len(q) + 1 <= q_max /\ Len(q) + 1 <= buff + 1
    BY <1>3, <1>6, BufferAssumption DEF IInv, Limits
  <2>5. TypeOK'
    BY <1>1, <2>1, <2>3, <2>4 DEF IInv, TypeOK
  <2>6. Limits'
    BY <1>1, <2>3, <2>4 DEF IInv, Limits
  <2>7. Registered'
    <3>1. q' # <<>>
      BY <2>3, <1>3
    <3>2. old_q_len' <= Len(q')
      BY <1>1, <1>3, <2>3, BufferAssumption DEF IInv, TypeOK, Registered
    <3> QED
      BY <1>1, <3>1, <3>2 DEF IInv, Registered
  <2>8. OnTime'
    <3> SUFFICES ASSUME NEW k \in DOMAIN q'
                 PROVE  q'[k].age + Wait + (k - 1) * Gap <= Longest
      BY <1>4 DEF OnTime
    <3>1. CASE k \in DOMAIN q
      BY <3>1, <2>3 DEF IInv, OnTime
    <3>2. CASE k = Len(q) + 1
      <4> DEFINE w == (k - 1) * Gap
                 c == IF class = "mux" THEN 1 ELSE 0
      <4>1. k \in Nat \ {0} /\ k <= buff + 1 /\ buff + 1 \in Nat /\ Gap \in Nat
        BY <3>2, <1>2, <1>3, <2>4, GapFacts, BufferAssumption
      <4>2. w \in Nat /\ w + Gap <= (buff + 1) * Gap /\ (buff + 1) * Gap \in Nat
        BY <4>1, <1>2, Turns, TurnsMonotone, LongestFacts
      <4>3. Longest = (buff + 1) * Gap + c /\ c \in Nat
        BY <1>2, LongestFacts
      <4>4. Wait \in Nat /\ Wait <= Gap + c
        BY <1>1, WaitBound
      <4>5. q'[k].age = 0
        BY <3>2, <2>2, <2>3
      <4> HIDE DEF w, c
      <4>6. q'[k].age + Wait + w <= Longest
        BY <4>1, <4>2, <4>3, <4>4, <4>5
      <4> QED
        BY <4>6 DEF w
    <3> QED
      BY <3>1, <3>2, <2>3
  <2>9. Ages'
    <3>1. ASSUME NEW k \in DOMAIN q', NEW l \in DOMAIN q', k <= l
          PROVE  q'[l].age <= q'[k].age
      <4>1. CASE l \in DOMAIN q
        <5>1. k \in DOMAIN q
          BY <1>3, <2>3, <3>1, <4>1
        <5> QED
          BY <2>3, <3>1, <4>1, <5>1 DEF IInv, Ages
      <4>2. CASE l = Len(q) + 1
        BY <1>3, <2>2, <2>3, <3>1, <4>2
      <4> QED
        BY <4>1, <4>2, <2>3
    <3>2. class' = "mux" /\ phase' = "late" => \A k \in 1 .. old_q_len' : q'[k].age >= 1
      <4>1. \A k \in 1 .. old_q_len : k \in DOMAIN q
        BY <1>1, <1>3, BufferAssumption DEF IInv, TypeOK, Registered
      <4> QED
        BY <1>1, <2>3, <4>1 DEF IInv, Ages
    <3>3. class' = "muxDist" /\ std_evt' # None => q'[1].age + std_evt' >= Min(Table)
      <4>1. class = "muxDist" /\ std_evt # None => 1 \in DOMAIN q
        BY <1>3 DEF IInv, Registered
      <4> QED
        BY <1>1, <2>3, <4>1 DEF IInv, Ages
    <3>4. \A k \in DOMAIN out' : out'[k].age \in Shortest' .. Longest'
      BY <1>1, <1>4 DEF IInv, Ages
    <3> QED
      BY <1>1, <3>1, <3>2, <3>3, <3>4 DEF Ages
  <2> QED
    BY <2>5, <2>6, <2>7, <2>8, <2>9 DEF IInv
<1> QED
  BY <1>5, <1>6

(* A slot later a cell is one slot older, and the next service, if there   *)
(* is a cell to be served, one slot nearer at least.                       *)
LEMMA NextSlotInv ==
  ASSUME IInv, NextSlot
  PROVE  IInv'
<1>1. PICK e \in Table \cup {1, std_evt} :
        Register(e) /\ std_evt' = (IF e = None THEN None ELSE e - 1)
  BY DEF NextSlot
<1>2. /\ phase = "late" /\ phase' = "early" /\ served' = FALSE /\ used' = {}
      /\ q_max' = (IF served THEN Limit(Len(q), q_hi) ELSE q_max)
      /\ q' = [k \in DOMAIN q |-> [q[k] EXCEPT !.age = @ + 1]]
      /\ UNCHANGED <<class, q_hi, q_lo, inp_buff, old_q_len, arrived, out, dropped>>
  BY DEF NextSlot
<1>3. /\ Len(q) \in Nat /\ DOMAIN q = 1 .. Len(q) /\ q \in Seq(Cell) /\ class \in Classes
      /\ \A k \in DOMAIN q : q[k] \in Cell /\ q[k].age \in Nat /\ k \in Nat \ {0}
      /\ 0 # None /\ 1 # None
  BY QueueFacts, NoneAssumption DEF IInv, TypeOK
<1>4. \A c \in Cell : [c EXCEPT !.age = @ + 1] \in Cell /\ [c EXCEPT !.age = @ + 1].age = c.age + 1
  BY DEF Cell
<1>5. /\ q' \in Seq(Cell) /\ Len(q') = Len(q) /\ DOMAIN q' = DOMAIN q
      /\ \A k \in DOMAIN q : q'[k].age = q[k].age + 1
  <2>1. \A k \in DOMAIN q : [q[k] EXCEPT !.age = @ + 1] \in Cell
    BY <1>3, <1>4
  <2>2. q' \in Seq(Cell) /\ Len(q') = Len(q) /\ DOMAIN q' = DOMAIN q
    BY <1>2, <1>3, <2>1
  <2>3. \A k \in DOMAIN q : q'[k] = [q[k] EXCEPT !.age = @ + 1]
    BY <1>2
  <2> QED
    BY <1>3, <1>4, <2>2, <2>3
<1>6. Gap' = Gap /\ Longest' = Longest /\ Shortest' = Shortest /\ Gap \in Nat \ {0}
  BY <1>2, <1>3, GapFacts DEF Gap, Longest, Shortest
<1>7. /\ serving' \in BOOLEAN /\ std_evt' \in Nat \cup {None}
      /\ Registered'
      /\ q # <<>> => Wait' \in Nat /\ Wait' + 1 <= Wait
      /\ class = "mux" /\ std_evt' = 0 => q # <<>> /\ q[1].age >= 1
      /\ class = "muxDist" /\ std_evt' # None => q # <<>> /\ q[1].age + 1 + std_evt' >= Min(Table)
  <2>1. CASE class = "mux"
    <3>1. std_evt = None /\ old_q_len \in Nat /\ old_q_len <= Len(q) /\ serving' = serving
      BY <2>1, <1>1, <1>2, BufferAssumption DEF IInv, TypeOK, Registered, Register
    <3>2. CASE old_q_len # 0
      <4>1. std_evt' = 0 /\ Wait = 1 /\ Wait' = 0
        BY <2>1, <3>1, <3>2, <1>1, <1>2, <1>3 DEF Register, Wait
      <4>2. Len(q) >= 1 /\ q[1].age >= 1 /\ q' # <<>> /\ q # <<>>
        <5>1. 1 \in 1 .. old_q_len /\ Len(q) >= 1
          BY <3>1, <3>2, <1>3
        <5> QED
          BY <2>1, <5>1, <1>2, <1>3, <1>5 DEF IInv, Ages
      <4> QED
        BY <2>1, <3>1, <4>1, <4>2, <1>2, <1>3 DEF Registered, IInv, TypeOK
    <3>3. CASE old_q_len = 0
      <4>1. std_evt' = None /\ Wait = 2 /\ Wait' = 1
        BY <2>1, <3>1, <3>3, <1>1, <1>2 DEF Register, Wait
      <4> QED
        BY <2>1, <3>1, <4>1, <1>2, <1>3 DEF Registered, IInv, TypeOK
    <3> QED
      BY <3>2, <3>3
  <2>2. CASE class \in {"muxDF", "muxAF"}
    <3>1. std_evt \in 1 .. active /\ std_evt # None /\ e = std_evt /\ serving' = serving
      BY <2>2, <1>1, <1>2, NoneAssumption, TimeAssumption DEF IInv, Registered, Register
    <3>2. std_evt' = std_evt - 1 /\ std_evt' \in 0 .. active /\ std_evt' \in Nat /\ std_evt' # None
      BY <3>1, <1>1, NoneAssumption, TimeAssumption
    <3>3. Wait = std_evt /\ Wait' = std_evt'
      BY <3>1, <3>2 DEF Wait
    <3> QED
      BY <2>2, <3>1, <3>2, <3>3, <1>2 DEF Registered, IInv, TypeOK
  <2>3. CASE class = "muxDist"
    <3>1. IF ~ serving /\ q # <<>> THEN e \in Table /\ serving' = TRUE
                                   ELSE e = std_evt /\ serving' = serving
      BY <2>3, <1>1 DEF Register
    <3>2. /\ serving \in BOOLEAN /\ (serving <=> std_evt # None) /\ std_evt # 0
          /\ std_evt # None => std_evt \in 1 .. Max(Table) /\ q # <<>>
      BY <2>3, <1>2, TableFacts DEF IInv, TypeOK, Registered
    <3>3. CASE q = <<>>
      <4>1. std_evt' = None /\ serving' = FALSE /\ std_evt = None
        BY <3>1, <3>2, <3>3, <1>1
      <4> QED
        BY <2>3, <3>3, <4>1, <1>2 DEF Registered
    <3>4. CASE q # <<>>
      <4>1. /\ e \in 1 .. Max(Table) /\ e # None /\ serving' = TRUE
            /\ q[1].age + e >= Min(Table) /\ q[1].age \in Nat
            /\ e = std_evt \/ std_evt = None
        <5>1. 1 \in DOMAIN q /\ q[1].age \in Nat
          BY <3>4, <1>3
        <5>2. CASE serving
          BY <2>3, <3>1, <3>2, <5>1, <5>2 DEF IInv, Ages
        <5>3. CASE ~ serving
          <6>1. e \in Table /\ serving' = TRUE /\ std_evt = None
            BY <3>1, <3>2, <3>4, <5>3
          <6> QED
            BY <5>1, <6>1, TableFacts, NoneAssumption
        <5> QED
          BY <3>2, <5>2, <5>3
      <4>2. std_evt' = e - 1 /\ std_evt' \in 0 .. Max(Table) /\ std_evt' \in Nat /\ std_evt' # None
        BY <4>1, <1>1, TableFacts, NoneAssumption
      <4>3. Wait' = e - 1 /\ Wait >= e /\ Wait \in Nat
        <5>1. Wait' = e - 1
          BY <4>2 DEF Wait
        <5>2. std_evt = None => Wait = Max(Table)
          BY <2>3, <1>3, GapFacts DEF Wait
        <5>3. std_evt # None => Wait = e
          BY <4>1 DEF Wait
        <5> QED
          BY <5>1, <5>2, <5>3, <4>1, TableFacts
      <4>4. q' # <<>>
        BY <3>4, <1>3, <1>5
      <4>5. Registered'
        BY <2>3, <4>1, <4>2, <4>4, <1>2 DEF Registered
      <4>6. Wait' \in Nat /\ Wait' + 1 <= Wait
        BY <4>1, <4>2, <4>3
      <4>7. q[1].age + 1 + std_evt' >= Min(Table)
        BY <4>1, <4>2, TableFacts
      <4> QED
        BY <2>3, <3>4, <4>1, <4>2, <4>5, <4>6, <4>7
    <3> QED
      BY <3>3, <3>4
  <2> QED
    BY <2>1, <2>2, <2>3, <1>3, GapFacts
<1>8. q_max' \in {q_max, 0} /\ Len(q) <= q_max'
  BY <1>2, <1>3 DEF IInv, Limits, Limit
<1>9. TypeOK'
  <2>1. q_max' \in 0 .. buff + 1 /\ Len(q') <= buff + 1
    BY <1>5, <1>8, BufferAssumption DEF IInv, TypeOK
  <2> QED
    BY <1>2, <1>5, <1>7, <2>1 DEF IInv, TypeOK
<1>10. Limits'
  BY <1>2, <1>5, <1>8, BufferAssumption DEF IInv, Limits
<1>11. OnTime'
  <2> SUFFICES ASSUME NEW k \in DOMAIN q
               PROVE  q'[k].age + Wait' + (k - 1) * Gap <= Longest
    BY <1>5, <1>6 DEF OnTime
  <2> DEFINE w == (k - 1) * Gap
  <2>1. q[k].age + Wait + w <= Longest
    BY DEF IInv, OnTime
  <2>2. w \in Nat /\ Longest \in Nat
    BY <1>3, <1>6, Turns, LongestFacts
  <2>3. q # <<>> /\ Wait \in Nat
    BY <1>2, <1>3, WaitBound
  <2> HIDE DEF w
  <2>4. q'[k].age + Wait' + w <= Longest
    BY <1>3, <1>5, <1>7, <2>1, <2>2, <2>3
  <2> QED
    BY <2>4 DEF w
<1>12. Ages'
  <2>1. \A k, l \in DOMAIN q' : k <= l => q'[l].age <= q'[k].age
    BY <1>3, <1>5 DEF IInv, Ages
  <2>2. \A k \in DOMAIN q' : q'[k].age >= 1
    BY <1>3, <1>5
  <2>3. q # <<>> => q'[1].age = q[1].age + 1 /\ q[1].age \in Nat
    BY <1>3, <1>5
  <2>4. class' = "mux" /\ phase' = "early" /\ std_evt' = 0 => q'[1].age >= 2
    BY <1>2, <1>7, <2>3
  <2>5. class' = "muxDist" /\ std_evt' # None => q'[1].age + std_evt' >= Min(Table)
    BY <1>2, <1>7, <2>3
  <2>6. \A k \in DOMAIN out' : out'[k].age \in Shortest' .. Longest'
    BY <1>2, <1>6 DEF IInv, Ages
  <2> QED
    BY <1>2, <2>1, <2>2, <2>4, <2>5, <2>6 DEF Ages
<1> QED
  BY <1>7, <1>9, <1>10, <1>11, <1>12 DEF IInv

LEMMA NextInv ==
  ASSUME IInv, [Next]_vars
  PROVE  IInv'
<1>1. CASE UNCHANGED vars
  <2>1. Gap' = Gap /\ Longest' = Longest /\ Shortest' = Shortest /\ Wait' = Wait
    BY <1>1 DEF vars, server, history, Gap, Longest, Shortest, Wait
  <2> QED
    BY <1>1, <2>1 DEF vars, server, history, IInv, TypeOK, Limits, Registered, OnTime, Ages
<1> QED
  BY <1>1, ArriveInv, SendNextInv, ServiceSlotInv, EnterLateInv, EnqueueInv, NextSlotInv DEF Next

LEMMA Invariant == Spec => []IInv
  BY InitInv, NextInv, PTL DEF Spec

(* The queue of a multiplexer never grows beyond its buffer, and its event *)
(* and its counters keep their types.                                      *)
THEOREM TypeCorrect == Spec => []TypeOK
<1>1. IInv => TypeOK
  BY DEF IInv
<1> QED
  BY <1>1, Invariant, PTL

(* early() of mux and muxDist always finds a cell to send.                 *)
THEOREM AlwaysFed == Spec => []ServerFed
<1>1. IInv => ServerFed
  BY DEF IInv, Registered, ServerFed
<1> QED
  BY <1>1, Invariant, PTL

(* No cell leaves a multiplexer early, and none stays longer than a full   *)
(* queue takes to be served.                                               *)
THEOREM SojournBounded == Spec => []Sojourn
<1>1. IInv => Sojourn
  <2> SUFFICES ASSUME IInv PROVE Sojourn
    OBVIOUS
  <2>1. ASSUME NEW k \in DOMAIN q PROVE q[k].age <= Longest
    <3> DEFINE w == (k - 1) * Gap
    <3>1. q[k].age + Wait + w <= Longest
      BY DEF IInv, OnTime
    <3>2. q[k].age \in Nat /\ k \in Nat \ {0} /\ class \in Classes
      BY QueueFacts DEF IInv, TypeOK
    <3>3. w \in Nat /\ Longest \in Nat /\ Gap \in Nat
      BY <3>2, GapFacts, Turns, LongestFacts
    <3>4. Wait \in Nat
      BY <3>3 DEF Wait, IInv, TypeOK
    <3> HIDE DEF w
    <3> QED
      BY <3>1, <3>2, <3>3, <3>4
  <2> QED
    BY <2>1 DEF Sojourn, IInv, Ages
<1> QED
  BY <1>1, Invariant, PTL

(* Cells leave a multiplexer in the order of their slots.                  *)
THEOREM KeepsOrder == Spec => OldestFirst
<1> DEFINE First == \A k \in DOMAIN q' : out' # out => Last(out').age >= q'[k].age
<1>1. ASSUME IInv, [Next]_vars PROVE First
  <2>1. CASE out' = out
    BY <2>1
  <2>2. CASE out' # out
    <3>1. Send /\ (SendNext \/ (ServiceSlot /\ q # <<>>))
      BY <1>1, <2>2 DEF Next, Arrive, SendNext, ServiceSlot, EnterLate, Enqueue, NextSlot, vars,
                        server, history
    <3>2. q # <<>>
      BY <1>1, <3>1, NoneAssumption DEF SendNext, IInv, Registered
    <3>3. /\ q \in Seq(Cell) /\ out \in Seq(Cell)
          /\ q' = Tail(q) /\ out' = Append(out, Head(q))
      BY <1>1, <3>1, QueueFacts DEF IInv, Send
    <3>4. Last(out') = Head(q)
      BY <3>2, <3>3 DEF Last
    <3>5. /\ Head(q) = q[1] /\ 1 \in DOMAIN q
          /\ \A k \in DOMAIN q' : k \in Nat /\ k + 1 \in DOMAIN q /\ q'[k] = q[k + 1]
      BY <3>2, <3>3, TailFacts
    <3>6. \A k \in DOMAIN q' : q[k + 1].age <= q[1].age /\ q[k + 1].age \in Nat /\ q[1].age \in Nat
      BY <1>1, <3>5, QueueFacts DEF IInv, Ages
    <3> QED
      BY <3>4, <3>5, <3>6
  <2> QED
    BY <2>1, <2>2
<1>2. IInv /\ [Next]_vars => [First]_vars
  BY <1>1
<1> QED
  BY <1>2, Invariant, PTL DEF Spec, OldestFirst

-----------------------------------------------------------------------------
(* Conservation.  A cell dropped was not dropped before (Apart), so that   *)
(* counting cells is counting numbers (Counted), and no number is without  *)
(* a place (Complete).                                                     *)
Apart == inp_buff \cap dropped = {}

Counted ==
  /\ IsFiniteSet(inp_buff) /\ Cardinality(inp_buff) \in Nat
  /\ IsFiniteSet(dropped) /\ Cardinality(dropped) \in Nat
  /\ Cardinality(inp_buff) + Len(q) + Len(out) + Cardinality(dropped) = arrived

Complete ==
  inp_buff \cup {q[k].id : k \in DOMAIN q} \cup {out[k].id : k \in DOMAIN out} \cup dropped
    = 1 .. arrived

Places == Apart /\ Counted /\ Complete

LEMMA Added ==
  ASSUME NEW S, NEW x, IsFiniteSet(S), Cardinality(S) \in Nat, x \notin S
  PROVE  /\ IsFiniteSet(S \cup {x}) /\ Cardinality(S \cup {x}) \in Nat
         /\ Cardinality(S \cup {x}) = Cardinality(S) + 1
  BY FS_AddElement

LEMMA Removed ==
  ASSUME NEW S, NEW x, IsFiniteSet(S), x \in S
  PROVE  /\ IsFiniteSet(S \ {x}) /\ Cardinality(S \ {x}) \in Nat
         /\ Cardinality(S \ {x}) = Cardinality(S) - 1
  BY FS_RemoveElement, FS_CardinalityType

LEMMA InitPlaces == Init => Places
<1> SUFFICES ASSUME Init PROVE Places
  OBVIOUS
<1>1. /\ inp_buff = {} /\ dropped = {} /\ arrived = 0 /\ Len(q) = 0 /\ Len(out) = 0
      /\ DOMAIN q = {} /\ DOMAIN out = {}
  BY DEF Init
<1> QED
  BY <1>1, FS_EmptySet DEF Places, Apart, Counted, Complete

LEMMA ArrivePlaces ==
  ASSUME IInv, Places, NEW i \in Input, Arrive(i)
  PROVE  Places'
<1>1. /\ arrived' = arrived + 1 /\ inp_buff' = inp_buff \cup {arrived + 1}
      /\ UNCHANGED <<q, out, dropped>> /\ arrived \in Nat
  BY BufferAssumption DEF Arrive, IInv, TypeOK
<1>2. arrived + 1 \notin inp_buff /\ arrived + 1 \notin dropped
  BY <1>1 DEF IInv, TypeOK
<1>3. Apart'
  BY <1>1, <1>2 DEF Places, Apart
<1>4. Counted'
  <2>1. /\ IsFiniteSet(inp_buff') /\ Cardinality(inp_buff') \in Nat
        /\ Cardinality(inp_buff') = Cardinality(inp_buff) + 1
    BY <1>1, <1>2, Added DEF Places, Counted
  <2> QED
    BY <1>1, <2>1, QueueFacts DEF IInv, Places, Counted
<1>5. Complete'
  <2>1. 1 .. arrived + 1 = (1 .. arrived) \cup {arrived + 1}
    BY <1>1
  <2> QED
    BY <1>1, <2>1 DEF Places, Complete
<1> QED
  BY <1>3, <1>4, <1>5 DEF Places

LEMMA SendPlaces ==
  ASSUME IInv, Places, q # <<>>, Send, UNCHANGED <<inp_buff, dropped, arrived>>
  PROVE  Places'
<1>1. q \in Seq(Cell) /\ out \in Seq(Cell) /\ q' = Tail(q) /\ out' = Append(out, Head(q))
  BY QueueFacts DEF IInv, Send
<1>2. /\ Head(q) = q[1] /\ 1 \in DOMAIN q /\ Len(q) \in Nat /\ Len(q') = Len(q) - 1
      /\ \A k \in DOMAIN q' : k \in Nat /\ k + 1 \in DOMAIN q /\ q'[k] = q[k + 1]
  BY <1>1, TailFacts
<1>3. \A k \in DOMAIN q : k = 1 \/ (k - 1 \in DOMAIN q' /\ q'[k - 1] = q[k])
  BY <1>1
<1>4. /\ Len(out') = Len(out) + 1 /\ Len(out) \in Nat
      /\ \A k \in DOMAIN out : k \in DOMAIN out' /\ out'[k] = out[k]
      /\ Len(out) + 1 \in DOMAIN out' /\ out'[Len(out) + 1] = Head(q)
      /\ \A k \in DOMAIN out' : out'[k] = Head(q) \/ (k \in DOMAIN out /\ out'[k] = out[k])
  BY <1>1
<1>5. Counted'
  <2>1. Len(q') + Len(out') = Len(q) + Len(out)
    BY <1>2, <1>4
  <2> QED
    BY <1>2, <1>4, <2>1 DEF Places, Counted
<1>6. {q'[k].id : k \in DOMAIN q'} \cup {out'[k].id : k \in DOMAIN out'}
        = {q[k].id : k \in DOMAIN q} \cup {out[k].id : k \in DOMAIN out}
  <2>1. \A k \in DOMAIN q' : q'[k].id \in {q[l].id : l \in DOMAIN q}
    BY <1>2
  <2>2. \A k \in DOMAIN out' :
          out'[k].id \in {q[l].id : l \in DOMAIN q} \cup {out[l].id : l \in DOMAIN out}
    BY <1>2, <1>4
  <2>3. \A k \in DOMAIN q :
          q[k].id \in {q'[l].id : l \in DOMAIN q'} \cup {out'[l].id : l \in DOMAIN out'}
    BY <1>2, <1>3, <1>4
  <2>4. \A k \in DOMAIN out : out[k].id \in {out'[l].id : l \in DOMAIN out'}
    BY <1>4
  <2> QED
    BY <2>1, <2>2, <2>3, <2>4
<1>7. Apart' /\ Complete'
  BY <1>6 DEF Places, Apart, Complete
<1> QED
  BY <1>5, <1>7 DEF Places

LEMMA EnqueuePlaces ==
  ASSUME IInv, Places, NEW n \in inp_buff, Enqueue(n)
  PROVE  Places'
<1> DEFINE cell == [id |-> n, age |-> 0]
<1>1. inp_buff' = inp_buff \ {n} /\ out' = out /\ arrived' = arrived
  BY DEF Enqueue
<1>2. /\ IsFiniteSet(inp_buff') /\ Cardinality(inp_buff') \in Nat
      /\ Cardinality(inp_buff') = Cardinality(inp_buff) - 1
  BY <1>1, Removed DEF Places, Counted
<1>3. n \notin dropped /\ Len(q) \in Nat /\ Len(out) \in Nat /\ q \in Seq(Cell) /\ inp_buff = inp_buff' \cup {n}
  BY <1>1, QueueFacts DEF Places, Apart, IInv
<1>4. CASE Len(q) = q_max
  <2>1. q' = q /\ dropped' = dropped \cup {n}
    BY <1>4 DEF Enqueue
  <2>2. /\ IsFiniteSet(dropped') /\ Cardinality(dropped') \in Nat
        /\ Cardinality(dropped') = Cardinality(dropped) + 1
    BY <1>3, <2>1, Added DEF Places, Counted
  <2>3. Apart'
    BY <1>1, <2>1 DEF Places, Apart
  <2>4. Counted'
    BY <1>1, <1>2, <1>3, <2>1, <2>2 DEF Places, Counted
  <2>5. Complete'
    BY <1>1, <1>3, <2>1 DEF Places, Complete
  <2> QED
    BY <2>3, <2>4, <2>5 DEF Places
<1>5. CASE Len(q) # q_max
  <2>1. q' = Append(q, cell) /\ dropped' = dropped
    BY <1>5 DEF Enqueue
  <2>2. cell.id = n
    OBVIOUS
  <2> HIDE DEF cell
  <2>3. /\ Len(q') = Len(q) + 1
        /\ \A k \in DOMAIN q : k \in DOMAIN q' /\ q'[k] = q[k]
        /\ Len(q) + 1 \in DOMAIN q' /\ q'[Len(q) + 1] = cell
        /\ \A k \in DOMAIN q' : q'[k] = cell \/ (k \in DOMAIN q /\ q'[k] = q[k])
    BY <1>3, <2>1
  <2>4. {q'[k].id : k \in DOMAIN q'} = {q[k].id : k \in DOMAIN q} \cup {n}
    <3>1. \A k \in DOMAIN q' : q'[k].id \in {q[l].id : l \in DOMAIN q} \cup {n}
      BY <2>2, <2>3
    <3>2. \A k \in DOMAIN q : q[k].id \in {q'[l].id : l \in DOMAIN q'}
      BY <2>3
    <3>3. n \in {q'[l].id : l \in DOMAIN q'}
      BY <2>2, <2>3
    <3> QED
      BY <3>1, <3>2, <3>3
  <2>5. Apart'
    BY <1>1, <2>1 DEF Places, Apart
  <2>6. Counted'
    BY <1>1, <1>2, <1>3, <2>1, <2>3 DEF Places, Counted
  <2>7. Complete'
    BY <1>1, <1>3, <2>1, <2>4 DEF Places, Complete
  <2> QED
    BY <2>5, <2>6, <2>7 DEF Places
<1> QED
  BY <1>4, <1>5

LEMMA NextSlotPlaces ==
  ASSUME IInv, Places, NextSlot
  PROVE  Places'
<1>1. /\ UNCHANGED <<inp_buff, out, arrived, dropped>>
      /\ q' = [k \in DOMAIN q |-> [q[k] EXCEPT !.age = @ + 1]]
  BY DEF NextSlot
<1>2. q \in Seq(Cell) /\ \A k \in DOMAIN q : q[k] \in Cell
  BY QueueFacts DEF IInv
<1>3. \A c \in Cell : [c EXCEPT !.age = @ + 1].id = c.id
  BY DEF Cell
<1>4. Len(q') = Len(q) /\ DOMAIN q' = DOMAIN q
  BY <1>1, <1>2
<1>5. \A k \in DOMAIN q : q'[k].id = q[k].id
  BY <1>1, <1>2, <1>3
<1> QED
  BY <1>1, <1>4, <1>5 DEF Places, Apart, Counted, Complete

(* Every cell that came is in one place, and accounted for once.           *)
THEOREM NothingLost == Spec => []Conserved
<1>1. ASSUME IInv, Places, [Next]_vars PROVE Places'
  <2>1. CASE SendNext \/ (ServiceSlot /\ q # <<>>)
    <3>1. Send /\ UNCHANGED <<inp_buff, dropped, arrived>> /\ (ServiceSlot => q # <<>>)
      BY <2>1 DEF SendNext, ServiceSlot
    <3>2. q # <<>>
      BY <1>1, <2>1, NoneAssumption DEF SendNext, IInv, Registered
    <3> QED
      BY <1>1, <3>1, <3>2, SendPlaces
  <2>2. CASE UNCHANGED <<inp_buff, q, out, dropped, arrived>>
    BY <1>1, <2>2 DEF Places, Apart, Counted, Complete
  <2>3. CASE ServiceSlot /\ q = <<>>
    BY <2>2, <2>3 DEF ServiceSlot
  <2>4. CASE EnterLate \/ UNCHANGED vars
    BY <2>2, <2>4 DEF EnterLate, vars, history
  <2> QED
    BY <1>1, <2>1, <2>3, <2>4, ArrivePlaces, EnqueuePlaces, NextSlotPlaces DEF Next
<1>2. IInv /\ Places => Conserved
  <2> SUFFICES ASSUME IInv, Places PROVE Conserved
    OBVIOUS
  <2>1. ToSet(q) = {q[k] : k \in DOMAIN q} /\ ToSet(out) = {out[k] : k \in DOMAIN out}
    BY DEF ToSet
  <2>2. /\ Numbers(q) = {q[k].id : k \in DOMAIN q}
        /\ Numbers(out) = {out[k].id : k \in DOMAIN out}
    BY <2>1 DEF Numbers
  <2> QED
    BY <2>2 DEF Conserved, Places, Counted, Complete
<1> QED
  BY <1>1, <1>2, InitPlaces, Invariant, PTL DEF Spec
=============================================================================
