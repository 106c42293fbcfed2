---------------------------- MODULE PriorityMux ----------------------------
(***************************************************************************)
(* The priority multiplexers muxPrio and muxFrmPrio (src/muxevt): items    *)
(* that arrive in the early phase of a slot are buffered by REC; late()    *)
(* takes them in random order and puts them into the queue of their        *)
(* priority, or into the idle server; early() is the end of a service or   *)
(* of the wait for the next output cycle.  muxPrio serves a cell in        *)
(* serviceTime slots, muxFrmPrio in asynchronous mode serves a frame in    *)
(* the time its length takes at serviceRate bits per slot.                 *)
(*                                                                         *)
(* The event manager is the one of module EventManager: an event asked for *)
(* a later slot fires in its early phase, one asked for the present slot   *)
(* from a handler of the early phase is missed.                            *)
(*                                                                         *)
(* muxFrmPrio starts with each code as its own priority, whether there is  *)
(* a queue of that number or not.  Nothing is said of what late() does     *)
(* once it has gone past the ends of the arrays of the queues.             *)
(***************************************************************************)
EXTENDS Integers, Sequences, SequencesExt, Functions

CONSTANTS
  Modes,          \* pairs of a class, "muxPrio" or "muxFrmPrio", and whether
                  \* services begin at multiples of serviceTime only
  Input,          \* inputs: one item per slot and input at most
  Code,           \* VCIs, or priority code points of frames (max_inprio)
  nprio,          \* number of queues, the last has the highest priority
  serviceTime, serviceRate,
  Bytes,          \* lengths of the frames
  Limit,          \* arguments of setQueueMax
  MaxItems,       \* bound on the number of arrivals
  None, Missed

Prio == 0 .. nprio - 1

ASSUME ModeAssumption  == Modes \subseteq {"muxPrio", "muxFrmPrio"} \X BOOLEAN
ASSUME PrioAssumption  == nprio \in Nat \ {0} /\ Code \subseteq Nat
ASSUME TimeAssumption  == /\ serviceTime \in Nat \ {0}
                          /\ serviceRate \in Nat \ {0}
                          /\ Bytes \subseteq Nat \ {0}
ASSUME LimitAssumption == Limit \subseteq Nat /\ MaxItems \in Nat
Item == [id : 1 .. MaxItems, prio : Prio \cup Code, len : Bytes,
         slot : 0 .. MaxItems]
ASSUME NoneAssumption  == /\ None \notin Item /\ None \notin Nat \cup {Missed}
                          /\ Missed \notin Nat

VARIABLES
  mode,                 \* class and synchronous mode of this multiplexer
  prioQ, qmax,          \* the queues and their limits
  qLens, qByteLens,     \* copies of their lengths, exported
  priorities,           \* mapping of codes to priorities
  inpPrioBuf,           \* items arrived in this slot, not yet treated
  maxArrPrio,           \* highest priority among them
  needToSchedule,       \* late() is not registered yet
  serverState, server,
  std_evt,              \* slots until early(), None if not registered, or
                        \* Missed
  phase,                \* of the slot: "early", "late" or "end";
                        \* "undefined" when an array has been left
  cycle,                \* SimTime % serviceTime
  used,                 \* inputs that have sent in this slot
  \* history
  arrived,              \* number of items that came
  burst,                \* number of slots with an arrival
  out,                  \* items sent to the successor, in order
  dropped,              \* items lost
  begin                 \* where in a cycle services begin: moved when the
                        \* clock is set to 0 under a server that is not idle

queues  == <<prioQ, qLens, qByteLens, dropped>>
service == <<serverState, server, std_evt>>
inputs  == <<inpPrioBuf, maxArrPrio, needToSchedule, used, arrived, burst>>
config  == <<mode, qmax, priorities>>
vars    == <<queues, service, inputs, config, phase, cycle, out, begin>>

-----------------------------------------------------------------------------
(* Transmission time of a frame, rounded to slots: double arithmetic in    *)
(* the code, (8 * bytes / serviceRate + 0.5) truncated.                    *)
Ticks(f) == (16 * f.len + serviceRate) \div (2 * serviceRate)

isFrm    == mode[1] = "muxFrmPrio"
syncMode == mode[2]
ByLength == isFrm /\ ~ syncMode

(* The service time of an item whose service begins in late(), in early(). *)
LateTime(f)  == IF ByLength THEN (IF Ticks(f) < 1 THEN 1 ELSE Ticks(f))
                            ELSE serviceTime
EarlyTime(f) == IF ByLength THEN Ticks(f) ELSE serviceTime

(* Mutant of Alarme: the server is not registered again.                   *)
AlarmeNever(d) == std_evt' = None

(* alarme(&std_evt, d); from early() a delay of 0 is missed.               *)
Alarme(d) == std_evt' = IF d = 0 THEN Missed ELSE d

Init ==
  /\ mode \in Modes
  /\ prioQ = [p \in Prio |-> <<>>]
  /\ qmax = [p \in Prio |-> 1]
  /\ qLens = [p \in Prio |-> 0]
  /\ qByteLens = [p \in Prio |-> 0]
  /\ priorities = [c \in Code |-> IF isFrm THEN c ELSE nprio - 1]
  /\ inpPrioBuf = {} /\ maxArrPrio = 0 /\ needToSchedule = TRUE
  /\ serverState = "idling" /\ server = None /\ std_evt = None
  /\ phase = "early" /\ cycle = 0 /\ used = {}
  /\ arrived = 0 /\ burst = 0 /\ out = <<>> /\ dropped = {}
  /\ begin = 0

(* Mutant of SetQueueMax: the queue of a priority may get no room at all.  *)
SetQueueMaxExact(p, len) ==
  /\ phase = "end"
  /\ Len(prioQ[p]) <= len
  /\ qmax' = [qmax EXCEPT ![p] = len]
  /\ UNCHANGED <<queues, service, inputs, mode, priorities, phase, cycle, out,
                 begin>>

(* setQueueMax, between two slots: refused if the queue is longer.         *)
SetQueueMax(p, len) ==
  /\ phase = "end"
  /\ Len(prioQ[p]) <= len + 1
  /\ qmax' = [qmax EXCEPT ![p] = len + 1]
  /\ UNCHANGED <<queues, service, inputs, mode, priorities, phase, cycle, out,
                 begin>>

(* setPriority, between two slots.                                         *)
SetPriority(c, p) ==
  /\ phase = "end"
  /\ priorities' = [priorities EXCEPT ![c] = p]
  /\ UNCHANGED <<queues, service, inputs, mode, qmax, phase, cycle, out, begin>>

-----------------------------------------------------------------------------
(* REC: an item arrives, in the early phase, before or after early().      *)
Arrive(i, c, b) ==
  /\ phase = "early"
  /\ i \notin used
  /\ arrived < MaxItems
  /\ used' = used \cup {i}
  /\ arrived' = arrived + 1
  /\ burst' = IF used = {} THEN burst + 1 ELSE burst
  /\ LET p == priorities[c] IN
     /\ maxArrPrio' = IF p > maxArrPrio THEN p ELSE maxArrPrio
     /\ inpPrioBuf' = inpPrioBuf \cup
          {[id |-> arrived', prio |-> p, len |-> b, slot |-> burst']}
  /\ needToSchedule' = FALSE
  /\ UNCHANGED <<queues, service, config, phase, cycle, out, begin>>

(* Mutant of Highest: the lowest non-empty queue.                          *)
LowestWaiting == CHOOSE p \in Prio :
  prioQ[p] # <<>> /\ \A q \in Prio : prioQ[q] # <<>> => q >= p

(* The queue dequeuePrio() takes from.                                     *)
Highest == CHOOSE p \in Prio :
  prioQ[p] # <<>> /\ \A q \in Prio : prioQ[q] # <<>> => q <= p

Waiting == \E p \in Prio : prioQ[p] # <<>>

Dequeue ==
  /\ prioQ' = [prioQ EXCEPT ![Highest] = Tail(@)]
  /\ qLens' = [qLens EXCEPT ![Highest] = @ - 1]
  /\ server' = Head(prioQ[Highest])
  /\ UNCHANGED <<qByteLens, dropped>>

(* early(), in serving state: the item has been served.                    *)
Served ==
  /\ phase = "early"
  /\ std_evt = 0
  /\ serverState = "serving"
  /\ out' = Append(out, server)
  /\ IF Waiting
       THEN /\ Dequeue
            /\ Alarme(EarlyTime(server'))
            /\ UNCHANGED <<serverState, begin>>
       ELSE /\ server' = None
            /\ std_evt' = None
            /\ serverState' = "idling"
            /\ begin' = 0
            /\ UNCHANGED queues
  /\ UNCHANGED <<inputs, config, phase, cycle>>

(* early(), in syncing state: an output cycle begins.                      *)
CycleBegins ==
  /\ phase = "early"
  /\ std_evt = 0
  /\ serverState = "syncing"
  /\ Dequeue
  /\ Alarme(serviceTime)
  /\ serverState' = "serving"
  /\ UNCHANGED <<inputs, config, phase, cycle, out, begin>>

(* The event manager ends the early phase when no event is due any more.   *)
EnterLate ==
  /\ phase = "early"
  /\ std_evt # 0
  /\ phase' = IF needToSchedule THEN "end" ELSE "late"
  /\ needToSchedule' = TRUE
  /\ UNCHANGED <<queues, service, inpPrioBuf, maxArrPrio, used, arrived, burst,
                 config, cycle, out, begin>>

-----------------------------------------------------------------------------
(* late() goes through the arrivals in random order.                       *)
NextArrival(f) ==
  /\ phase = "late"
  /\ f \in inpPrioBuf
  /\ inpPrioBuf' = inpPrioBuf \ {f}
  /\ IF inpPrioBuf' = {}
       THEN phase' = "end" /\ maxArrPrio' = 0
       ELSE UNCHANGED <<phase, maxArrPrio>>
  /\ UNCHANGED <<needToSchedule, used, arrived, burst, config, cycle, out, begin>>

(* Mutant of Chosen: the first item treated is taken.                      *)
ChosenFirst(f) == serverState = "idling"

(* The idle server takes an item of the highest priority that arrived.     *)
Chosen(f) == serverState = "idling" /\ f.prio = maxArrPrio

AtTail(f) ==
  /\ prioQ' = [prioQ EXCEPT ![f.prio] = Append(@, f)]
  /\ qLens' = [qLens EXCEPT ![f.prio] = @ + 1]

StartService(f) ==
  /\ NextArrival(f)
  /\ Chosen(f)
  /\ ~ (syncMode /\ cycle # 0)
  /\ server' = f
  /\ serverState' = "serving"
  /\ std_evt' = LateTime(f)
  /\ UNCHANGED queues

(* Mutant of WaitForCycle: a whole cycle is waited for.                    *)
WaitWholeCycle(f) ==
  /\ NextArrival(f)
  /\ f.prio \in Prio
  /\ Chosen(f)
  /\ syncMode /\ cycle # 0
  /\ AtTail(f)
  /\ std_evt' = serviceTime
  /\ serverState' = "syncing"
  /\ UNCHANGED <<qByteLens, dropped, server>>

(* Not at the beginning of an output cycle: the item waits in its queue.   *)
(* The result of enqueue() is not looked at.                               *)
WaitForCycle(f) ==
  /\ NextArrival(f)
  /\ f.prio \in Prio
  /\ Chosen(f)
  /\ syncMode /\ cycle # 0
  /\ IF Len(prioQ[f.prio]) < qmax[f.prio]
       THEN AtTail(f)
       ELSE qLens' = [qLens EXCEPT ![f.prio] = @ + 1] /\ UNCHANGED prioQ
  /\ std_evt' = serviceTime - cycle
  /\ serverState' = "syncing"
  /\ UNCHANGED <<qByteLens, dropped, server>>

(* Mutants of Enqueue: the item refused by a full queue is forgotten; the  *)
(* item is put in front.                                                   *)
EnqueueForget(f) ==
  /\ NextArrival(f)
  /\ f.prio \in Prio
  /\ ~ Chosen(f)
  /\ IF Len(prioQ[f.prio]) < qmax[f.prio]
       THEN AtTail(f)
       ELSE UNCHANGED <<prioQ, qLens>>
  /\ UNCHANGED <<qByteLens, dropped, service>>

EnqueueFront(f) ==
  /\ NextArrival(f)
  /\ f.prio \in Prio
  /\ ~ Chosen(f)
  /\ IF Len(prioQ[f.prio]) < qmax[f.prio]
       THEN /\ prioQ' = [prioQ EXCEPT ![f.prio] = Cons(f, @)]
            /\ qLens' = [qLens EXCEPT ![f.prio] = @ + 1]
            /\ UNCHANGED dropped
       ELSE /\ dropped' = dropped \cup {f}
            /\ UNCHANGED <<prioQ, qLens>>
  /\ UNCHANGED <<qByteLens, service>>

Enqueue(f) ==
  /\ NextArrival(f)
  /\ f.prio \in Prio
  /\ ~ Chosen(f)
  /\ IF Len(prioQ[f.prio]) < qmax[f.prio]
       THEN /\ AtTail(f)
            /\ qByteLens' = [qByteLens EXCEPT ![f.prio] =
                               IF isFrm THEN @ + f.len ELSE @]
            /\ UNCHANGED dropped
       ELSE /\ dropped' = dropped \cup {f}
            /\ UNCHANGED <<prioQ, qLens, qByteLens>>
  /\ UNCHANGED service

(* An item whose priority has no queue goes well if an idle server takes   *)
(* it at once.  If it is to be queued, or refused and counted, late() uses *)
(* prioQ, qLens and lostPRIO past their ends.                              *)
OutOfBounds(f) ==
  /\ phase \in {"late", "undefined"}
  /\ f.prio \notin Prio
  /\ Chosen(f) => syncMode /\ cycle # 0
  /\ phase' = "undefined"
  /\ UNCHANGED <<queues, service, inputs, config, cycle, out, begin>>

-----------------------------------------------------------------------------
(* Mutant of NextCycle: an output cycle is one slot too long.              *)
LongCycle == (cycle + 1) % (serviceTime + 1)

(* SimTime % serviceTime in the next slot.                                 *)
NextCycle == (cycle + 1) % serviceTime

SlotBegins ==
  /\ phase = "end"
  /\ phase' = "early"
  /\ used' = {}
  /\ std_evt' = IF std_evt \in Nat THEN std_evt - 1 ELSE std_evt
  /\ UNCHANGED <<queues, serverState, server, inpPrioBuf, maxArrPrio,
                 needToSchedule, arrived, burst, config, out>>

NextSlot == SlotBegins /\ cycle' = NextCycle /\ UNCHANGED begin

(* The next slot is slot 0: sim:resetTime between two runs, or SimTime has *)
(* overflowed, which ends a run with an error.  The server's event stays   *)
(* as many slots away as it was, the multiplexer is not told.              *)
ClockToZero ==
  /\ SlotBegins
  /\ cycle' = 0
  /\ begin' = IF syncMode /\ serverState # "idling" THEN std_evt' ELSE 0

-----------------------------------------------------------------------------
Command ==
  \/ \E p \in Prio, len \in Limit : SetQueueMax(p, len)
  \/ \E c \in Code, p \in Prio : SetPriority(c, p)

Step ==
  \/ Served \/ CycleBegins \/ EnterLate \/ NextSlot \/ ClockToZero
  \/ \E f \in inpPrioBuf :
       StartService(f) \/ WaitForCycle(f) \/ Enqueue(f) \/ OutOfBounds(f)

Next ==
  \/ \E i \in Input, c \in Code, b \in Bytes : Arrive(i, c, b)
  \/ Command
  \/ Step

Spec == Init /\ [][Next]_vars

-----------------------------------------------------------------------------
(***************************************************************************)
(* Correctness                                                             *)
(***************************************************************************)

(* The values of the multiplexer's variables.  A code stays without queue  *)
(* until it is mapped, and only codes of frames can be.                    *)
TypeOK ==
  /\ mode \in Modes
  /\ prioQ \in [Prio -> Seq(Item)]
  /\ qmax \in [Prio -> Nat]
  /\ qLens \in [Prio -> Int] /\ qByteLens \in [Prio -> Nat]
  /\ priorities \in [Code -> Prio \cup Code]
  /\ \A c \in Code : priorities[c] \in Prio \/ (isFrm /\ priorities[c] = c)
  /\ inpPrioBuf \subseteq Item
  /\ maxArrPrio \in Prio \cup Code
  /\ needToSchedule \in BOOLEAN
  /\ serverState \in {"idling", "syncing", "serving"}
  /\ server \in Item \cup {None}
  /\ std_evt \in Nat \cup {None, Missed}
  /\ phase \in {"early", "late", "end", "undefined"}
  /\ {cycle, begin} \subseteq 0 .. serviceTime - 1
  /\ used \subseteq Input
  /\ arrived \in 0 .. MaxItems /\ burst \in 0 .. arrived
  /\ out \in Seq(Item) /\ dropped \subseteq Item

Queued == UNION {ToSet(prioQ[p]) : p \in Prio}
InServer == {server} \ {None}
Items == Queued \cup InServer \cup inpPrioBuf \cup dropped \cup ToSet(out)

(* No item is at two places.                                               *)
Apart ==
  /\ Queued \cap (InServer \cup inpPrioBuf \cup dropped \cup ToSet(out)) = {}
  /\ InServer \cap (inpPrioBuf \cup dropped \cup ToSet(out)) = {}
  /\ inpPrioBuf \cap (dropped \cup ToSet(out)) = {}
  /\ dropped \cap ToSet(out) = {}
  /\ \A p, q \in Prio : p # q => ToSet(prioQ[p]) \cap ToSet(prioQ[q]) = {}

(* No queue holds an item twice, and none is sent twice.                   *)
Single == IsInjective(out) /\ \A p \in Prio : IsInjective(prioQ[p])

(* No item is lost without being counted, doubled, or left behind: each    *)
(* one that arrived is at one place.  The exported queue lengths are true. *)
Conserved ==
  /\ {f.id : f \in Items} = 1 .. arrived
  /\ \A f, g \in Items : f.id = g.id => f = g
  /\ Apart /\ Single
  /\ \A p \in Prio : qLens[p] = Len(prioQ[p])

(* The server rests only if nothing waits; a server that waits for the     *)
(* next output cycle will find an item ("there should be sth, see late()", *)
(* src/muxevt/muxPrio.c:187); and as long as it is not idle, it will be    *)
(* activated.  Late arrivals are the reason why late() must have run.      *)
Busy ==
  /\ serverState = "idling" /\ phase \in {"early", "end"} => ~ Waiting
  /\ serverState = "syncing" => Waiting
  /\ serverState = "serving" <=> server # None
  /\ serverState = "idling" <=> std_evt = None
  /\ phase \in {"early", "end"} => (needToSchedule <=> inpPrioBuf = {})

(* An item never enters the server while one of higher priority is queued  *)
(* or, if the server was idle, has arrived in the same slot.               *)
HighestFirst ==
  [][\/ server' = server \/ server' = None
     \/ \A p \in Prio : p > server'.prio =>
          /\ prioQ'[p] = <<>>
          /\ phase = "late" => \A f \in inpPrioBuf' : f.prio # p]_vars

(* In synchronous mode services begin at multiples of serviceTime, unless  *)
(* the clock was set to 0 since the server was idle last.  If it was, they *)
(* go on serviceTime slots from each other, in the same slot of each cycle *)
(* of the new time, and find back to the multiples after the next rest.    *)
SyncStart ==
  [][syncMode => server' = server \/ server' = None \/ cycle = begin]_vars

(* Items of one priority leave in the order of the slots they came in.     *)
InOrder ==
  \A i, j \in DOMAIN out :
    i < j /\ out[i].prio = out[j].prio => out[i].slot <= out[j].slot

(* "illegal event registration: DELTA == 0 while simulation running"       *)
(* (src/kernel/sim.c:352): no handler of the early phase asks for a        *)
(* further early activation in the same slot.                              *)
NoZeroDelay == std_evt # Missed
=============================================================================
