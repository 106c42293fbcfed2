---------------------------- MODULE EventManager ----------------------------
(***************************************************************************)
(* The event manager of the simulation kernel (src/kernel/sim.c, with the  *)
(* inline registration routines of src/kernel/defs.h).  The calendar is an *)
(* array of TIME_LEN hash positions for each of the two phases of a slot;  *)
(* a hash position holds the list of all events whose activation time is   *)
(* congruent to it.  sim::run walks the calendar position by position,     *)
(* detaches the list of the present one into early_now or late_now, pops   *)
(* its events one by one, activates those that are due and puts the others *)
(* back.                                                                   *)
(*                                                                         *)
(* A handler is the C++ routine early(p) or late(p) of a network object.   *)
(* What it does to the kernel is modelled by the calls it makes, one step  *)
(* each, between its activation and its return.                            *)
(***************************************************************************)
EXTENDS Integers, Sequences, SequencesExt

CONSTANTS
  Event,        \* event structures used with alarme() and alarml()
  EachEvent,    \* event structures used with eache() and eachl()
  TimeLen,      \* TIME_LEN, number of hash positions
  Word,         \* number of values of tim_typ: the clock wraps after Word - 1
  Delay,        \* values of delta the objects ask for
  Slots, Dots,  \* arguments of sim::run
  LineLen,      \* dots printed per line
  None          \* no event

EARLY == "early"
LATE  == "late"
Phase == {EARLY, LATE}
Position == 0 .. TimeLen - 1

ASSUME TimeLenAssumption == TimeLen \in Nat \ {0}
ASSUME WordAssumption    == Word \in Nat \ {0}
ASSUME DelayAssumption   == Delay \subseteq Nat
ASSUME RunAssumption     == Slots \subseteq Nat /\ Dots \subseteq Int
ASSUME LineAssumption    == LineLen \in Nat \ {0}
ASSUME EventAssumption   == /\ None \notin Event \cup EachEvent
                            /\ None \notin Nat \cup Phase
                            /\ None \notin [time : Nat, phase : Phase]
                            /\ Event \cap EachEvent = {}

VARIABLES
  \* the calendar
  cal,          \* eventse and eventsl: the list at each hash position
  now,          \* early_now and late_now: the detached list
  each,         \* timee and timel: objects to activate in every slot
  time,         \* evt->time, None before the first registration
  \* the clock
  SimTime, TimeType,
  \* the state of sim::run
  pc,           \* where the run is; "idle" when no run is in progress
  pos,          \* pe - eventse, the hash position of the present slot
  endMark,      \* end_mark - eventse
  nSlots, nDots, nextDot, dotsPerLine,
  SimStopCommand,
  active,       \* the event whose handler is executing, or None
  \* history, read by the properties only
  wanted,       \* the phase an event is requested for, None if it is not
  target,       \* clock value at which the present run is to end
  owed          \* objects registered for every slot and not yet activated
                \* in the present phase

calendar == <<cal, now, time, wanted>>
clock    == <<SimTime, TimeType>>
run      == <<pos, endMark, nSlots, nDots, nextDot, dotsPerLine>>
registry == <<calendar, each>>
loop     == <<pc, run, active, target, owed>>
vars     == <<registry, clock, loop, SimStopCommand>>

-----------------------------------------------------------------------------
(***************************************************************************)
(* Lists and hash positions                                                *)
(***************************************************************************)

Hash(t) == t % TimeLen

(* del_evt: take an event out of a singly linked list.                     *)
Del(list, e) == RemoveAt(list, CHOOSE i \in DOMAIN list : list[i] = e)

InCalendar(e, p) == \E i \in Position : e \in ToSet(cal[p][i])
InNow(e, p)      == e \in ToSet(now[p])
Registered(e)    == \E p \in Phase : InCalendar(e, p) \/ InNow(e, p)

Init ==
  /\ cal = [p \in Phase |-> [i \in Position |-> <<>>]]
  /\ now = [p \in Phase |-> <<>>]
  /\ each = [p \in Phase |-> <<>>]
  /\ time = [e \in Event |-> None]
  /\ wanted = [e \in Event |-> None]
  /\ SimTime = 0
  /\ TimeType = None
  /\ pc = "idle"
  /\ pos = 0 /\ endMark = 0
  /\ nSlots = 0 /\ nDots = 0 /\ nextDot = 0 /\ dotsPerLine = 0
  /\ SimStopCommand = FALSE
  /\ active = None
  /\ target = 0
  /\ owed = {}

-----------------------------------------------------------------------------
(***************************************************************************)
(* Calls of the network objects: from a handler, or from the script        *)
(* between two runs.                                                       *)
(***************************************************************************)

Callable == pc = "idle" \/ active # None

(* Leaving sim::run: its local variables are gone.                         *)
LeaveRun ==
  /\ pc' = "idle"
  /\ pos' = 0 /\ endMark' = 0
  /\ nSlots' = 0 /\ nDots' = 0 /\ nextDot' = 0 /\ dotsPerLine' = 0
  /\ active' = None
  /\ target' = 0
  /\ owed' = {}

(* An error routine (errm0, errm1s, ...) raises a Lua error, which unwinds *)
(* sim::run: whatever the run had not done yet is not done.  Requests that *)
(* are left in a detached list are lost.                                   *)
RaiseError ==
  /\ LeaveRun
  /\ wanted' = [e \in Event |-> IF \E p \in Phase : InNow(e, p) THEN None
                                                               ELSE wanted[e]]
  /\ UNCHANGED <<cal, now, time, each, clock, SimStopCommand>>

(* Mutant of MayRegister: a delay of 0 is allowed everywhere.              *)
MayRegisterNow(p, e, d) == ~ Registered(e)

(* What check_evt demands of a registration when the kernel is built with  *)
(* EVENT_DEBUG: the event is not in use, and a delay of 0 is asked for     *)
(* only between runs or, in an early phase, for the late phase of the same *)
(* slot.  The objects keep to it in every build.                           *)
MayRegister(p, e, d) ==
  /\ ~ Registered(e)
  /\ d = 0 => pc = "idle" \/ (TimeType = EARLY /\ p = LATE)

(* alarme(e, d) and alarml(e, d).  Word bounds the time of a request.      *)
Alarm(p, e, d) ==
  /\ Callable
  /\ MayRegister(p, e, d)
  /\ SimTime + d < Word
  /\ time' = [time EXCEPT ![e] = SimTime + d]
  /\ wanted' = [wanted EXCEPT ![e] = p]
  /\ cal' = [cal EXCEPT ![p][Hash(SimTime + d)] = Cons(e, @)]
  /\ UNCHANGED <<now, each, clock, loop, SimStopCommand>>

(* unalarme(e) and unalarml(e).  The list of the hash position is searched *)
(* first, then the detached one; an event found in neither, or asked for   *)
(* an earlier slot, is an error.                                           *)
Unalarm(p, e) ==
  /\ Callable
  /\ time[e] # None
  /\ LET h == Hash(time[e]) IN
     \/ /\ time[e] >= SimTime
        /\ e \in ToSet(cal[p][h])
        /\ cal' = [cal EXCEPT ![p][h] = Del(@, e)]
        /\ wanted' = [wanted EXCEPT ![e] = None]
        /\ UNCHANGED <<now, time, each, clock, loop, SimStopCommand>>
     \/ /\ time[e] >= SimTime
        /\ e \notin ToSet(cal[p][h])
        /\ InNow(e, p)
        /\ now' = [now EXCEPT ![p] = Del(@, e)]
        /\ wanted' = [wanted EXCEPT ![e] = None]
        /\ UNCHANGED <<cal, time, each, clock, loop, SimStopCommand>>
     \/ /\ \/ time[e] < SimTime
           \/ e \notin ToSet(cal[p][h]) /\ ~ InNow(e, p)
        /\ RaiseError

(* Mutant of Each: the object is added at the end of the list.             *)
EachAtEnd(p, e) ==
  /\ Callable
  /\ \A q \in Phase : e \notin ToSet(each[q])
  /\ each' = [each EXCEPT ![p] = Append(@, e)]
  /\ UNCHANGED <<calendar, clock, loop, SimStopCommand>>

(* eache(e) and eachl(e): activation in every slot from now on.            *)
Each(p, e) ==
  /\ Callable
  /\ \A q \in Phase : e \notin ToSet(each[q])
  /\ each' = [each EXCEPT ![p] = Cons(e, @)]
  /\ UNCHANGED <<calendar, clock, loop, SimStopCommand>>

(* sim::stop                                                               *)
Stop ==
  /\ Callable
  /\ SimStopCommand' = TRUE
  /\ UNCHANGED <<registry, clock, pc, run, active, target, owed>>

(* A handler runs into an error of its own.                                *)
HandlerFails ==
  /\ active # None
  /\ RaiseError

(* ResetTime: every registered event keeps its distance to the clock.  The *)
(* list of a hash position is moved as a whole, to the position its first  *)
(* event now belongs to; a list moved later would replace one moved there  *)
(* earlier.                                                                *)
Moved(p) ==
  [j \in Position |->
     LET from == {i \in Position : /\ cal[p][i] # <<>>
                                  /\ Hash(time[Head(cal[p][i])] - SimTime) = j}
     IN IF from = {} THEN <<>> ELSE cal[p][Max(from)]]

ResetTime ==
  /\ pc = "idle"
  /\ time' = [e \in Event |-> IF \E p \in Phase : InCalendar(e, p)
                               THEN (time[e] - SimTime) % Word
                               ELSE time[e]]
  /\ cal' = [p \in Phase |-> Moved(p)]
  /\ SimTime' = 0
  /\ UNCHANGED <<now, wanted, each, TimeType, loop, SimStopCommand>>

(* flushevents, called by sim:reset between runs.                          *)
Flush ==
  /\ pc = "idle"
  /\ cal' = [p \in Phase |-> [i \in Position |-> <<>>]]
  /\ now' = [p \in Phase |-> <<>>]
  /\ each' = [p \in Phase |-> <<>>]
  /\ wanted' = [e \in Event |-> None]
  /\ UNCHANGED <<time, clock, loop, SimStopCommand>>

-----------------------------------------------------------------------------
(***************************************************************************)
(* sim::run                                                                *)
(***************************************************************************)

(* sim::run(slots, dots).                                                  *)
Run(slots, dots) ==
  /\ pc = "idle"
  /\ pc' = "segment"
  /\ nSlots' = slots
  /\ nDots' = dots
  /\ nextDot' = slots - dots
  /\ dotsPerLine' = 0
  /\ SimStopCommand' = FALSE
  /\ target' = SimTime + slots
  /\ UNCHANGED <<registry, clock, pos, endMark, active, owed>>

(* sim::run(slots).                                                        *)
RunDefault(slots) == Run(slots, slots - 1)

(* Mutant of Segment: starting at the first hash position whatever the     *)
(* time is.                                                                *)
SegmentFromStart ==
  /\ pc = "segment"
  /\ nSlots > 0
  /\ ~ SimStopCommand
  /\ pc' = "slot"
  /\ pos' = 0
  /\ IF nSlots > TimeLen
       THEN endMark' = TimeLen /\ nSlots' = nSlots - TimeLen
       ELSE endMark' = nSlots /\ nSlots' = 0
  /\ UNCHANGED <<registry, clock, nDots, nextDot, dotsPerLine,
                 SimStopCommand, active, target, owed>>

(* The range of the calendar to go through next: to its end at most.  Only *)
(* here is SimStopCommand looked at.                                       *)
Segment ==
  /\ pc = "segment"
  /\ nSlots > 0
  /\ ~ SimStopCommand
  /\ pc' = "slot"
  /\ LET start == Hash(SimTime)
         room  == TimeLen - start
     IN /\ pos' = start
        /\ IF nSlots > room
             THEN endMark' = start + room /\ nSlots' = nSlots - room
             ELSE endMark' = start + nSlots /\ nSlots' = 0
  /\ UNCHANGED <<registry, clock, nDots, nextDot, dotsPerLine,
                 SimStopCommand, active, target, owed>>

(* Mutant of Detach: the list is left in the calendar as well.             *)
DetachAndKeep(p) ==
  /\ now' = [now EXCEPT ![p] = cal[p][pos]]
  /\ UNCHANGED cal

(* Take the list of the present hash position off the calendar.            *)
Detach(p) ==
  /\ now' = [now EXCEPT ![p] = cal[p][pos]]
  /\ cal' = [cal EXCEPT ![p][pos] = <<>>]

(* Mutant of BeginSlot: late_now is loaded together with early_now.        *)
BeginSlotBoth ==
  /\ pc = "slot"
  /\ pos < endMark
  /\ TimeType' = EARLY
  /\ now' = [p \in Phase |-> cal[p][pos]]
  /\ cal' = [p \in Phase |-> [cal[p] EXCEPT ![pos] = <<>>]]
  /\ pc' = "evt"
  /\ UNCHANGED <<time, wanted, each, SimTime, run, SimStopCommand, active,
                 target, owed>>

BeginSlot ==
  /\ pc = "slot"
  /\ pos < endMark
  /\ TimeType' = EARLY
  /\ Detach(EARLY)
  /\ pc' = "evt"
  /\ UNCHANGED <<time, wanted, each, SimTime, run, SimStopCommand, active,
                 target, owed>>

(* Mutant of Pop: an event that is not due is not put back.                *)
PopDropsOthers ==
  /\ pc = "evt"
  /\ active = None
  /\ now[TimeType] # <<>>
  /\ now' = [now EXCEPT ![TimeType] = Tail(@)]
  /\ LET e == Head(now[TimeType]) IN
     IF time[e] = SimTime
       THEN active' = e /\ wanted' = [wanted EXCEPT ![e] = None]
       ELSE UNCHANGED <<active, wanted>>
  /\ UNCHANGED <<cal, time, each, clock, pc, run, SimStopCommand, target, owed>>

(* The next event of the detached list: it is activated if it is due, put  *)
(* back otherwise.                                                         *)
Pop ==
  /\ pc = "evt"
  /\ active = None
  /\ now[TimeType] # <<>>
  /\ now' = [now EXCEPT ![TimeType] = Tail(@)]
  /\ LET e == Head(now[TimeType]) IN
     IF time[e] = SimTime
       THEN /\ active' = e
            /\ wanted' = [wanted EXCEPT ![e] = None]
            /\ UNCHANGED cal
       ELSE /\ cal' = [cal EXCEPT ![TimeType][pos] = Cons(e, @)]
            /\ UNCHANGED <<active, wanted>>
  /\ UNCHANGED <<time, each, clock, pc, run, SimStopCommand, target, owed>>

Return ==
  /\ pc = "evt"
  /\ active # None
  /\ active' = None
  /\ UNCHANGED <<registry, clock, pc, run, SimStopCommand, target, owed>>

(* The list is used up: on to the objects activated in every slot.         *)
EnterEach ==
  /\ pc = "evt"
  /\ active = None
  /\ now[TimeType] = <<>>
  /\ LET list == each[TimeType] IN
     IF list = <<>>
       THEN pc' = "phaseEnd" /\ UNCHANGED <<active, owed>>
       ELSE /\ pc' = "each"
            /\ active' = Head(list)
            /\ owed' = ToSet(Tail(list))
  /\ UNCHANGED <<registry, clock, run, SimStopCommand, target>>

(* p = p->next, read after the handler of p has returned.                  *)
EachNext ==
  /\ pc = "each"
  /\ LET list == each[TimeType]
         k    == CHOOSE i \in DOMAIN list : list[i] = active
     IN IF k = Len(list)
          THEN /\ pc' = "phaseEnd"
               /\ active' = None
               /\ UNCHANGED owed
          ELSE /\ active' = list[k + 1]
               /\ owed' = owed \ {list[k + 1]}
               /\ UNCHANGED pc
  /\ UNCHANGED <<registry, clock, run, SimStopCommand, target>>

(* late_now is loaded only now: otherwise alarml(e, 0) in the early phase  *)
(* would come too late.                                                    *)
EnterLate ==
  /\ pc = "phaseEnd"
  /\ TimeType = EARLY
  /\ TimeType' = LATE
  /\ Detach(LATE)
  /\ pc' = "evt"
  /\ UNCHANGED <<time, wanted, each, SimTime, run, SimStopCommand, active,
                 target, owed>>

(* The clock advances; when it wraps, the run ends with an error.          *)
NextSlot ==
  /\ pc = "phaseEnd"
  /\ TimeType = LATE
  /\ SimTime' = (SimTime + 1) % Word
  /\ IF SimTime' = 0
       THEN LeaveRun
       ELSE /\ pc' = "slot"
            /\ pos' = pos + 1
            /\ UNCHANGED <<endMark, nSlots, nDots, nextDot, dotsPerLine,
                           active, target, owed>>
  /\ UNCHANGED <<registry, TimeType, SimStopCommand>>

EndSegment ==
  /\ pc = "slot"
  /\ pos >= endMark
  /\ pc' = "dots"
  /\ UNCHANGED <<registry, clock, run, SimStopCommand, active, target,
                 owed>>

(* Mutants of Dot: the line is never ended; the dots done are not counted. *)
DotNoLineEnd ==
  /\ pc = "dots"
  /\ nSlots <= nextDot
  /\ nextDot' = nextDot - nDots
  /\ dotsPerLine' = dotsPerLine + 1
  /\ UNCHANGED <<registry, clock, pc, pos, endMark, nSlots, nDots,
                 SimStopCommand, active, target, owed>>

DotNotCounted ==
  /\ pc = "dots"
  /\ nSlots <= nextDot
  /\ dotsPerLine' = (dotsPerLine + 1) % LineLen
  /\ UNCHANGED <<registry, clock, pc, pos, endMark, nSlots, nDots, nextDot,
                 SimStopCommand, active, target, owed>>

(* One dot is printed for each nDots slots done.                           *)
Dot ==
  /\ pc = "dots"
  /\ nSlots <= nextDot
  /\ nextDot' = nextDot - nDots
  /\ dotsPerLine' = (dotsPerLine + 1) % LineLen
  /\ UNCHANGED <<registry, clock, pc, pos, endMark, nSlots, nDots,
                 SimStopCommand, active, target, owed>>

DotsDone ==
  /\ pc = "dots"
  /\ nSlots > nextDot
  /\ pc' = "segment"
  /\ UNCHANGED <<registry, clock, run, SimStopCommand, active, target,
                 owed>>

EndRun ==
  /\ pc = "segment"
  /\ nSlots <= 0 \/ SimStopCommand
  /\ SimStopCommand' = FALSE
  /\ LeaveRun
  /\ UNCHANGED <<registry, clock>>

-----------------------------------------------------------------------------
Call ==
  \/ \E p \in Phase, e \in Event, d \in Delay : Alarm(p, e, d)
  \/ \E p \in Phase, e \in Event : Unalarm(p, e)
  \/ \E p \in Phase, e \in EachEvent : Each(p, e)
  \/ Stop \/ ResetTime \/ Flush
  \/ \E s \in Slots, d \in Dots : Run(s, d)
  \/ \E s \in Slots : RunDefault(s)

RunStep ==
  \/ Segment \/ BeginSlot \/ Pop \/ Return \/ EnterEach \/ EachNext
  \/ EnterLate \/ NextSlot \/ EndSegment \/ Dot \/ DotsDone \/ EndRun

Next == Call \/ HandlerFails \/ RunStep

Spec == Init /\ [][Next]_vars

(* A run is a loop of one thread, and every handler returns: its steps are *)
(* taken.  Nothing makes a script start a run or a handler make a call.    *)
FairSpec == Spec /\ WF_vars(RunStep)
-----------------------------------------------------------------------------
(***************************************************************************)
(* Correctness                                                             *)
(***************************************************************************)

SlotPC == {"evt", "each", "phaseEnd"}     \* inside a slot

(* The values the kernel's variables can take.                             *)
TypeOK ==
  /\ cal \in [Phase -> [Position -> Seq(Event)]]
  /\ now \in [Phase -> Seq(Event)]
  /\ each \in [Phase -> Seq(EachEvent)]
  /\ time \in [Event -> 0 .. Word - 1 \cup {None}]
  /\ wanted \in [Event -> Phase \cup {None}]
  /\ SimTime \in 0 .. Word - 1
  /\ TimeType \in Phase \cup {None}
  /\ pc \in {"idle", "segment", "slot", "dots"} \cup SlotPC
  /\ pc \in SlotPC => TimeType \in Phase
  /\ pos \in Nat /\ endMark \in Nat
  /\ nSlots \in Nat /\ nDots \in Int /\ nextDot \in Int
  /\ dotsPerLine \in 0 .. LineLen - 1
  /\ SimStopCommand \in BOOLEAN
  /\ active \in Event \cup EachEvent \cup {None}
  /\ target \in Nat
  /\ owed \subseteq EachEvent

(* Every event of the calendar is at the hash position of its activation   *)
(* time: unalarme searches it there only, sim::run looks for it there      *)
(* only, and ResetTime moves whole lists relying on it.                    *)
Placed ==
  /\ \A p \in Phase, i \in Position : \A e \in ToSet(cal[p][i]) :
       time[e] # None /\ Hash(time[e]) = i
  /\ pc = "evt" => \A e \in ToSet(now[TimeType]) :
       time[e] # None /\ Hash(time[e]) = pos

(* An event is in one list at most, and there once: no activation happens  *)
(* twice, and del_evt leaves no second entry behind.                       *)
NoDuplicate ==
  /\ \A p \in Phase :
       /\ IsInjective(now[p])
       /\ \A i \in Position : IsInjective(cal[p][i])
  /\ \A p, q \in Phase, i, j \in Position :
       <<p, i>> # <<q, j>> => ToSet(cal[p][i]) \cap ToSet(cal[q][j]) = {}
  /\ \A p, q \in Phase, i \in Position :
       ToSet(cal[p][i]) \cap ToSet(now[q]) = {}
  /\ ToSet(now[EARLY]) \cap ToSet(now[LATE]) = {}

(* An event is listed once, where it is searched.                          *)
Listed == Placed /\ NoDuplicate

(* Whether phase p of the slot SimTime is still to be entered.             *)
ToCome(p) == pc \in SlotPC => p = LATE /\ TimeType = EARLY

(* No activation is missed: an event in the calendar waits for a phase     *)
(* that is still to come, however many later and hashed-alike events share *)
(* its list.  (The error "event list inconsistent" of ResetTime cannot     *)
(* happen.)                                                                *)
NoneMissed ==
  /\ \A p \in Phase, i \in Position : \A e \in ToSet(cal[p][i]) :
       time[e] >= SimTime /\ (time[e] = SimTime => ToCome(p))
  /\ pc = "evt" => \A e \in ToSet(now[TimeType]) : time[e] >= SimTime

(* The walk over the calendar keeps step with the clock, across the end of *)
(* the calendar and across runs of any length, and it stays in the array.  *)
InStep ==
  /\ pc \in SlotPC \/ (pc = "slot" /\ pos < endMark) => pos = Hash(SimTime)
  /\ pc \in SlotPC => pos < endMark
  /\ endMark <= TimeLen

(* A run simulates the number of slots it was asked for, unless it is      *)
(* stopped, fails or the clock wraps.                                      *)
RunLength ==
  /\ pc \in {"segment", "dots"} => SimTime + nSlots = target
  /\ pc \in {"slot"} \cup SlotPC =>
       SimTime + (endMark - pos) + nSlots = target

(* Every slot of the run is walked over, at its own position and once.      *)
WalkExact == InStep /\ RunLength

(* In each phase every object registered with eache or eachl before it is  *)
(* activated once, and none that registers meanwhile.                      *)
EachServedOnce ==
  /\ pc = "each" => \E k \in DOMAIN each[TimeType] :
       /\ each[TimeType][k] = active
       /\ owed = {each[TimeType][i] : i \in k + 1 .. Len(each[TimeType])}
  /\ pc = "phaseEnd" => owed = {}

(* A request that stands is in the calendar, or in the list being gone     *)
(* through, and nothing else is there: none is forgotten, and none comes   *)
(* back.                                                                   *)
Waiting(e, p) == InCalendar(e, p) \/ (pc = "evt" /\ TimeType = p /\ InNow(e, p))

NoneForgotten ==
  \A e \in Event, p \in Phase : wanted[e] = p <=> Waiting(e, p)

(* The calendar queue keeps the promise of module Activation.              *)
Due  == [e \in Event |-> IF wanted[e] = None THEN None
                         ELSE [time |-> time[e], phase |-> wanted[e]]]
Half == IF pc \in SlotPC THEN TimeType ELSE EARLY

Promise == INSTANCE Activation WITH due <- Due, clock <- SimTime, half <- Half

KeepsPromise == Promise!ASpec

(* A run comes to an end, whatever the handlers do.                        *)
RunTerminates == pc # "idle" ~> pc = "idle"

(* "write outstanding dots if DOTS != 0" (src/kernel/sim.c:543): if DOTS is *)
(* 0, no dots are outstanding and the loop that writes them is left.       *)
NoDotsWanted == (pc = "dots" /\ nDots = 0) ~> pc = "segment"
=============================================================================
