----------------------------- MODULE Activation -----------------------------
(***************************************************************************)
(* What the event manager of the simulation kernel promises to the network *)
(* objects: an object asks to be activated in the early or in the late     *)
(* phase of some slot, may withdraw that request, and is activated exactly *)
(* in the slot and phase it asked for, once.  The calendar queue that      *)
(* keeps this promise is module EventManager.                              *)
(***************************************************************************)
EXTENDS Integers

CONSTANTS Event,      \* event structures of the network objects
          Word,       \* number of values of the simulation clock (tim_typ)
          None        \* no request

EARLY == "early"
LATE  == "late"
Phase == {EARLY, LATE}

VARIABLES due,        \* the request of each event: a slot and a phase, or None
          clock,      \* the slot being, or to be, simulated
          half        \* its phase

avars == <<due, clock, half>>

ATypeOK ==
  /\ due \in [Event -> [time : 0 .. Word - 1, phase : Phase] \cup {None}]
  /\ clock \in 0 .. Word - 1
  /\ half \in Phase

AInit ==
  /\ due = [e \in Event |-> None]
  /\ clock = 0
  /\ half = EARLY

(* An event that is not in use is requested for a slot to come or, as long *)
(* as its early phase lasts, for the present one.                          *)
Request(e) ==
  /\ due[e] = None
  /\ \E t \in clock .. Word - 1, p \in Phase :
       /\ t = clock => half = EARLY
       /\ due' = [due EXCEPT ![e] = [time |-> t, phase |-> p]]
  /\ UNCHANGED <<clock, half>>

Withdraw(e) ==
  /\ due[e] # None
  /\ due' = [due EXCEPT ![e] = None]
  /\ UNCHANGED <<clock, half>>

(* An activation happens in the requested slot and phase only, and uses up *)
(* the request.                                                            *)
Activate(e) ==
  /\ due[e] = [time |-> clock, phase |-> half]
  /\ due' = [due EXCEPT ![e] = None]
  /\ UNCHANGED <<clock, half>>

Served == \A e \in Event : due[e] # [time |-> clock, phase |-> half]

(* A phase ends when every request for it has been served.                 *)
EnterLate ==
  /\ half = EARLY
  /\ Served
  /\ half' = LATE
  /\ UNCHANGED <<due, clock>>

EnterNextSlot ==
  /\ half = LATE
  /\ Served
  /\ clock' = (clock + 1) % Word
  /\ half' = EARLY
  /\ UNCHANGED due

(* A failing activation ends the run.  Requests for the phase it happened  *)
(* in may be lost; those for the other phase are kept, and the slot is     *)
(* simulated again by the next run.                                        *)
Fail ==
  /\ half' = EARLY
  /\ \E lost \in SUBSET {e \in Event : due[e] # None /\ due[e].phase = half} :
       due' = [e \in Event |-> IF e \in lost THEN None ELSE due[e]]
  /\ UNCHANGED clock

(* The clock is set back to 0 and every request keeps its distance to it.  *)
Rebase ==
  /\ half = EARLY
  /\ due' = [e \in Event |->
               IF due[e] = None THEN None
               ELSE [due[e] EXCEPT !.time = @ - clock]]
  /\ clock' = 0
  /\ UNCHANGED half

Forget ==
  /\ due' = [e \in Event |-> None]
  /\ UNCHANGED <<clock, half>>

ANext ==
  \/ \E e \in Event : Request(e) \/ Withdraw(e) \/ Activate(e)
  \/ EnterLate \/ EnterNextSlot \/ Fail \/ Rebase \/ Forget

ASpec == AInit /\ [][ANext]_avars
=============================================================================
