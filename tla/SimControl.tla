----------------------------- MODULE SimControl -----------------------------
(***************************************************************************)
(* How a simulation is controlled: sim:run, sim:stop and sim:reset of      *)
(* src/yats/core.lua, and the run controller of the GUI,                   *)
(* src/yats/gui/runctrl.lua.                                               *)
(*                                                                         *)
(* The script of the user runs in a coroutine.  sim:run gives the kernel   *)
(* delta slots at a time and yields after each piece; the controller       *)
(* resumes the coroutine as long as it is in state "RUN".  In every piece  *)
(* the kernel lets the GUI handle its events: the user may press Go/Stop   *)
(* or Reset, which leaves a command in a mailbox of one place.             *)
(*                                                                         *)
(* Objects are not deleted when a simulation is reset: they become garbage *)
(* and are deleted by a later sim:run.  From its creation on an object has *)
(* events registered with the kernel, until a reset flushes them.  The     *)
(* script may ask for a reset that does not: sim:reset(true).              *)
(***************************************************************************)
EXTENDS Integers, FiniteSets

CONSTANTS
  delta,                \* yats.deltaSlot, slots of a piece
  Lengths,              \* arguments of sim:run
  MaxRuns,              \* bound on the calls of sim:run in a script
  MaxObjects,           \* bound on the number of objects created
  Names,                \* names of objects
  None

ASSUME LengthAssumption == delta \in Nat \ {0} /\ Lengths \subseteq Nat
ASSUME BoundAssumption  == MaxRuns \in Nat /\ MaxObjects \in Nat
ASSUME NoneAssumption   == None \notin {"cmd_go", "cmd_reset"}

VARIABLES
  state,                \* of the controller
  active,               \* runSimulation() is being executed
  command,              \* the mailbox
  script,               \* where the coroutine is: "none", "code" (of the
                        \* user), "piece" (in the kernel) or "yielded"
  controls,             \* what the menu offers: "start" or "stop" and reset
  slots, curslot,       \* argument and variable of sim:run
  connected,
  objectlist,           \* objects of the present simulation
  cur, last,            \* garbage.cur and garbage.last
  pending,              \* objects that have events registered
  \* history
  created,              \* number of objects created
  unflushed,            \* objects reset with their events kept, and events
                        \* not flushed since
  observed,             \* objects of the last call of sim:run
  deleted,              \* objects deleted
  runs,                 \* calls of sim:run
  simulated,            \* slots simulated by the present call
  stopped               \* sim:stop was called in the present call

objects == <<objectlist, cur, last, pending, created, unflushed, observed, deleted>>
loop    == <<slots, curslot, runs, simulated, stopped>>
vars    == <<state, active, command, script, connected, controls, objects, loop>>

(* An object is identified by its number in the order of creation; the     *)
(* lists of objects are indexed by its name.                               *)
Object  == [id : 1 .. MaxObjects, name : Names]
Named(n, S) == \E o \in S : o.name = n

-----------------------------------------------------------------------------
Init ==
  /\ state = "IDLE" /\ active = FALSE
  /\ command = None
  /\ script = "none" /\ controls = "start"
  /\ slots = 0 /\ curslot = 0
  /\ connected = FALSE
  /\ objectlist = {} /\ cur = {} /\ last = {} /\ pending = {}
  /\ created = 0 /\ unflushed = {} /\ observed = {} /\ deleted = {}
  /\ runs = 0 /\ simulated = 0 /\ stopped = FALSE

(* garbage:put for each object: it takes the place of one of its name.     *)
pushgarbage ==
  /\ cur' = {o \in cur : ~ Named(o.name, objectlist)} \cup objectlist
  /\ objectlist' = {}

(* Mutant of reset: the argument is ignored, events are never flushed.     *)
resetNoFlush(noFlush) ==
  /\ connected' = FALSE
  /\ unflushed' = IF noFlush THEN unflushed \cup objectlist ELSE {}
  /\ pushgarbage
  /\ UNCHANGED <<pending, last, created, observed, deleted>>

(* sim:reset: all events are flushed unless the caller asks to keep them;  *)
(* the objects become garbage in either case.                              *)
reset(noFlush) ==
  /\ connected' = FALSE
  /\ pending' = IF noFlush THEN pending ELSE {}
  /\ unflushed' = IF noFlush THEN unflushed \cup objectlist ELSE {}
  /\ pushgarbage
  /\ UNCHANGED <<last, created, observed, deleted>>

(* Mutant of deletegarbage: the garbage of one generation only.            *)
deleteAllGarbage ==
  /\ deleted' = deleted \cup last \cup cur
  /\ last' = {}
  /\ cur' = {}

(* sim:deletegarbage: the last garbage is deleted, the current one becomes *)
(* the last one.                                                           *)
deletegarbage ==
  /\ deleted' = deleted \cup last
  /\ last' = cur
  /\ cur' = {}

-----------------------------------------------------------------------------
(* The user's script.                                                      *)

InScript == state = "RUN" /\ script = "code"

(* An object is created; its constructor registers events.  Creating a     *)
(* second one of a name is an error of the script.                         *)
create(n) ==
  /\ InScript
  /\ ~ Named(n, objectlist)
  /\ created < MaxObjects
  /\ created' = created + 1
  /\ LET o == [id |-> created', name |-> n]
     IN objectlist' = objectlist \cup {o} /\ pending' = pending \cup {o}
  /\ UNCHANGED <<state, active, command, script, controls, connected, cur, last,
                 unflushed, observed, deleted, loop>>

scriptReset(noFlush) ==
  /\ InScript
  /\ reset(noFlush)
  /\ UNCHANGED <<state, active, command, script, controls, loop>>

(* sim:run, up to its loop; it returns at once if there is nothing to do.  *)
run(n) ==
  /\ InScript
  /\ runs < MaxRuns
  /\ runs' = runs + 1
  /\ deletegarbage
  /\ connected' = TRUE
  /\ observed' = objectlist
  /\ slots' = n /\ curslot' = 0 /\ simulated' = 0 /\ stopped' = FALSE
  /\ script' = IF n > 0 THEN "piece" ELSE "code"
  /\ UNCHANGED <<state, active, command, controls, objectlist, pending, created,
                 unflushed>>

(* A handler calls sim:stop.                                               *)
stop ==
  /\ script = "piece"
  /\ stopped' = TRUE
  /\ UNCHANGED <<state, active, command, script, controls, connected, objects,
                 slots, curslot, runs, simulated>>

(* Mutant of pieceEnds: the command is taken for the next state.           *)
pieceEndsByName(k) ==
  /\ script = "piece"
  /\ k = delta \/ stopped
  /\ simulated' = simulated + k
  /\ script' = "yielded"
  /\ command' = None
  /\ state' = IF command = None THEN "RUN" ELSE command
  /\ controls' = IF command = None THEN controls ELSE "start"
  /\ UNCHANGED <<active, connected, objects, slots, curslot, runs, stopped>>

(* Mutant of pieceEnds: the command is left in the mailbox.                *)
pieceEndsUnseen(k) ==
  /\ script = "piece"
  /\ k = delta \/ stopped
  /\ simulated' = simulated + k
  /\ script' = "yielded"
  /\ UNCHANGED <<state, active, command, controls, connected, objects, slots,
                 curslot, runs, stopped>>

(* The kernel has simulated a piece, or what is left of its segment if it  *)
(* was stopped: sim:run takes the command and yields, the controller acts. *)
pieceEnds(k) ==
  /\ script = "piece"
  /\ k = delta \/ stopped
  /\ simulated' = simulated + k
  /\ script' = "yielded"
  /\ command' = None
  /\ state' = CASE command = "cmd_go"    -> "PAUSE"
                [] command = "cmd_reset" -> "RESET"
                [] OTHER                 -> "RUN"
  /\ controls' = IF command = None THEN controls ELSE "start"
  /\ UNCHANGED <<active, connected, objects, slots, curslot, runs, stopped>>

(* Mutant of resume: the piece is repeated after a refused reset.          *)
resumeSamePiece ==
  /\ state = "RUN" /\ script = "yielded"
  /\ curslot' = IF controls = "start" THEN curslot ELSE curslot + delta
  /\ script' = IF curslot' < slots THEN "piece" ELSE "code"
  /\ UNCHANGED <<state, active, command, controls, connected, objects, slots,
                 runs, simulated, stopped>>

(* The controller resumes the coroutine.                                   *)
resume ==
  /\ state = "RUN" /\ script = "yielded"
  /\ curslot' = curslot + delta
  /\ script' = IF curslot' < slots THEN "piece" ELSE "code"
  /\ UNCHANGED <<state, active, command, controls, connected, objects, slots,
                 runs, simulated, stopped>>

(* The script returns.  The controller cannot tell what it returns from    *)
(* what sim:run yields: it goes on running, pauses or resets a script that *)
(* has come to its end.                                                    *)
scriptEnds(result) ==
  /\ InScript
  /\ script' = "none"
  /\ state' = CASE result = "continue" -> "RUN"
                [] result = "pause"    -> "PAUSE"
                [] result = "reset"    -> "RESET"
                [] OTHER               -> "FINISH"
  /\ controls' = IF result = "continue" THEN controls ELSE "start"
  /\ UNCHANGED <<active, command, connected, objects, loop>>

(* There is no script any more to be resumed.                              *)
Dead == state = "RUN" /\ script = "none"

(* An error in the script or in a handler, or that of resuming a script    *)
(* that has ended, is raised again by the controller: what follows error() *)
(* in state "ERROR" is never reached.                                      *)
scriptFails ==
  /\ InScript \/ script = "piece" \/ Dead
  /\ script' = "none"
  /\ state' = "ERROR"
  /\ active' = FALSE
  /\ UNCHANGED <<command, controls, connected, objects, loop>>

-----------------------------------------------------------------------------
(* The other states of the controller.                                     *)

paused ==
  /\ state = "PAUSE" /\ command # None
  /\ command' = None
  /\ IF command = "cmd_go" THEN state' = "RUN" /\ controls' = "stop"
                           ELSE UNCHANGED <<state, controls>>
  /\ UNCHANGED <<active, script, connected, objects, loop>>

(* The user is asked whether to reset.                                     *)
resetYes ==
  /\ state = "RESET"
  /\ reset(FALSE)
  /\ state' = "IDLE" /\ active' = FALSE
  /\ script' = "none"
  /\ UNCHANGED <<command, controls, loop>>

resetNo ==
  /\ state = "RESET"
  /\ state' = "RUN"
  /\ UNCHANGED <<active, command, script, controls, connected, objects, loop>>

finish ==
  /\ state = "FINISH"
  /\ state' = "IDLE" /\ active' = FALSE
  /\ UNCHANGED <<command, script, controls, connected, objects, loop>>

-----------------------------------------------------------------------------
(* The GUI handles its events in its main loop, in a piece of simulation,  *)
(* in a pause, and once when the script has ended.                         *)
Polling == ~ active \/ script = "piece" \/ state \in {"PAUSE", "FINISH"}

(* runSimulation() starts a new script, after a reset.  The mailbox keeps  *)
(* what it has.                                                            *)
startSimulation ==
  /\ Polling /\ state = "IDLE"
  /\ state' = "RUN" /\ active' = TRUE
  /\ script' = "code"
  /\ controls' = "stop"
  /\ reset(FALSE)
  /\ runs' = 0 /\ slots' = 0 /\ curslot' = 0 /\ simulated' = 0
  /\ stopped' = FALSE
  /\ UNCHANGED command

pressGo ==
  /\ Polling /\ state # "IDLE"
  /\ command' = "cmd_go"
  /\ UNCHANGED <<state, active, script, controls, connected, objects, loop>>

pressReset ==
  /\ Polling /\ controls = "stop"
  /\ command' = "cmd_reset"
  /\ UNCHANGED <<state, active, script, controls, connected, objects, loop>>

-----------------------------------------------------------------------------
Kernel == \E k \in 1 .. delta : pieceEnds(k)

(* What a script may return, as far as the controller tells it apart.      *)
Ends == \E result \in {"continue", "pause", "reset", "value"} : scriptEnds(result)

Next ==
  \/ \E n \in Names : create(n)
  \/ \E noFlush \in BOOLEAN : scriptReset(noFlush)
  \/ stop
  \/ \E n \in Lengths : run(n)
  \/ Kernel
  \/ resume \/ Ends \/ scriptFails
  \/ paused \/ resetYes \/ resetNo \/ finish
  \/ startSimulation \/ pressGo \/ pressReset

Spec == Init /\ [][Next]_vars

(* The controller's loop goes on, and the script's own code comes to an    *)
(* end.  The user need not do anything.                                    *)
FairSpec ==
  Spec /\ WF_vars(Kernel) /\ WF_vars(resume) /\ WF_vars(Ends)
       /\ WF_vars(paused) /\ WF_vars(finish)

-----------------------------------------------------------------------------
(***************************************************************************)
(* Correctness                                                             *)
(***************************************************************************)

TypeOK ==
  /\ state \in {"IDLE", "RUN", "PAUSE", "RESET", "FINISH", "ERROR"}
  /\ active \in BOOLEAN /\ connected \in BOOLEAN /\ stopped \in BOOLEAN
  /\ command \in {None, "cmd_go", "cmd_reset"}
  /\ script \in {"none", "code", "piece", "yielded"}
  /\ controls \in {"start", "stop"}
  /\ {slots, curslot, simulated} \subseteq Nat
  /\ runs \in 0 .. MaxRuns /\ created \in 0 .. MaxObjects
  /\ \A o \in objectlist \cup cur \cup last \cup pending \cup unflushed \cup observed \cup deleted :
        o \in Object /\ o.id <= created

(* A deleted object is in no list of objects, and the kernel has events of *)
(* garbage, deleted or still to be deleted, only if the script asked for   *)
(* it: if the object was reset by sim:reset(true) and nothing has flushed  *)
(* the events since.                                                       *)
DeletedUnused ==
  /\ deleted \cap objectlist = {}
  /\ pending \cap (cur \cup last \cup deleted) \subseteq unflushed

(* "This allows the observation of object internals after a simulation run *)
(* has finished" (src/yats/core.lua:513): the objects of one sim:run are    *)
(* not deleted before nor by the next one, resets and new scripts between  *)
(* them notwithstanding.                                                   *)
Observable == [][deleted' \cap observed \subseteq deleted]_vars

(* Pauses and refused resets neither lose nor repeat a piece, and sim:run  *)
(* simulates the slots asked for, rounded up to whole pieces.              *)
RunLength ==
  ~ stopped /\ runs > 0 =>
    /\ script = "piece" => simulated = curslot /\ curslot < slots
    /\ script = "yielded" => simulated = curslot + delta
    /\ script = "code" => simulated - slots \in 0 .. delta - 1

(* A command the user gives while a piece is simulated takes effect: the   *)
(* simulation pauses or asks whether to reset, it does not go on to the    *)
(* end of the script.                                                      *)
Obeyed ==
  script = "piece" /\ command # None ~> state \in {"PAUSE", "RESET", "ERROR"}

(* "Stop Simulation (break running simulation loop (started by             *)
(* sim:run())" (src/yats/core.lua:486): after sim:stop the loop of sim:run *)
(* does not go on.                                                         *)
StopBreaks ==
  [][stopped /\ script = "yielded" => script' # "piece"]_vars
=============================================================================
