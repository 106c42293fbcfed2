-------------------------- MODULE SimControlProofs --------------------------
(***************************************************************************)
(* Proofs about the simulation control, for every length of a piece, every *)
(* set of arguments of sim:run and any number of objects and calls.        *)
(*                                                                         *)
(* Deletion is safe because an object is in one generation at a time:      *)
(* those that have events are listed, or were reset with their events      *)
(* kept, and what is listed is neither garbage nor deleted.                *)
(***************************************************************************)
EXTENDS SimControl, TLAPS

Generations ==
  /\ pending \subseteq objectlist \cup unflushed
  /\ objectlist \cap (cur \cup last \cup deleted) = {}
  /\ observed \cap last = {}

(* What is simulated before the loop of sim:run counts it.                 *)
Counted ==
  ~ stopped /\ runs > 0 =>
    /\ script \in {"piece", "yielded"} => curslot < slots
    /\ script = "piece" => simulated = curslot
    /\ script = "yielded" => simulated = curslot + delta
    /\ script = "code" => simulated - slots \in 0 .. delta - 1

IInv == TypeOK /\ Generations /\ Counted

-----------------------------------------------------------------------------
LEMMA InitInv == Init => IInv
<1> SUFFICES ASSUME Init PROVE IInv
  OBVIOUS
<1>1. Generations /\ Counted
  BY DEF Init, Generations, Counted
<1>2. /\ runs \in 0 .. MaxRuns /\ created \in 0 .. MaxObjects
      /\ {slots, curslot, simulated} \subseteq Nat
  BY BoundAssumption DEF Init
<1>3. objectlist \cup cur \cup last \cup pending \cup unflushed \cup observed \cup deleted = {}
  BY DEF Init
<1>4. TypeOK
  BY <1>2, <1>3 DEF Init, TypeOK
<1> QED
  BY <1>1, <1>4 DEF IInv

(* Objects become garbage: what was listed before is not listed any more.  *)
LEMMA ResetObjects ==
  ASSUME IInv, NEW noFlush \in BOOLEAN, reset(noFlush)
  PROVE  /\ Generations'
         /\ \A o \in objectlist' \cup cur' \cup last' \cup pending' \cup unflushed' \cup observed' \cup deleted' :
              o \in Object /\ o.id <= created'
         /\ created' = created /\ connected' \in BOOLEAN
  BY DEF IInv, TypeOK, Generations, reset, pushgarbage

(* The new object has a number none had before.                            *)
LEMMA CreateInv ==
  ASSUME IInv, NEW n \in Names, create(n)
  PROVE  IInv'
<1> DEFINE o == [id |-> created + 1, name |-> n]
<1>1. created + 1 \in 1 .. MaxObjects /\ created \in Nat
  BY BoundAssumption DEF IInv, TypeOK, create
<1>2. o \in Object /\ o.id = created + 1
  BY <1>1 DEF Object
<1>3. o \notin objectlist \cup cur \cup last \cup pending \cup unflushed \cup observed \cup deleted
  BY <1>1, <1>2 DEF IInv, TypeOK
<1>4. objectlist' = objectlist \cup {o} /\ pending' = pending \cup {o} /\ created' = created + 1
  BY DEF create
<1>5. UNCHANGED <<state, active, command, script, controls, connected, cur, last,
                  unflushed, observed, deleted, loop>>
  BY DEF create
<1>6. Generations'
  <2>1. pending' \subseteq objectlist' \cup unflushed'
    BY <1>4, <1>5 DEF IInv, Generations
  <2>2. objectlist' \cap (cur' \cup last' \cup deleted') = {}
    BY <1>3, <1>4, <1>5 DEF IInv, Generations
  <2>3. observed' \cap last' = {}
    BY <1>5 DEF IInv, Generations
  <2> QED
    BY <2>1, <2>2, <2>3 DEF Generations
<1>7. TypeOK'
  <2>1. \A p \in objectlist' \cup cur' \cup last' \cup pending' \cup unflushed' \cup observed' \cup deleted' :
          p \in Object /\ p.id <= created'
    <3> SUFFICES ASSUME NEW p \in objectlist' \cup cur' \cup last' \cup pending' \cup unflushed'
                                  \cup observed' \cup deleted'
                 PROVE  p \in Object /\ p.id <= created'
      OBVIOUS
    <3>1. p = o \/ p \in objectlist \cup cur \cup last \cup pending \cup unflushed \cup observed \cup deleted
      BY <1>4, <1>5
    <3>2. CASE p = o
      BY <1>1, <1>2, <1>4, <3>2
    <3>3. CASE p \in objectlist \cup cur \cup last \cup pending \cup unflushed \cup observed \cup deleted
      <4>1. p \in Object /\ p.id <= created
        BY <3>3 DEF IInv, TypeOK
      <4> QED
        BY <1>1, <1>4, <4>1 DEF Object
    <3> QED
      BY <3>1, <3>2, <3>3
  <2> QED
    BY <1>1, <1>4, <1>5, <2>1, BoundAssumption DEF IInv, TypeOK, loop
<1>8. Counted'
  BY <1>5 DEF IInv, Counted, loop
<1> QED
  BY <1>6, <1>7, <1>8 DEF IInv

(* The present garbage is out of the way of what is simulated.             *)
LEMMA RunInv ==
  ASSUME IInv, NEW n \in Lengths, run(n)
  PROVE  IInv'
<1>1. n \in Nat /\ runs + 1 \in 0 .. MaxRuns
  BY LengthAssumption, BoundAssumption DEF IInv, TypeOK, run
<1>2. Generations'
  BY DEF IInv, Generations, run, deletegarbage
<1>3. TypeOK'
  <2>1. \A o \in objectlist' \cup cur' \cup last' \cup pending' \cup unflushed' \cup observed' \cup deleted' :
          o \in Object /\ o.id <= created'
    BY DEF IInv, TypeOK, run, deletegarbage
  <2>2. runs' \in 0 .. MaxRuns /\ {slots', curslot', simulated'} \subseteq Nat
    BY <1>1 DEF run
  <2>3. script' \in {"piece", "code"} /\ connected' = TRUE /\ stopped' = FALSE
    BY DEF run
  <2>4. UNCHANGED <<state, active, command, controls, created>>
    BY DEF run
  <2> QED
    BY <2>1, <2>2, <2>3, <2>4 DEF IInv, TypeOK
<1>4. Counted'
  BY <1>1, LengthAssumption DEF Counted, run
<1> QED
  BY <1>2, <1>3, <1>4 DEF IInv

(* Steps that leave the objects alone.                                     *)
LEMMA SameObjects ==
  ASSUME IInv, UNCHANGED objects
  PROVE  /\ Generations'
         /\ \A o \in objectlist' \cup cur' \cup last' \cup pending' \cup unflushed' \cup observed' \cup deleted' :
              o \in Object /\ o.id <= created'
         /\ created' \in 0 .. MaxObjects
  BY DEF IInv, TypeOK, Generations, objects

LEMMA LoopInv ==
  ASSUME IInv, stop \/ Kernel \/ resume
  PROVE  IInv'
<1>1. UNCHANGED objects
  BY DEF stop, Kernel, pieceEnds, resume
<1>2. CASE stop
  BY <1>1, <1>2, SameObjects DEF stop, IInv, TypeOK, Counted
<1>3. CASE Kernel
  <2>1. PICK k \in 1 .. delta : pieceEnds(k)
    BY <1>3 DEF Kernel
  <2>2. k \in Nat /\ simulated + k \in Nat
    BY <2>1, LengthAssumption DEF IInv, TypeOK
  <2>3. state' \in {"RUN", "PAUSE", "RESET"} /\ controls' \in {controls, "start"}
    BY <2>1 DEF pieceEnds
  <2>4. TypeOK'
    BY <1>1, <2>1, <2>2, <2>3, SameObjects DEF pieceEnds, IInv, TypeOK
  <2>5. Counted'
    BY <2>1, <2>2, LengthAssumption DEF pieceEnds, IInv, TypeOK, Counted
  <2> QED
    BY <1>1, <2>4, <2>5, SameObjects DEF IInv
<1>4. CASE resume
  <2>1. curslot + delta \in Nat /\ slots \in Nat /\ curslot \in Nat /\ delta \in Nat \ {0}
    BY LengthAssumption DEF IInv, TypeOK
  <2>2. TypeOK'
    BY <1>1, <1>4, <2>1, SameObjects DEF resume, IInv, TypeOK
  <2>3. Counted'
    BY <1>4, <2>1 DEF resume, IInv, TypeOK, Counted
  <2> QED
    BY <1>1, <2>2, <2>3, SameObjects DEF IInv
<1> QED
  BY <1>2, <1>3, <1>4

(* The controller's own steps and the user's.                              *)
LEMMA ControllerInv ==
  ASSUME IInv,
         Ends \/ scriptFails \/ paused \/ resetNo \/ finish \/ pressGo \/ pressReset
  PROVE  IInv'
<1>1. UNCHANGED <<objects, loop, connected>>
  BY DEF Ends, scriptEnds, scriptFails, paused, resetNo, finish, pressGo, pressReset
<1>2. script' \in {script, "none"} /\ active' \in BOOLEAN
  BY DEF IInv, TypeOK, Ends, scriptEnds, scriptFails, paused, resetNo, finish, pressGo, pressReset
<1>3. /\ state' \in {state, "IDLE", "RUN", "PAUSE", "RESET", "FINISH", "ERROR"}
      /\ command' \in {command, None, "cmd_go", "cmd_reset"}
      /\ controls' \in {controls, "start", "stop"}
  BY DEF Ends, scriptEnds, scriptFails, paused, resetNo, finish, pressGo, pressReset
<1>4. TypeOK'
  BY <1>1, <1>2, <1>3, SameObjects DEF IInv, TypeOK, loop
<1>5. Counted'
  BY <1>1, <1>2 DEF IInv, Counted, loop
<1> QED
  BY <1>1, <1>4, <1>5, SameObjects DEF IInv

LEMMA ResetInv ==
  ASSUME IInv, (\E noFlush \in BOOLEAN : scriptReset(noFlush)) \/ resetYes \/ startSimulation
  PROVE  IInv'
<1>1. PICK noFlush \in BOOLEAN : reset(noFlush)
  BY DEF scriptReset, resetYes, startSimulation
<1>2. /\ state' \in {state, "IDLE", "RUN"} /\ active' \in BOOLEAN
      /\ command' = command /\ script' \in {script, "none", "code"}
      /\ controls' \in {controls, "stop"}
  BY DEF IInv, TypeOK, scriptReset, resetYes, startSimulation
<1>3. \/ UNCHANGED loop /\ script' \in {script, "none"}
      \/ runs' = 0 /\ slots' = 0 /\ curslot' = 0 /\ simulated' = 0 /\ stopped' = FALSE
  BY DEF scriptReset, resetYes, startSimulation
<1>4. runs' \in 0 .. MaxRuns /\ {slots', curslot', simulated'} \subseteq Nat /\ stopped' \in BOOLEAN
  <2>1. CASE UNCHANGED loop
    BY <2>1 DEF IInv, TypeOK, loop
  <2>2. CASE runs' = 0 /\ slots' = 0 /\ curslot' = 0 /\ simulated' = 0 /\ stopped' = FALSE
    <3>1. 0 \in 0 .. MaxRuns
      BY BoundAssumption
    <3>2. {slots', curslot', simulated'} \subseteq Nat
      BY <2>2
    <3> QED
      BY <2>2, <3>1, <3>2
  <2> QED
    BY <1>3, <2>1, <2>2
<1>5. TypeOK'
  BY <1>1, <1>2, <1>4, ResetObjects DEF IInv, TypeOK
<1>6. Counted'
  BY <1>3 DEF IInv, Counted, loop
<1> QED
  BY <1>1, <1>5, <1>6, ResetObjects DEF IInv

LEMMA NextInv == IInv /\ [Next]_vars => IInv'
<1> SUFFICES ASSUME IInv, [Next]_vars PROVE IInv'
  OBVIOUS
<1>1. CASE \E n \in Names : create(n)
  BY <1>1, CreateInv
<1>2. CASE \E n \in Lengths : run(n)
  BY <1>2, RunInv
<1>3. CASE stop \/ Kernel \/ resume
  BY <1>3, LoopInv
<1>4. CASE Ends \/ scriptFails \/ paused \/ resetNo \/ finish \/ pressGo \/ pressReset
  BY <1>4, ControllerInv
<1>5. CASE (\E noFlush \in BOOLEAN : scriptReset(noFlush)) \/ resetYes \/ startSimulation
  BY <1>5, ResetInv
<1>6. CASE UNCHANGED vars
  BY <1>6, SameObjects DEF vars, objects, loop, IInv, TypeOK, Counted
<1> QED
  BY <1>1, <1>2, <1>3, <1>4, <1>5, <1>6 DEF Next

-----------------------------------------------------------------------------
THEOREM Invariance == Spec => []IInv
  BY InitInv, NextInv, PTL DEF Spec

(* The types, of every variable of the controller and of sim:run.          *)
THEOREM TypeCorrect == Spec => []TypeOK
<1>1. IInv => TypeOK
  BY DEF IInv
<1> QED
  BY <1>1, Invariance, PTL

(* Whatever is deleted is in no list of objects.  Garbage, deleted or not, *)
(* has events in the kernel only if sim:reset(true) kept them and none has *)
(* been flushed since.                                                     *)
THEOREM DeletedAreUnused == Spec => []DeletedUnused
<1>1. IInv => DeletedUnused
  BY DEF IInv, Generations, DeletedUnused
<1> QED
  BY <1>1, Invariance, PTL

(* sim:run simulates what it was asked for, in whole pieces, however often *)
(* it is paused or a reset is refused.                                     *)
THEOREM RunsWholePieces == Spec => []RunLength
<1>1. IInv => RunLength
  BY DEF IInv, Counted, RunLength
<1> QED
  BY <1>1, Invariance, PTL

(* The objects of a sim:run outlive the next call of sim:run.              *)
THEOREM RemainsObservable == Spec => Observable
<1>1. IInv /\ [Next]_vars => [deleted' \cap observed \subseteq deleted]_vars
  <2> SUFFICES ASSUME IInv, Next PROVE deleted' \cap observed \subseteq deleted
    OBVIOUS
  <2>1. CASE \E n \in Lengths : run(n)
    BY <2>1 DEF run, deletegarbage, IInv, Generations
  <2>2. CASE UNCHANGED deleted
    BY <2>2
  <2>3. (\E n \in Lengths : run(n)) \/ UNCHANGED deleted
    BY DEF Next, create, scriptReset, reset, stop, Kernel, pieceEnds, resume, Ends, scriptEnds,
           scriptFails, paused, resetYes, resetNo, finish, startSimulation, pressGo,
           pressReset, objects
  <2> QED
    BY <2>1, <2>2, <2>3
<1> QED
  BY <1>1, Invariance, PTL DEF Spec, Observable
=============================================================================
