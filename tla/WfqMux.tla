------------------------------- MODULE WfqMux -------------------------------
(***************************************************************************)
(* The multiplexer muxWFQ (src/muxdmx/wfqmux.c): a queue for each virtual  *)
(* connection (VC), and a sort queue of the VCs that have cells, in the    *)
(* order of the virtual time of their first cell.  Arrivals, slots and the *)
(* server's event are those of class mux (SlottedMux).                     *)
(*                                                                         *)
(* Cells of a VC differ in nothing, so that a queue is its length.         *)
(***************************************************************************)
EXTENDS Integers, Sequences, FiniteSets, SequencesExt

CONSTANTS
  VC,             \* the connections that addVCQ has set up
  Input,          \* inputs: one cell per slot and input at most
  delta,          \* of each VC: the inverse of its share of the output
  qsize,          \* of each VC: the limit of its queue
  spacTimeMax     \* spacTime is set back when it is larger than this

ASSUME QueueAssumption ==
  /\ IsFiniteSet(VC)
  /\ delta \in [VC -> Nat \ {0}] /\ qsize \in [VC -> Nat \ {0}]
ASSUME TimeAssumption == spacTimeMax \in Nat

VARIABLES
  inp_buff,       \* cells arrived in this slot: <<input, VC>>
  len,            \* length of the queue of each VC
  time,           \* virtual time of the first cell of each VC
  sortq,          \* the VCs that have cells
  spacTime,       \* virtual time of the last cell sent
  std_evt,        \* is early() registered?
  phase,          \* of the slot: "early" or "late"
  passed          \* history: cells of w sent while the first of v waited

wfq  == <<len, time, sortq, spacTime>>
vars == <<inp_buff, wfq, std_evt, phase, passed>>

Queued == ToSet(sortq)

-----------------------------------------------------------------------------
Init ==
  /\ inp_buff = {}
  /\ len = [v \in VC |-> 0] /\ time = [v \in VC |-> 0]
  /\ sortq = <<>> /\ spacTime = 0
  /\ std_evt = FALSE /\ phase = "early"
  /\ passed = [v \in VC |-> [w \in VC |-> 0]]

(* findPrecTime and enqTime: v comes before the first entry of s that is   *)
(* not earlier by the times t, ahead of those with the same time.          *)
Place(s, v, t) ==
  CHOOSE k \in 1 .. Len(s) + 1 :
    /\ \A j \in 1 .. k - 1 : t[s[j]] < t[v]
    /\ k <= Len(s) => t[s[k]] >= t[v]

enqTime(s, v, t) ==
  LET k == Place(s, v, t)
  IN [j \in 1 .. Len(s) + 1 |->
        IF j < k THEN s[j] ELSE IF j = k THEN v ELSE s[j - 1]]

(* Mutant of restim: the times of the VCs keep their old origin.           *)
restimForgotten(l, t, now) == t

(* restim() at the spacing time now: the times t of the VCs that have      *)
(* cells, by the lengths l, become relative to it.  A time that lies       *)
(* before now is an internal error: Sorted says that there is none.        *)
restim(l, t, now) == [v \in VC |-> IF l[v] > 0 THEN t[v] - now ELSE t[v]]

(* The first cell of v begins to wait.                                     *)
Fresh(p, v) == [p EXCEPT ![v] = [w \in VC |-> 0]]

-----------------------------------------------------------------------------
(* mux::REC: a cell arrives in the early phase, before or after early().   *)
Arrive(i, v) ==
  /\ phase = "early"
  /\ \A w \in VC : <<i, w>> \notin inp_buff
  /\ inp_buff' = inp_buff \cup {<<i, v>>}
  /\ UNCHANGED <<wfq, std_evt, phase, passed>>

(* Mutant of Requeued: the time of a VC that goes on is not advanced.      *)
RequeuedAtOnce(v, t, now) == [t EXCEPT ![v] = now]

(* The times after v has been queued again at the spacing time now.        *)
Requeued(v, t, now) == [t EXCEPT ![v] = now + delta[v]]

(* early(): send a cell of the first VC, set the spacing time back if it   *)
(* has grown too large, and queue the VC again if it has more cells.       *)
Serve ==
  LET v    == Head(sortq)
      left == [len EXCEPT ![v] = @ - 1]
      over == time[v] > spacTimeMax
      now  == IF over THEN 0 ELSE time[v]
      set  == IF over THEN restim(left, time, time[v]) ELSE time
      more == left[v] > 0
      seen == [w \in VC |-> IF w \in Queued THEN [passed[w] EXCEPT ![v] = @ + 1]
                                            ELSE passed[w]]
  IN /\ phase = "early" /\ std_evt
     /\ std_evt' = FALSE
     /\ len' = left
     /\ spacTime' = now
     /\ time' = IF more THEN Requeued(v, set, now) ELSE set
     /\ sortq' = IF more THEN enqTime(Tail(sortq), v, time') ELSE Tail(sortq)
     /\ passed' = Fresh(seen, v)
     /\ UNCHANGED <<inp_buff, phase>>

(* sim:resetTime, between two slots, calls restim() of every object.       *)
ResetTime ==
  /\ phase = "early" /\ inp_buff = {} /\ (sortq # <<>> => std_evt)
  /\ time' = restim(len, time, spacTime)
  /\ spacTime' = 0
  /\ UNCHANGED <<inp_buff, len, sortq, std_evt, phase, passed>>

(* The early phase ends when the server's event is not due; late() begins. *)
EnterLate ==
  /\ phase = "early" /\ ~ std_evt
  /\ phase' = "late"
  /\ UNCHANGED <<inp_buff, wfq, std_evt, passed>>

-----------------------------------------------------------------------------
(* late() goes through the arrivals in random order: the next is one of v  *)
(* at input i.  The first cell of a queue brings the VC into the sort      *)
(* queue; one that finds the queue full is lost.                           *)
EnqueueFirst(i, v) ==
  /\ phase = "late" /\ <<i, v>> \in inp_buff /\ len[v] = 0
  /\ inp_buff' = inp_buff \ {<<i, v>>}
  /\ len' = [len EXCEPT ![v] = 1]
  /\ time' = [time EXCEPT ![v] = spacTime + delta[v]]
  /\ sortq' = enqTime(sortq, v, time')
  /\ passed' = Fresh(passed, v)
  /\ UNCHANGED <<spacTime, std_evt, phase>>

(* Mutant of EnqueueNext: the limit is exceeded by one.                    *)
EnqueueNextAtLimit(i, v) ==
  /\ phase = "late" /\ <<i, v>> \in inp_buff /\ len[v] > 0
  /\ inp_buff' = inp_buff \ {<<i, v>>}
  /\ len' = [len EXCEPT ![v] = IF @ > qsize[v] THEN @ ELSE @ + 1]
  /\ UNCHANGED <<time, sortq, spacTime, std_evt, phase, passed>>

EnqueueNext(i, v) ==
  /\ phase = "late" /\ <<i, v>> \in inp_buff /\ len[v] > 0
  /\ inp_buff' = inp_buff \ {<<i, v>>}
  /\ len' = [len EXCEPT ![v] = IF @ = qsize[v] THEN @ ELSE @ + 1]
  /\ UNCHANGED <<time, sortq, spacTime, std_evt, phase, passed>>

(* late() returns, and the next slot begins.                               *)
NextSlot ==
  /\ phase = "late" /\ inp_buff = {}
  /\ std_evt' = (sortq # <<>>)
  /\ phase' = "early"
  /\ UNCHANGED <<inp_buff, wfq, passed>>

-----------------------------------------------------------------------------
Next ==
  \/ \E i \in Input, v \in VC : Arrive(i, v)
  \/ Serve
  \/ ResetTime
  \/ EnterLate
  \/ \E i \in Input, v \in VC : EnqueueFirst(i, v) \/ EnqueueNext(i, v)
  \/ NextSlot

Spec == Init /\ [][Next]_vars

-----------------------------------------------------------------------------
(***************************************************************************)
(* Correctness                                                             *)
(***************************************************************************)

TypeOK ==
  /\ inp_buff \subseteq Input \X VC
  /\ len \in [VC -> Nat] /\ \A v \in VC : len[v] <= qsize[v]
  /\ time \in [VC -> Nat]
  /\ sortq \in Seq(VC)
  /\ spacTime \in 0 .. spacTimeMax
  /\ std_evt \in BOOLEAN
  /\ phase \in {"early", "late"}
  /\ passed \in [VC -> [VC -> Nat]]

(* The sort queue holds exactly the VCs that have cells, each once, in the *)
(* order of their times, and these times lie at most a delta ahead of the  *)
(* spacing time, none behind it: restim() never ends in its internal error *)
(* (wfqmux.c:278), the difference of two unsigned numbers never wraps, and *)
(* early() never finds a queue empty.                                      *)
Sorted ==
  /\ \A v \in VC : v \in Queued <=> len[v] > 0
  /\ IsInjective(sortq)
  /\ \A j, k \in DOMAIN sortq : j < k => time[sortq[j]] <= time[sortq[k]]
  /\ \A v \in Queued : time[v] \in spacTime .. spacTime + delta[v]
  /\ std_evt => sortq # <<>>

(* Fair queueing: while the first cell of v waits, the cells of w that are *)
(* sent before it are no more than the shares of both allow, whatever the  *)
(* order of ties, however often w runs empty and comes back, and however   *)
(* often the spacing time is set back meanwhile.                           *)
Share ==
  \A v \in Queued : \A w \in VC \ {v} :
    passed[v][w] * delta[w] <= delta[v] + delta[w]
=============================================================================
