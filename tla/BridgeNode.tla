----------------------------- MODULE BridgeNode -----------------------------
(***************************************************************************)
(* The data plane of a bridge, src/yats/rstp.lua: how BPDUs reach and      *)
(* leave the spanning tree protocol instances of the node.                 *)
(*                                                                         *)
(*   luarec       buffers the frames that arrive in the early phase,       *)
(*   lualate      puts them into the input queue in random order,          *)
(*   EVPROCESS    hands one frame to the protocol every process_speed      *)
(*                slots,                                                   *)
(*   cb_tx_bpdu   is called back by the protocol with a BPDU to send and   *)
(*                puts it into the output queue of its port,               *)
(*   EVSEND       sends one BPDU of every port per slot,                   *)
(*   EVCLOCK      drives the timers of the protocol.                       *)
(*                                                                         *)
(* The protocol itself may answer a received BPDU, a tick of its clock or  *)
(* a command with BPDUs on any of the ports.  Events come from the event   *)
(* manager of module EventManager: an event asked for a later slot fires   *)
(* in its early phase.                                                     *)
(***************************************************************************)
EXTENDS Integers, Sequences, FiniteSets, SequencesExt

CONSTANTS
  Port,
  process_speed,        \* slots to process a BPDU
  InMax, OutMax,        \* size of the input queue and of an output queue
  cycle,                \* slots per second
  MaxFrames,            \* bound on the number of frames received
  MaxBpdus,             \* bound on the number of BPDUs transmitted
  Directions,           \* arguments of plug_in and plug_out
  None

ASSUME SpeedAssumption == process_speed \in Nat \ {0} /\ cycle \in Nat \ {0}
ASSUME SizeAssumption  == /\ InMax \in Nat \ {0} /\ OutMax \in Nat \ {0}
                          /\ MaxFrames \in Nat /\ MaxBpdus \in Nat
ASSUME PlugAssumption  == Directions \subseteq SUBSET {"rx", "tx"}
ASSUME NoneAssumption  == None \notin Nat

VARIABLES
  inbuf,                \* frames received in this slot
  q,                    \* input queue
  loss,                 \* frames lost, as counted per port
  inpstate, procstate, sendstate,
  outq,                 \* output queues
  evqueue,              \* lualate() is registered
  evprocess, evsend, evtimer,   \* slots until the event, or None
  unplug,               \* ports unplugged, by direction
  phase,                \* of the slot: "early", "late" or "end"
  \* history
  received, transmitted,        \* numbers of frames that came and went
  processed,            \* numbers of the frames the protocol has got
  asked,                \* numbers of the BPDUs made for a plugged port
  sent,                 \* numbers of the BPDUs that left, by port
  lost,                 \* frames lost because a queue was full
  discarded             \* frames of unplugged ports

input   == <<inbuf, q, inpstate, procstate, evqueue, evprocess, loss>>
output  == <<outq, sendstate, evsend, transmitted, asked>>
history == <<received, processed, sent, lost, discarded>>
vars    == <<input, output, evtimer, unplug, phase, history>>

(* A frame received, or transmitted by the protocol.                       *)
Frame == [kind : {"rx"}, id : 1 .. MaxFrames, port : Port, age : Nat]
Bpdu  == [kind : {"tx"}, id : 1 .. MaxBpdus, port : Port, age : Nat]

-----------------------------------------------------------------------------
Init ==
  /\ inbuf = {} /\ q = <<>>
  /\ loss = [p \in Port |-> 0]
  /\ inpstate = "idle" /\ procstate = "idle" /\ sendstate = "idle"
  /\ outq = [p \in Port |-> <<>>]
  /\ evqueue = FALSE
  /\ evprocess = None /\ evsend = None /\ evtimer = None
  /\ unplug = [p \in Port |-> {}]
  /\ phase = "end"
  /\ received = 0 /\ transmitted = 0
  /\ processed = {}
  /\ asked = [p \in Port |-> {}] /\ sent = [p \in Port |-> {}]
  /\ lost = {} /\ discarded = {}

(* luarec: a frame arrives at port p.                                      *)
luarec(p) ==
  /\ phase = "early"
  /\ received < MaxFrames
  /\ received' = received + 1
  /\ LET pd == [kind |-> "rx", id |-> received', port |-> p, age |-> 0] IN
     IF "rx" \in unplug[p]
       THEN /\ discarded' = discarded \cup {pd}
            /\ UNCHANGED <<inbuf, inpstate, evqueue>>
       ELSE /\ inbuf' = inbuf \cup {pd}
            /\ inpstate' = "enqueue"
            /\ evqueue' = (evqueue \/ inpstate = "idle")
            /\ UNCHANGED discarded
  /\ UNCHANGED <<q, procstate, evprocess, loss, output, evtimer, unplug, phase,
                 processed, sent, lost>>

-----------------------------------------------------------------------------
(* Mutants of Enqueued: one frame too many; the frame is put in front.     *)
EnqueuedOneMore(s, max, pd) == IF Len(s) <= max THEN Append(s, pd) ELSE s
EnqueuedInFront(s, max, pd) == IF Len(s) < max THEN Cons(pd, s) ELSE s

(* queue::enqueue(): a full queue stays as it is.                          *)
Enqueued(s, max, pd) == IF Len(s) < max THEN Append(s, pd) ELSE s

(* Mutant of Kick: the transmitter is registered for an idle port only.    *)
KickIdlePort(T) ==
  IF \E p \in T : outq[p] = <<>>
    THEN sendstate' = "run" /\ evsend' = 1
    ELSE UNCHANGED <<sendstate, evsend>>

(* The end of cb_tx_bpdu: the idle transmitter is registered.              *)
Kick(T) ==
  IF T # {} /\ sendstate = "idle"
    THEN sendstate' = "run" /\ evsend' = 1
    ELSE UNCHANGED <<sendstate, evsend>>

(* cb_tx_bpdu, called by the protocol for a BPDU on each of the ports T.   *)
(* The result of enqueue() is not looked at.                               *)
cb_tx_bpdu(T) ==
  LET plugged == {p \in T : "tx" \notin unplug[p]}
      Pd(p)   == [kind |-> "tx", id |-> transmitted + 1, port |-> p, age |-> 0]
  IN /\ transmitted < MaxBpdus \/ T = {}
     /\ transmitted' = IF T = {} THEN transmitted ELSE transmitted + 1
     /\ outq' = [p \in Port |-> IF p \in plugged
                                  THEN Enqueued(outq[p], OutMax, Pd(p))
                                  ELSE outq[p]]
     /\ asked' = [p \in Port |-> IF p \in plugged
                                   THEN asked[p] \cup {transmitted'}
                                   ELSE asked[p]]
     /\ lost' = lost \cup {Pd(p) : p \in {r \in plugged : outq'[r] = outq[r]}}
     /\ Kick(plugged)

(* EVPROCESS: the next frame is handed to the protocol, rx_bpdu.           *)
Process(T) ==
  /\ phase = "early" /\ evprocess = 0
  /\ q' = Tail(q)
  /\ processed' = processed \cup {Head(q).id}
  /\ cb_tx_bpdu(T)
  /\ IF q' # <<>>
       THEN evprocess' = process_speed /\ UNCHANGED procstate
       ELSE evprocess' = None /\ procstate' = "idle"
  /\ UNCHANGED <<inbuf, inpstate, evqueue, loss, evtimer, unplug, phase,
                 received, sent, discarded>>

(* EVCLOCK: a second is over, one_second().                                *)
Clock(T) ==
  /\ phase = "early" /\ evtimer = 0
  /\ evtimer' = cycle
  /\ cb_tx_bpdu(T)
  /\ UNCHANGED <<input, unplug, phase, received, processed, sent, discarded>>

(* Mutant of Transmit: it stops when one of the ports has nothing more.    *)
TransmitUntilOneIsEmpty ==
  LET some == {p \in Port : outq[p] # <<>>} IN
  /\ phase = "early" /\ evsend = 0
  /\ outq' = [p \in Port |-> IF p \in some THEN Tail(outq[p]) ELSE <<>>]
  /\ sent' = [p \in Port |-> IF p \in some THEN sent[p] \cup {Head(outq[p]).id}
                                           ELSE sent[p]]
  /\ IF \A p \in some : outq'[p] # <<>>
       THEN evsend' = 1 /\ UNCHANGED sendstate
       ELSE evsend' = None /\ sendstate' = "idle"
  /\ UNCHANGED <<input, transmitted, asked, evtimer, unplug, phase, received,
                 processed, lost, discarded>>

(* EVSEND: one BPDU of each port leaves.                                   *)
Transmit ==
  LET some == {p \in Port : outq[p] # <<>>} IN
  /\ phase = "early" /\ evsend = 0
  /\ outq' = [p \in Port |-> IF p \in some THEN Tail(outq[p]) ELSE <<>>]
  /\ sent' = [p \in Port |-> IF p \in some THEN sent[p] \cup {Head(outq[p]).id}
                                           ELSE sent[p]]
  /\ IF \E p \in some : outq'[p] # <<>>
       THEN evsend' = 1 /\ UNCHANGED sendstate
       ELSE evsend' = None /\ sendstate' = "idle"
  /\ UNCHANGED <<input, transmitted, asked, evtimer, unplug, phase, received,
                 processed, lost, discarded>>

(* The early phase ends when no event is due any more.                     *)
EnterLate ==
  /\ phase = "early" /\ 0 \notin {evprocess, evsend, evtimer}
  /\ phase' = IF evqueue THEN "late" ELSE "end"
  /\ evqueue' = FALSE
  /\ UNCHANGED <<inbuf, q, inpstate, procstate, evprocess, loss, output,
                 evtimer, unplug, history>>

-----------------------------------------------------------------------------
(* Mutants of Wake: the bridge is woken by the first frame of its queue    *)
(* only; or by every arrival.                                              *)
WakeAlways == evprocess' = process_speed /\ procstate' = "process"

WakeIfEmpty ==
  IF q = <<>> /\ procstate = "idle"
    THEN evprocess' = process_speed /\ procstate' = "process"
    ELSE UNCHANGED <<evprocess, procstate>>

(* The end of lualate(): processing is started, if it rests.               *)
Wake ==
  IF procstate = "idle"
    THEN evprocess' = process_speed /\ procstate' = "process"
    ELSE UNCHANGED <<evprocess, procstate>>

(* Mutant of Rest: the last frame is lost when another one is taken.       *)
RestButLast(pd) == {f \in inbuf : f.id < received \/ inbuf = {pd}} \ {pd}

(* The frames left when pd is taken from the input buffer.                 *)
Rest(pd) == inbuf \ {pd}

(* lualate: the frames received are queued in random order.  The test for  *)
(* a full queue never holds: enqueue of the queue's wrapper returns        *)
(* nothing.  The frame refused is lost and not counted.                    *)
lualate(pd) ==
  /\ phase = "late" /\ pd \in inbuf
  /\ inbuf' = Rest(pd)
  /\ q' = Enqueued(q, InMax, pd)
  /\ lost' = IF q' = q THEN lost \cup {pd} ELSE lost
  /\ UNCHANGED loss
  /\ IF inbuf' = {}
       THEN inpstate' = "idle" /\ phase' = "end" /\ Wake
       ELSE UNCHANGED <<inpstate, phase, procstate, evprocess>>
  /\ UNCHANGED <<evqueue, output, evtimer, unplug, received, processed, sent,
                 discarded>>

-----------------------------------------------------------------------------
(* Commands of the script, between two slots.  The clock is started by     *)
(* start(), and stopped by shutdown(), which fails if it does not run.     *)
start(T) ==
  /\ phase = "end" /\ evtimer = None
  /\ evtimer' = cycle
  /\ cb_tx_bpdu(T)
  /\ UNCHANGED <<input, unplug, phase, received, processed, sent, discarded>>

shutdown ==
  /\ phase = "end" /\ evtimer # None
  /\ evtimer' = None
  /\ UNCHANGED <<input, output, unplug, phase, history>>

plug_in(p, dir) ==
  /\ phase = "end"
  /\ unplug' = [unplug EXCEPT ![p] = @ \ dir]
  /\ UNCHANGED <<input, output, evtimer, phase, history>>

plug_out(p, dir) ==
  /\ phase = "end"
  /\ unplug' = [unplug EXCEPT ![p] = @ \cup dir]
  /\ UNCHANGED <<input, output, evtimer, phase, history>>

Older(pd) == [pd EXCEPT !.age = @ + 1]
OlderAll(s) == [k \in DOMAIN s |-> Older(s[k])]
Nearer(t) == IF t = None THEN None ELSE t - 1

NextSlot ==
  /\ phase = "end"
  /\ phase' = "early"
  /\ evprocess' = Nearer(evprocess)
  /\ evsend' = Nearer(evsend)
  /\ evtimer' = Nearer(evtimer)
  /\ q' = OlderAll(q)
  /\ outq' = [p \in Port |-> OlderAll(outq[p])]
  /\ UNCHANGED <<inbuf, inpstate, procstate, evqueue, loss, sendstate,
                 transmitted, asked, unplug, history>>

Next ==
  \/ \E p \in Port : luarec(p)
  \/ \E T \in SUBSET Port : Process(T) \/ Clock(T) \/ start(T)
  \/ Transmit \/ EnterLate
  \/ \E pd \in inbuf : lualate(pd)
  \/ shutdown
  \/ \E p \in Port, dir \in Directions : plug_in(p, dir) \/ plug_out(p, dir)
  \/ NextSlot

Spec == Init /\ [][Next]_vars

-----------------------------------------------------------------------------
(***************************************************************************)
(* Correctness                                                             *)
(***************************************************************************)

TypeOK ==
  /\ inbuf \subseteq Frame
  /\ q \in Seq(Frame) /\ Len(q) <= InMax
  /\ loss \in [Port -> Nat]
  /\ inpstate \in {"idle", "enqueue"}
  /\ procstate \in {"idle", "process"} /\ sendstate \in {"idle", "run"}
  /\ outq \in [Port -> Seq(Bpdu)] /\ \A p \in Port : Len(outq[p]) <= OutMax
  /\ evqueue \in BOOLEAN
  /\ {evprocess, evsend, evtimer} \subseteq Nat \cup {None}
  /\ unplug \in [Port -> SUBSET {"rx", "tx"}]
  /\ phase \in {"early", "late", "end"}
  /\ received \in 0 .. MaxFrames /\ transmitted \in 0 .. MaxBpdus
  /\ processed \subseteq 1 .. received
  /\ {asked, sent} \subseteq [Port -> SUBSET (1 .. transmitted)]
  /\ lost \subseteq Frame \cup Bpdu /\ discarded \subseteq Frame

Numbers(S) == {f.id : f \in S}
LostFrames == {f \in lost : f.kind = "rx"}
Dropped(p) == Numbers({f \in lost : f.kind = "tx" /\ f.port = p})

(* Frames received: inside the node, given up, or handed to the protocol.  *)
ConservedIn ==
  LET inside == Numbers(inbuf) \cup Numbers(ToSet(q))
      gone   == Numbers(LostFrames) \cup Numbers(discarded)
  IN /\ inside \cup gone \cup processed = 1 .. received
     /\ Cardinality(inbuf) + Len(q) + Cardinality(LostFrames)
          + Cardinality(discarded) + Cardinality(processed) = received

(* BPDUs made for a plugged port: queued, sent or lost.                    *)
ConservedOut ==
  \A p \in Port :
    LET queued == Numbers(ToSet(outq[p])) IN
    /\ queued \cup sent[p] \cup Dropped(p) = asked[p]
    /\ queued \cap sent[p] = {}
    /\ Dropped(p) \cap (queued \cup sent[p]) = {}
    /\ \A k, l \in DOMAIN outq[p] : outq[p][k].id = outq[p][l].id => k = l

(* A frame received is in exactly one place until the protocol gets it,    *)
(* once; only frames of unplugged ports and frames that find a full queue  *)
(* never get there.  A BPDU made for a plugged port waits in the queue of  *)
(* the port, or has left there, once, or is lost since the queue was full. *)
Conserved == ConservedIn /\ ConservedOut

(* Nothing waits in the node without an event that will move it on, and    *)
(* no handler is called with nothing to do: lualate() and EVPROCESS take   *)
(* a frame without a test whether there is one.                            *)
Awake ==
  /\ inbuf # {} <=> inpstate = "enqueue"
  /\ phase = "early" => (inbuf # {} <=> evqueue)
  /\ phase = "end" => inbuf = {}
  /\ procstate = "process" <=> evprocess # None
  /\ phase # "late" => (q # <<>> <=> evprocess # None)
  /\ sendstate = "run" <=> evsend # None
  /\ (\E p \in Port : outq[p] # <<>>) <=> evsend # None

(* A frame is handed to the protocol after the time a full queue takes at  *)
(* most; a BPDU leaves after as many slots as its queue has places.        *)
Prompt ==
  /\ evprocess # None => \A k \in DOMAIN q :
       q[k].age + evprocess + (k - 1) * process_speed <= InMax * process_speed
  /\ evsend # None => \A p \in Port : \A k \in DOMAIN outq[p] :
       outq[p][k].age + evsend + k - 1 <= OutMax

(* The protocol gets frames in the order of the slots they came in, and    *)
(* the BPDUs of a port leave in the order the protocol made them.          *)
InOrder ==
  [][/\ processed' # processed =>
          \A k \in DOMAIN q : q[k].age <= Head(q).age
     /\ \A p \in Port : \A n \in sent'[p] \ sent[p] :
          \A m \in sent[p] : m < n]_vars

(* "queue is full: drop and count" (src/yats/rstp.lua:393): the frames     *)
(* lost are those counted in self.loss.                                    *)
LossCounted ==
  \A p \in Port : loss[p] = Cardinality({f \in LostFrames : f.port = p})
=============================================================================
