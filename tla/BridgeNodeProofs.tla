-------------------------- MODULE BridgeNodeProofs --------------------------
(***************************************************************************)
(* Proofs about the data plane of a bridge, for any ports, queue sizes,    *)
(* processing times and lengths of a second.                               *)
(*                                                                         *)
(* The two halves of the node share nothing but the phases of the slot:    *)
(* what holds of the frames on their way in (Ingress, AwakeIn, PromptIn)   *)
(* and of the BPDUs on their way out (Egress, AwakeOut, PromptOut) is      *)
(* inductive each by itself, together with the fact that no event is due   *)
(* when the early phase is over (Due).                                     *)
(***************************************************************************)
EXTENDS BridgeNode, FiniteSetTheorems, TLAPS

(* The frames that came in, up to the protocol.                            *)
Ingress ==
  /\ inbuf \subseteq Frame /\ q \in Seq(Frame) /\ Len(q) <= InMax
  /\ inpstate \in {"idle", "enqueue"} /\ procstate \in {"idle", "process"}
  /\ evqueue \in BOOLEAN
  /\ evprocess = None \/ evprocess \in 0 .. process_speed
  /\ received \in 0 .. MaxFrames /\ processed \subseteq 1 .. received
  /\ discarded \subseteq Frame
  /\ \A f \in inbuf : f.id <= received
  /\ \A k \in DOMAIN q : q[k].id <= received
  /\ \A k, l \in DOMAIN q : k <= l => q[l].age <= q[k].age

AwakeIn ==
  /\ inbuf # {} <=> inpstate = "enqueue"
  /\ phase = "early" => (inbuf # {} <=> evqueue)
  /\ phase = "late" => inbuf # {} /\ ~ evqueue
  /\ phase = "end" => inbuf = {} /\ ~ evqueue
  /\ procstate = "process" <=> evprocess # None
  /\ phase # "late" => (q # <<>> <=> evprocess # None)

PromptIn ==
  /\ \A f \in inbuf : f.age = 0
  /\ evprocess # None => \A k \in DOMAIN q :
       q[k].age + evprocess + (k - 1) * process_speed <= InMax * process_speed
  /\ evprocess = None => \A k \in DOMAIN q : q[k].age = 0

(* The BPDUs of the protocol, up to the successor.                         *)
Egress ==
  /\ outq \in [Port -> Seq(Bpdu)] /\ \A p \in Port : Len(outq[p]) <= OutMax
  /\ sendstate \in {"idle", "run"}
  /\ evsend = None \/ evsend \in 0 .. 1
  /\ transmitted \in 0 .. MaxBpdus
  /\ sent \in [Port -> SUBSET (1 .. transmitted)]
  /\ asked \in [Port -> SUBSET (1 .. transmitted)]
  /\ \A p \in Port : \A k \in DOMAIN outq[p] :
       /\ outq[p][k].id <= transmitted
       /\ \A l \in DOMAIN outq[p] : k < l => outq[p][k].id < outq[p][l].id
       /\ \A m \in sent[p] : m < outq[p][k].id

AwakeOut ==
  /\ sendstate = "run" <=> evsend # None
  /\ (\E p \in Port : outq[p] # <<>>) <=> evsend # None

PromptOut ==
  evsend # None => \A p \in Port : \A k \in DOMAIN outq[p] :
    outq[p][k].age + evsend + k - 1 <= OutMax

Due == phase # "early" => 0 \notin {evprocess, evsend, evtimer}

Commands ==
  /\ loss \in [Port -> Nat]
  /\ evtimer \in Nat \cup {None}
  /\ unplug \in [Port -> SUBSET {"rx", "tx"}]
  /\ phase \in {"early", "late", "end"}
  /\ lost \subseteq Frame \cup Bpdu

In   == Ingress /\ AwakeIn /\ PromptIn
Out  == Egress /\ AwakeOut /\ PromptOut
IInv == Commands /\ Due /\ In /\ Out

-----------------------------------------------------------------------------
(* What the operations on a queue do to a sequence.                        *)
LEMMA TailFacts ==
  ASSUME NEW S, NEW s \in Seq(S), s # <<>>
  PROVE  /\ Head(s) \in S /\ Head(s) = s[1] /\ 1 \in DOMAIN s
         /\ Tail(s) \in Seq(S) /\ Len(Tail(s)) = Len(s) - 1
         /\ \A k \in DOMAIN Tail(s) :
              k \in Nat \ {0} /\ k + 1 \in DOMAIN s /\ Tail(s)[k] = s[k + 1]
  OBVIOUS

LEMMA FrameFacts ==
  /\ \A f \in Frame : f.id \in Nat \ {0} /\ f.age \in Nat
  /\ \A b \in Bpdu : b.id \in Nat \ {0} /\ b.age \in Nat
  BY SizeAssumption DEF Frame, Bpdu

LEMMA OlderFrame ==
  ASSUME NEW f \in Frame
  PROVE  Older(f) \in Frame /\ Older(f).id = f.id /\ Older(f).age = f.age + 1
  BY DEF Older, Frame

LEMMA OlderBpdu ==
  ASSUME NEW f \in Bpdu
  PROVE  Older(f) \in Bpdu /\ Older(f).id = f.id /\ Older(f).age = f.age + 1
  BY DEF Older, Bpdu

LEMMA OlderAllFacts ==
  ASSUME NEW S, NEW s \in Seq(S), \A e \in S : Older(e) \in S
  PROVE  /\ OlderAll(s) \in Seq(S) /\ Len(OlderAll(s)) = Len(s) /\ DOMAIN OlderAll(s) = DOMAIN s
         /\ OlderAll(s) = <<>> <=> s = <<>>
         /\ \A k \in DOMAIN s : OlderAll(s)[k] = Older(s[k])
  BY DEF OlderAll

(* (k - 1) * process_speed is the time until entry k is at the head.       *)
LEMMA Turns ==
  ASSUME NEW k \in Nat \ {0}
  PROVE  /\ (k - 1) * process_speed \in Nat /\ k * process_speed \in Nat
         /\ k * process_speed = (k - 1) * process_speed + process_speed
         /\ (k + 1 - 1) * process_speed = k * process_speed
  BY SpeedAssumption

LEMMA TurnsMonotone ==
  ASSUME NEW k \in Nat, NEW l \in Nat, k <= l
  PROVE  k * process_speed <= l * process_speed
  BY SpeedAssumption

-----------------------------------------------------------------------------
LEMMA InitInv == Init => IInv
<1> SUFFICES ASSUME Init PROVE IInv
  OBVIOUS
<1>1. Commands /\ Due
  BY NoneAssumption DEF Init, Commands, Due
<1>2. Ingress
  <2>1. q = <<>> /\ Len(q) = 0 /\ DOMAIN q = {}
    BY DEF Init
  <2>2. received = 0 /\ processed = {} /\ inbuf = {} /\ discarded = {}
    BY DEF Init
  <2>3. q \in Seq(Frame) /\ Len(q) <= InMax
    BY <2>1, SizeAssumption
  <2>4. received \in 0 .. MaxFrames /\ processed \subseteq 1 .. received
    BY <2>2, SizeAssumption
  <2> QED
    BY <2>1, <2>2, <2>3, <2>4 DEF Init, Ingress
<1>3. AwakeIn /\ PromptIn
  BY DEF Init, AwakeIn, PromptIn
<1>4. Egress
  BY SizeAssumption DEF Init, Egress
<1>5. AwakeOut /\ PromptOut
  BY DEF Init, AwakeOut, PromptOut
<1> QED
  BY <1>1, <1>2, <1>3, <1>4, <1>5 DEF IInv, In, Out

(* The protocol transmits BPDUs: the output half stays as it should be.  A *)
(* queue that gets one while the transmitter rests was empty.              *)
LEMMA Transmitting ==
  ASSUME Out, lost \subseteq Frame \cup Bpdu, NEW T \in SUBSET Port, cb_tx_bpdu(T), sent' = sent
  PROVE  /\ Out' /\ lost' \subseteq Frame \cup Bpdu
         /\ evsend' \in {evsend, 1}
         /\ \A b \in lost' \ lost : b.kind = "tx"
         /\ lost \subseteq lost'
<1> DEFINE plugged == {p \in T : "tx" \notin unplug[p]}
           Pd(p)   == [kind |-> "tx", id |-> transmitted + 1, port |-> p, age |-> 0]
<1> USE DEF Out
<1>1. CASE T = {}
  <2>1. UNCHANGED <<outq, lost, sendstate, evsend, transmitted, sent, asked>>
    <3>1. \A p \in Port : outq'[p] = outq[p]
      BY <1>1 DEF cb_tx_bpdu
    <3>2. outq' = outq
      BY <3>1, <1>1 DEF Egress, cb_tx_bpdu
    <3>3. lost' = lost /\ transmitted' = transmitted
      BY <1>1 DEF cb_tx_bpdu
    <3>4. UNCHANGED <<sendstate, evsend>>
      BY <1>1 DEF cb_tx_bpdu, Kick
    <3>5. asked' = asked
      <4>1. asked' = [p \in Port |-> asked[p]]
        BY <1>1 DEF cb_tx_bpdu
      <4> QED
        BY <4>1 DEF Egress
    <3> QED
      BY <3>2, <3>3, <3>4, <3>5
  <2> QED
    BY <2>1 DEF Egress, AwakeOut, PromptOut
<1>2. CASE T # {}
  <2>1. transmitted + 1 \in 1 .. MaxBpdus /\ transmitted' = transmitted + 1 /\ transmitted \in Nat
    BY <1>2, SizeAssumption DEF cb_tx_bpdu, Egress
  <2>2. \A p \in Port : /\ Pd(p) \in Bpdu /\ Pd(p).kind = "tx"
                         /\ Pd(p).id = transmitted + 1 /\ Pd(p).age = 0
    BY <2>1 DEF Bpdu
  <2>3. /\ outq' = [p \in Port |-> IF p \in plugged THEN Enqueued(outq[p], OutMax, Pd(p))
                                                    ELSE outq[p]]
        /\ plugged \subseteq Port
        /\ lost' = lost \cup {Pd(p) : p \in {r \in plugged : outq'[r] = outq[r]}}
        /\ Kick(plugged)
        /\ asked' = [p \in Port |-> IF p \in plugged THEN asked[p] \cup {transmitted'} ELSE asked[p]]
    BY DEF cb_tx_bpdu
  <2> HIDE DEF plugged, Pd
  <2>4. ASSUME NEW p \in Port
        PROVE  /\ outq[p] \in Seq(Bpdu) /\ Len(outq[p]) <= OutMax
               /\ outq'[p] \in Seq(Bpdu) /\ Len(outq'[p]) <= OutMax
               /\ p \in plugged \/ outq[p] # <<>> => outq'[p] # <<>>
               /\ p \notin plugged => outq'[p] = outq[p]
               /\ \A k \in DOMAIN outq[p] : outq'[p][k] = outq[p][k]
               /\ \A k \in DOMAIN outq'[p] \ DOMAIN outq[p] :
                    k = Len(outq[p]) + 1 /\ outq'[p][k] = Pd(p) /\ Len(outq[p]) < OutMax
    <3>1. outq[p] \in Seq(Bpdu) /\ Len(outq[p]) <= OutMax
      BY DEF Egress
    <3>2. CASE p \in plugged
      <4>1. outq'[p] = Enqueued(outq[p], OutMax, Pd(p))
        BY <2>3, <3>2
      <4>2. Pd(p) \in Bpdu /\ OutMax \in Nat \ {0}
        BY <2>2, SizeAssumption
      <4>3. /\ outq'[p] \in Seq(Bpdu) /\ Len(outq'[p]) <= OutMax /\ outq'[p] # <<>>
            /\ \A k \in DOMAIN outq[p] : outq'[p][k] = outq[p][k]
            /\ \A k \in DOMAIN outq'[p] \ DOMAIN outq[p] :
                 k = Len(outq[p]) + 1 /\ outq'[p][k] = Pd(p) /\ Len(outq[p]) < OutMax
        BY <4>1, <4>2, <3>1 DEF Enqueued
      <4> QED
        BY <4>3, <3>1, <3>2
    <3>3. CASE p \notin plugged
      BY <2>3, <3>1, <3>3
    <3> QED
      BY <3>2, <3>3
  <2>5. Egress'
    <3>1. /\ outq' \in [Port -> Seq(Bpdu)] /\ \A p \in Port : Len(outq'[p]) <= OutMax
      BY <2>3, <2>4
    <3>2. /\ sendstate' \in {"idle", "run"} /\ (evsend' = None \/ evsend' \in 0 .. 1)
          /\ transmitted' \in 0 .. MaxBpdus
      BY <2>1, <2>3 DEF Egress, Kick
    <3>3. /\ sent' \in [Port -> SUBSET (1 .. transmitted')]
          /\ asked' \in [Port -> SUBSET (1 .. transmitted')]
      BY <2>1, <2>3 DEF Egress
    <3>4. ASSUME NEW p \in Port, NEW k \in DOMAIN outq'[p]
          PROVE  /\ outq'[p][k].id <= transmitted'
                 /\ \A l \in DOMAIN outq'[p] : k < l => outq'[p][k].id < outq'[p][l].id
                 /\ \A m \in sent'[p] : m < outq'[p][k].id
      <4>1. /\ DOMAIN outq[p] = 1 .. Len(outq[p]) /\ DOMAIN outq'[p] = 1 .. Len(outq'[p])
            /\ Len(outq[p]) \in Nat /\ Len(outq'[p]) \in Nat
        BY <2>4
      <4>2. \A l \in DOMAIN outq'[p] \ DOMAIN outq[p] : outq'[p][l].id = transmitted + 1
        BY <2>2, <2>4
      <4>3. \A l \in DOMAIN outq[p] : outq'[p][l].id = outq[p][l].id /\ outq[p][l].id \in Nat
                                      /\ outq[p][l].id <= transmitted
        <5>1. \A l \in DOMAIN outq[p] : outq'[p][l] = outq[p][l] /\ outq[p][l] \in Bpdu
          BY <2>4
        <5>2. \A b \in Bpdu : b.id \in Nat
          BY SizeAssumption DEF Bpdu
        <5> QED
          BY <5>1, <5>2 DEF Egress
      <4>4. \A m \in sent'[p] : m \in 1 .. transmitted
        BY DEF Egress
      <4>5. CASE k \in DOMAIN outq[p]
        <5>1. \A l \in DOMAIN outq[p] : k < l => outq[p][k].id < outq[p][l].id
          BY <4>5 DEF Egress
        <5>2. \A m \in sent[p] : m < outq[p][k].id
          BY <4>5 DEF Egress
        <5> QED
          BY <5>1, <5>2, <4>2, <4>3, <4>5, <2>1
      <4>6. CASE k \notin DOMAIN outq[p]
        <5>1. k = Len(outq[p]) + 1 /\ outq'[p][k].id = transmitted + 1
          BY <4>6, <4>2, <2>4
        <5>2. \A l \in DOMAIN outq'[p] : ~ (k < l)
          BY <5>1, <4>1, <2>4
        <5> QED
          BY <5>1, <5>2, <4>4, <2>1
      <4> QED
        BY <4>5, <4>6
    <3> QED
      BY <3>1, <3>2, <3>3, <3>4 DEF Egress
  <2>6. lost' \subseteq Frame \cup Bpdu /\ (\A b \in lost' \ lost : b.kind = "tx") /\ lost \subseteq lost'
    <3>1. \A b \in lost' \ lost : \E p \in Port : b = Pd(p)
      BY <2>3
    <3> QED
      BY <3>1, <2>2, <2>3
  <2>7. CASE plugged # {} /\ sendstate = "idle"
    <3>1. sendstate' = "run" /\ evsend' = 1 /\ evsend' # None
      BY <2>7, <2>3, NoneAssumption DEF Kick
    <3>2. \A p \in Port : outq[p] = <<>>
      BY <2>7 DEF AwakeOut
    <3>3. AwakeOut'
      BY <3>1, <2>4, <2>3, <2>7 DEF AwakeOut
    <3>4. PromptOut'
      <4>1. \A p \in Port : \A k \in DOMAIN outq'[p] : k = 1 /\ outq'[p][k].age = 0
        BY <3>2, <2>2, <2>4
      <4> QED
        BY <4>1, <3>1, SizeAssumption DEF PromptOut
    <3>5. evsend' \in {evsend, 1}
      BY <3>1
    <3> QED
      BY <2>5, <2>6, <3>3, <3>4, <3>5
  <2>8. CASE ~ (plugged # {} /\ sendstate = "idle")
    <3>1. sendstate' = sendstate /\ evsend' = evsend
      BY <2>8, <2>3 DEF Kick
    <3>2. AwakeOut'
      <4>1. CASE plugged = {}
        BY <4>1, <3>1, <2>4 DEF AwakeOut
      <4>2. CASE plugged # {}
        <5>1. sendstate = "run" /\ evsend # None
          BY <4>2, <2>8 DEF Egress, AwakeOut
        <5>2. \E p \in Port : outq'[p] # <<>>
          BY <4>2, <2>4, <2>3
        <5> QED
          BY <5>1, <5>2, <3>1 DEF AwakeOut
      <4> QED
        BY <4>1, <4>2
    <3>3. PromptOut'
      <4> SUFFICES ASSUME evsend # None, NEW p \in Port, NEW k \in DOMAIN outq'[p]
                   PROVE  outq'[p][k].age + evsend + k - 1 <= OutMax
        BY <3>1 DEF PromptOut
      <4>1. evsend \in 0 .. 1
        BY DEF Egress
      <4>2. CASE k \in DOMAIN outq[p]
        BY <4>2, <2>4 DEF PromptOut
      <4>3. CASE k \notin DOMAIN outq[p]
        <5>1. k = Len(outq[p]) + 1 /\ outq'[p][k].age = 0 /\ Len(outq[p]) < OutMax
          BY <4>3, <2>2, <2>4
        <5> QED
          BY <5>1, <4>1, <2>4, SizeAssumption
      <4> QED
        BY <4>2, <4>3
    <3> QED
      BY <2>5, <2>6, <3>1, <3>2, <3>3
  <2> QED
    BY <2>7, <2>8
<1> QED
  BY <1>1, <1>2

LEMMA InUnchanged ==
  ASSUME In, UNCHANGED <<input, phase, received, processed, discarded>>
  PROVE  In'
  BY DEF In, Ingress, AwakeIn, PromptIn, input

LEMMA OutUnchanged ==
  ASSUME Out, UNCHANGED <<output, sent>>
  PROVE  Out'
  BY DEF Out, Egress, AwakeOut, PromptOut, output

LEMMA luarecInv ==
  ASSUME IInv, NEW p \in Port, luarec(p)
  PROVE  IInv'
<1> DEFINE pd == [kind |-> "rx", id |-> received + 1, port |-> p, age |-> 0]
<1>1. /\ phase = "early" /\ received' = received + 1
      /\ IF "rx" \in unplug[p]
           THEN discarded' = discarded \cup {pd} /\ UNCHANGED <<inbuf, inpstate, evqueue>>
           ELSE /\ inbuf' = inbuf \cup {pd} /\ inpstate' = "enqueue"
                /\ evqueue' = (evqueue \/ inpstate = "idle") /\ UNCHANGED discarded
      /\ UNCHANGED <<q, procstate, evprocess, processed, phase, loss, evtimer, unplug, lost>>
      /\ UNCHANGED <<output, sent>>
  BY DEF luarec
<1>2. received \in Nat /\ received' \in 1 .. MaxFrames
  BY SizeAssumption DEF IInv, In, Ingress, luarec
<1>3. pd \in Frame /\ pd.id = received' /\ pd.age = 0
  BY <1>1, <1>2 DEF Frame
<1> HIDE DEF pd
<1>4. Ingress'
  <2>1. inbuf' \subseteq Frame /\ discarded' \subseteq Frame
    BY <1>1, <1>3 DEF IInv, In, Ingress
  <2>2. received' \in 0 .. MaxFrames /\ processed' \subseteq 1 .. received'
    BY <1>1, <1>2 DEF IInv, In, Ingress
  <2>3. \A f \in Frame : f.id \in Nat
    BY SizeAssumption DEF Frame
  <2>4. \A f \in inbuf' : f.id <= received'
    BY <1>1, <1>2, <1>3, <2>3 DEF IInv, In, Ingress
  <2>5. \A k \in DOMAIN q : q[k].id <= received'
    <3>1. \A k \in DOMAIN q : q[k] \in Frame /\ q[k].id <= received
      BY DEF IInv, In, Ingress
    <3> QED
      BY <3>1, <2>3, <1>1, <1>2
  <2>6. inpstate' \in {"idle", "enqueue"} /\ evqueue' \in BOOLEAN
    BY <1>1 DEF IInv, In, Ingress
  <2> QED
    BY <1>1, <2>1, <2>2, <2>4, <2>5, <2>6 DEF IInv, In, Ingress
<1>5. AwakeIn'
  BY <1>1 DEF IInv, In, Ingress, AwakeIn
<1>6. PromptIn'
  BY <1>1, <1>3 DEF IInv, In, PromptIn
<1>7. Out'
  BY <1>1, OutUnchanged DEF IInv
<1>8. Commands' /\ Due'
  BY <1>1 DEF IInv, Commands, Due
<1> QED
  BY <1>4, <1>5, <1>6, <1>7, <1>8 DEF IInv, In

(* EVPROCESS finds a frame, since it was asked for.                        *)
LEMMA ProcessInv ==
  ASSUME IInv, NEW T \in SUBSET Port, Process(T)
  PROVE  IInv'
<1>1. /\ phase = "early" /\ evprocess = 0 /\ q' = Tail(q) /\ processed' = processed \cup {Head(q).id}
      /\ IF q' # <<>> THEN evprocess' = process_speed /\ UNCHANGED procstate
                      ELSE evprocess' = None /\ procstate' = "idle"
      /\ UNCHANGED <<inbuf, inpstate, evqueue, loss, evtimer, unplug, phase, received, sent, discarded>>
      /\ cb_tx_bpdu(T)
  BY DEF Process
<1>2. evprocess # None /\ process_speed # None /\ q # <<>> /\ q \in Seq(Frame)
  BY <1>1, NoneAssumption, SpeedAssumption DEF IInv, In, Ingress, AwakeIn
<1>3. /\ Head(q) \in Frame /\ Head(q) = q[1] /\ 1 \in DOMAIN q
      /\ q' \in Seq(Frame) /\ Len(q') = Len(q) - 1
      /\ \A k \in DOMAIN q' : k \in Nat \ {0} /\ k + 1 \in DOMAIN q /\ q'[k] = q[k + 1]
  BY <1>1, <1>2, TailFacts
<1>4. Head(q).id \in 1 .. received
  BY <1>3, SizeAssumption DEF IInv, In, Ingress, Frame
<1>5. Ingress'
  <2>1. q' \in Seq(Frame) /\ Len(q') <= InMax
    BY <1>3, <1>2, SizeAssumption DEF IInv, In, Ingress
  <2>2. processed' \subseteq 1 .. received'
    BY <1>1, <1>4 DEF IInv, In, Ingress
  <2>3. \A k \in DOMAIN q' : q'[k].id <= received'
    BY <1>1, <1>3 DEF IInv, In, Ingress
  <2>4. \A k, l \in DOMAIN q' : k <= l => q'[l].age <= q'[k].age
    BY <1>3 DEF IInv, In, Ingress
  <2>5. evprocess' = None \/ evprocess' \in 0 .. process_speed
    BY <1>1, SpeedAssumption
  <2>6. procstate' \in {"idle", "process"}
    BY <1>1 DEF IInv, In, Ingress
  <2> QED
    BY <1>1, <2>1, <2>2, <2>3, <2>4, <2>5, <2>6 DEF IInv, In, Ingress
<1>6. AwakeIn'
  BY <1>1, <1>2 DEF IInv, In, AwakeIn
<1>7. PromptIn'
  <2>1. CASE q' = <<>>
    BY <2>1, <1>1 DEF IInv, In, PromptIn
  <2>2. CASE q' # <<>>
    <3>1. evprocess' = process_speed /\ evprocess' # None
      BY <2>2, <1>1, <1>2
    <3>2. ASSUME NEW k \in DOMAIN q'
          PROVE  q'[k].age + process_speed + (k - 1) * process_speed <= InMax * process_speed
      <4>1. k \in Nat \ {0} /\ k + 1 \in DOMAIN q /\ q'[k] = q[k + 1]
        BY <1>3
      <4>2. q[k + 1].age + 0 + (k + 1 - 1) * process_speed <= InMax * process_speed
        BY <4>1, <1>1, <1>2 DEF IInv, In, PromptIn
      <4>3. q[k + 1].age \in Nat
        <5>1. q[k + 1] \in Frame
          BY <4>1, <1>2
        <5> QED
          BY <5>1, FrameFacts
      <4> QED
        BY <4>1, <4>2, <4>3, Turns, SpeedAssumption, SizeAssumption
    <3> QED
      BY <3>1, <3>2, <1>1 DEF IInv, In, PromptIn
  <2> QED
    BY <2>1, <2>2
<1>8. Out' /\ lost' \subseteq Frame \cup Bpdu
  BY <1>1, Transmitting DEF IInv, Commands
<1>9. Commands' /\ Due'
  BY <1>1, <1>8 DEF IInv, Commands, Due
<1> QED
  BY <1>5, <1>6, <1>7, <1>8, <1>9 DEF IInv, In

(* The clock starts or ticks.                                              *)
LEMMA ClockInv ==
  ASSUME IInv, NEW T \in SUBSET Port, Clock(T) \/ start(T)
  PROVE  IInv'
<1>1. /\ cb_tx_bpdu(T) /\ evtimer' = cycle
      /\ UNCHANGED <<input, unplug, phase, received, processed, sent, discarded>>
  BY DEF Clock, start
<1>2. Out' /\ lost' \subseteq Frame \cup Bpdu /\ evsend' \in {evsend, 1}
  BY <1>1, Transmitting DEF IInv, Commands
<1>3. In'
  BY <1>1, InUnchanged DEF IInv
<1>4. Commands' /\ Due'
  BY <1>1, <1>2, SpeedAssumption DEF IInv, Commands, Due, input
<1> QED
  BY <1>2, <1>3, <1>4 DEF IInv

(* A BPDU leaves every port that has one.                                  *)
LEMMA TransmitInv ==
  ASSUME IInv, Transmit
  PROVE  IInv'
<1> DEFINE some == {p \in Port : outq[p] # <<>>}
<1>1. /\ phase = "early" /\ evsend = 0
      /\ outq' = [p \in Port |-> IF p \in some THEN Tail(outq[p]) ELSE <<>>]
      /\ sent' = [p \in Port |-> IF p \in some THEN sent[p] \cup {Head(outq[p]).id} ELSE sent[p]]
      /\ IF \E p \in some : outq'[p] # <<>>
           THEN evsend' = 1 /\ UNCHANGED sendstate
           ELSE evsend' = None /\ sendstate' = "idle"
      /\ UNCHANGED <<input, transmitted, asked, evtimer, unplug, phase, received, processed, lost, discarded>>
  BY DEF Transmit
<1>2. evsend # None /\ sendstate = "run"
  BY <1>1, NoneAssumption DEF IInv, Out, AwakeOut
<1>3. ASSUME NEW p \in Port
      PROVE  /\ outq'[p] \in Seq(Bpdu) /\ Len(outq'[p]) <= OutMax
             /\ p \notin some => outq'[p] = <<>> /\ sent'[p] = sent[p]
             /\ \A k \in DOMAIN outq'[p] : /\ p \in some /\ k \in Nat \ {0} /\ k + 1 \in DOMAIN outq[p]
                                           /\ outq'[p][k] = outq[p][k + 1]
             /\ p \in some => /\ Head(outq[p]) = outq[p][1] /\ 1 \in DOMAIN outq[p]
                              /\ Head(outq[p]) \in Bpdu
                              /\ sent'[p] = sent[p] \cup {Head(outq[p]).id}
             /\ outq[p] \in Seq(Bpdu)
  <2>1. outq[p] \in Seq(Bpdu) /\ Len(outq[p]) <= OutMax /\ Len(outq[p]) \in Nat
    BY DEF IInv, Out, Egress
  <2>2. CASE p \in some
    <3>1. outq[p] # <<>> /\ outq'[p] = Tail(outq[p]) /\ sent'[p] = sent[p] \cup {Head(outq[p]).id}
      BY <1>1, <2>2
    <3> QED
      BY <2>1, <2>2, <3>1, TailFacts, SizeAssumption
  <2>3. CASE p \notin some
    <3>1. outq'[p] = <<>> /\ sent'[p] = sent[p]
      BY <1>1, <2>3
    <3>2. outq'[p] \in Seq(Bpdu) /\ Len(outq'[p]) = 0 /\ DOMAIN outq'[p] = {}
      BY <3>1
    <3> QED
      BY <2>1, <2>3, <3>1, <3>2, SizeAssumption
  <2> QED
    BY <2>2, <2>3
<1>4. Egress'
  <2>1. outq' \in [Port -> Seq(Bpdu)] /\ \A p \in Port : Len(outq'[p]) <= OutMax
    BY <1>1, <1>3
  <2>2. sendstate' \in {"idle", "run"} /\ (evsend' = None \/ evsend' \in 0 .. 1)
    BY <1>1, <1>2
  <2>3. transmitted' \in 0 .. MaxBpdus /\ transmitted' = transmitted
    BY <1>1 DEF IInv, Out, Egress
  <2>4. sent' \in [Port -> SUBSET (1 .. transmitted')]
    <3>1. ASSUME NEW p \in Port PROVE sent'[p] \subseteq 1 .. transmitted
      <4>1. p \in some => Head(outq[p]).id \in 1 .. transmitted
        BY <1>3, FrameFacts, <2>3, SizeAssumption DEF IInv, Out, Egress
      <4> QED
        BY <4>1, <1>3 DEF IInv, Out, Egress
    <3>2. DOMAIN sent' = Port /\ sent' = [p \in Port |-> sent'[p]]
      BY <1>1
    <3> QED
      BY <3>1, <3>2, <2>3
  <2>5. ASSUME NEW p \in Port, NEW k \in DOMAIN outq'[p]
        PROVE  /\ outq'[p][k].id <= transmitted'
               /\ \A l \in DOMAIN outq'[p] : k < l => outq'[p][k].id < outq'[p][l].id
               /\ \A m \in sent'[p] : m < outq'[p][k].id
    <3>1. /\ p \in some /\ k + 1 \in DOMAIN outq[p] /\ outq'[p][k] = outq[p][k + 1]
          /\ k \in Nat \ {0} /\ 1 \in DOMAIN outq[p]
          /\ Head(outq[p]) = outq[p][1] /\ sent'[p] = sent[p] \cup {Head(outq[p]).id}
      BY <1>3
    <3>2. outq'[p][k].id <= transmitted'
      BY <3>1, <2>3 DEF IInv, Out, Egress
    <3>3. \A l \in DOMAIN outq'[p] : k < l => outq'[p][k].id < outq'[p][l].id
      <4> SUFFICES ASSUME NEW l \in DOMAIN outq'[p], k < l
                   PROVE  outq'[p][k].id < outq'[p][l].id
        OBVIOUS
      <4>1. l + 1 \in DOMAIN outq[p] /\ outq'[p][l] = outq[p][l + 1] /\ k + 1 < l + 1
        BY <3>1, <1>3
      <4> QED
        BY <4>1, <3>1 DEF IInv, Out, Egress
    <3>4. outq[p][1].id < outq[p][k + 1].id /\ \A m \in sent[p] : m < outq[p][k + 1].id
      BY <3>1 DEF IInv, Out, Egress
    <3> QED
      BY <3>1, <3>2, <3>3, <3>4
  <2>6. asked' \in [Port -> SUBSET (1 .. transmitted')]
    BY <1>1 DEF IInv, Out, Egress
  <2> QED
    BY <2>1, <2>2, <2>3, <2>4, <2>5, <2>6 DEF Egress
<1>5. AwakeOut'
  BY <1>1, <1>2, <1>3, NoneAssumption DEF AwakeOut
<1>6. PromptOut'
  <2> SUFFICES ASSUME evsend' # None, NEW p \in Port, NEW k \in DOMAIN outq'[p]
               PROVE  outq'[p][k].age + evsend' + k - 1 <= OutMax
    BY DEF PromptOut
  <2>1. k \in Nat \ {0} /\ k + 1 \in DOMAIN outq[p] /\ outq'[p][k] = outq[p][k + 1]
    BY <1>3
  <2>2. outq[p][k + 1].age + 0 + (k + 1) - 1 <= OutMax
    BY <2>1, <1>1, <1>2 DEF IInv, Out, PromptOut
  <2>3. outq[p][k + 1].age \in Nat
    <3>1. outq[p][k + 1] \in Bpdu
      BY <2>1, <1>3
    <3> QED
      BY <3>1, FrameFacts
  <2>4. evsend' = 1
    BY <1>1
  <2> QED
    BY <2>1, <2>2, <2>3, <2>4, SizeAssumption
<1>7. In'
  BY <1>1, InUnchanged DEF IInv
<1>8. Commands' /\ Due'
  BY <1>1 DEF IInv, Commands, Due, input
<1> QED
  BY <1>4, <1>5, <1>6, <1>7, <1>8 DEF IInv, Out

LEMMA EnterLateInv ==
  ASSUME IInv, EnterLate
  PROVE  IInv'
<1>1. /\ phase = "early" /\ 0 \notin {evprocess, evsend, evtimer}
      /\ phase' = (IF evqueue THEN "late" ELSE "end") /\ evqueue' = FALSE
      /\ UNCHANGED <<inbuf, q, inpstate, procstate, evprocess, loss, evtimer, unplug>>
      /\ UNCHANGED <<received, processed, discarded, lost, output, sent>>
  BY DEF EnterLate, history
<1>2. Ingress' /\ PromptIn'
  BY <1>1 DEF IInv, In, Ingress, PromptIn
<1>3. AwakeIn'
  BY <1>1 DEF IInv, In, Ingress, AwakeIn
<1>4. Out'
  BY <1>1, OutUnchanged DEF IInv
<1>5. Commands' /\ Due'
  BY <1>1 DEF IInv, Commands, Due, output
<1> QED
  BY <1>2, <1>3, <1>4, <1>5 DEF IInv, In

LEMMA CommandInv ==
  ASSUME IInv, shutdown \/ \E p \in Port, dir \in Directions : plug_in(p, dir) \/ plug_out(p, dir)
  PROVE  IInv'
<1>1. /\ UNCHANGED <<input, output, phase, history>>
      /\ evtimer' \in {evtimer, None}
  BY DEF shutdown, plug_in, plug_out
<1>2. unplug' \in [Port -> SUBSET {"rx", "tx"}]
  <2>1. CASE shutdown
    BY <2>1 DEF IInv, Commands, shutdown
  <2>2. CASE \E p \in Port, dir \in Directions : plug_in(p, dir) \/ plug_out(p, dir)
    <3>1. PICK p \in Port, dir \in Directions :
            unplug' = [unplug EXCEPT ![p] = @ \ dir] \/ unplug' = [unplug EXCEPT ![p] = @ \cup dir]
      BY <2>2 DEF plug_in, plug_out
    <3>2. unplug \in [Port -> SUBSET {"rx", "tx"}] /\ dir \subseteq {"rx", "tx"}
      BY PlugAssumption DEF IInv, Commands
    <3> QED
      BY <3>1, <3>2
  <2> QED
    BY <2>1, <2>2
<1>3. In' /\ Out'
  BY <1>1, InUnchanged, OutUnchanged DEF IInv, history
<1>4. Commands' /\ Due'
  BY <1>1, <1>2, NoneAssumption DEF IInv, Commands, Due, input, output, history
<1> QED
  BY <1>3, <1>4 DEF IInv

(* A frame comes into the queue behind those of earlier slots, and if the  *)
(* bridge rests, processing begins: none has waited yet.                   *)
LEMMA lualateInv ==
  ASSUME IInv, NEW pd \in inbuf, lualate(pd)
  PROVE  IInv'
<1>1. /\ phase = "late" /\ inbuf' = inbuf \ {pd}
      /\ q' = Enqueued(q, InMax, pd)
      /\ lost' = (IF q' = q THEN lost \cup {pd} ELSE lost)
      /\ IF inbuf' = {}
           THEN inpstate' = "idle" /\ phase' = "end" /\ Wake
           ELSE UNCHANGED <<inpstate, phase, procstate, evprocess>>
      /\ UNCHANGED <<evqueue, output, evtimer, unplug, received, processed, sent, discarded, loss>>
  BY DEF lualate, Rest
<1>2. pd \in Frame /\ pd.age = 0 /\ pd.id <= received /\ pd.id \in Nat /\ inbuf # {} /\ ~ evqueue
  BY <1>1, FrameFacts DEF IInv, In, Ingress, AwakeIn, PromptIn
<1>3. /\ q \in Seq(Frame) /\ Len(q) <= InMax /\ Len(q) \in Nat /\ InMax \in Nat \ {0}
      /\ DOMAIN q = 1 .. Len(q)
  BY SizeAssumption DEF IInv, In, Ingress
<1>4. /\ q' \in Seq(Frame) /\ Len(q') <= InMax /\ q' # <<>>
      /\ \A k \in DOMAIN q : q'[k] = q[k]
      /\ \A k \in DOMAIN q' \ DOMAIN q : k = Len(q) + 1 /\ q'[k] = pd /\ Len(q) < InMax
  <2>1. CASE Len(q) < InMax
    <3>1. q' = Append(q, pd)
      BY <2>1, <1>1 DEF Enqueued
    <3>2. q' \in Seq(Frame) /\ Len(q') = Len(q) + 1 /\ DOMAIN q' = 1 .. Len(q) + 1
      BY <3>1, <1>2, <1>3
    <3>3. (\A k \in DOMAIN q : q'[k] = q[k]) /\ q'[Len(q) + 1] = pd
      BY <3>1, <1>3
    <3> QED
      BY <2>1, <3>2, <3>3, <1>3
  <2>2. CASE ~ (Len(q) < InMax)
    <3>1. q' = q
      BY <2>2, <1>1 DEF Enqueued
    <3> QED
      BY <2>2, <3>1, <1>3
  <2> QED
    BY <2>1, <2>2
<1>5. \A k \in DOMAIN q : q[k] \in Frame /\ q[k].age \in Nat /\ q[k].id <= received
  BY <1>3, FrameFacts DEF IInv, In, Ingress
<1>6. /\ evprocess' = evprocess \/ (procstate = "idle" /\ evprocess' = process_speed)
      /\ procstate' \in {"idle", "process"}
      /\ procstate' = "process" <=> evprocess' # None
      /\ inbuf' = {} => evprocess' # None
  <2>1. process_speed # None /\ procstate \in {"idle", "process"} /\ (procstate = "process" <=> evprocess # None)
    BY NoneAssumption, SpeedAssumption DEF IInv, In, Ingress, AwakeIn
  <2> QED
    BY <1>1, <2>1 DEF Wake
<1>7. Ingress'
  <2>1. \A k \in DOMAIN q' : q'[k].id <= received'
    BY <1>1, <1>2, <1>4, <1>5
  <2>2. ASSUME NEW k \in DOMAIN q', NEW l \in DOMAIN q', k <= l
        PROVE  q'[l].age <= q'[k].age
    <3>1. k \in Nat /\ l \in Nat
      BY <1>4
    <3>2. CASE l \in DOMAIN q
      <4>1. k \in DOMAIN q
        BY <1>3, <1>4, <2>2, <3>2
      <4> QED
        BY <1>4, <2>2, <3>2, <4>1 DEF IInv, In, Ingress
    <3>3. CASE l \notin DOMAIN q
      <4>1. q'[l].age = 0
        BY <1>2, <1>4, <3>3
      <4>2. q'[k].age \in Nat
        BY <1>2, <1>4, <1>5
      <4> QED
        BY <4>1, <4>2
    <3> QED
      BY <3>2, <3>3
  <2>3. evprocess' = None \/ evprocess' \in 0 .. process_speed
    BY <1>6, SpeedAssumption DEF IInv, In, Ingress
  <2>4. inbuf' \subseteq Frame /\ \A f \in inbuf' : f.id <= received'
    BY <1>1 DEF IInv, In, Ingress
  <2>5. inpstate' \in {"idle", "enqueue"}
    BY <1>1 DEF IInv, In, Ingress
  <2> QED
    BY <1>1, <1>4, <1>6, <2>1, <2>2, <2>3, <2>4, <2>5 DEF IInv, In, Ingress
<1>8. AwakeIn'
  BY <1>1, <1>2, <1>4, <1>6 DEF IInv, In, AwakeIn
<1>9. PromptIn'
  <2>1. \A f \in inbuf' : f.age = 0
    BY <1>1 DEF IInv, In, PromptIn
  <2>2. evprocess' = None => \A k \in DOMAIN q' : q'[k].age = 0
    BY <1>2, <1>4, <1>6, NoneAssumption, SpeedAssumption DEF IInv, In, PromptIn
  <2>3. ASSUME evprocess' # None, NEW k \in DOMAIN q'
        PROVE  q'[k].age + evprocess' + (k - 1) * process_speed <= InMax * process_speed
    <3>1. /\ k \in Nat \ {0} /\ k <= InMax /\ evprocess' \in Nat /\ evprocess' <= process_speed
          /\ process_speed \in Nat
      BY <1>4, <1>7, <2>3, SizeAssumption, SpeedAssumption DEF Ingress
    <3>2. CASE q'[k].age = 0
      <4>1. k * process_speed <= InMax * process_speed
        BY <3>1, <1>3, TurnsMonotone
      <4>2. evprocess' + (k - 1) * process_speed <= k * process_speed
        BY <3>1, Turns
      <4>3. /\ (k - 1) * process_speed \in Nat /\ k * process_speed \in Nat
            /\ InMax * process_speed \in Nat
        BY <3>1, <1>3, Turns
      <4> QED
        BY <3>1, <3>2, <4>1, <4>2, <4>3
    <3>3. CASE q'[k].age # 0
      <4>1. k \in DOMAIN q /\ q'[k] = q[k]
        BY <1>2, <1>4, <3>3
      <4>2. evprocess # None
        BY <3>3, <4>1 DEF IInv, In, PromptIn
      <4>3. evprocess' = evprocess
        BY <4>2, <1>6 DEF IInv, In, Ingress, AwakeIn
      <4> QED
        BY <4>1, <4>2, <4>3 DEF IInv, In, PromptIn
    <3> QED
      BY <3>2, <3>3
  <2> QED
    BY <2>1, <2>2, <2>3 DEF PromptIn
<1>10. Out'
  BY <1>1, OutUnchanged DEF IInv
<1>11. Commands' /\ Due'
  <2>1. lost' \subseteq Frame \cup Bpdu /\ phase' \in {"early", "late", "end"}
    BY <1>1, <1>2 DEF IInv, Commands
  <2>2. Due'
    BY <1>1, <1>6, SpeedAssumption DEF IInv, Due, output
  <2> QED
    BY <1>1, <2>1, <2>2 DEF IInv, Commands
<1> QED
  BY <1>7, <1>8, <1>9, <1>10, <1>11 DEF IInv, In

(* A slot later everything is one slot older, and one slot nearer to go.   *)
LEMMA NextSlotInv ==
  ASSUME IInv, NextSlot
  PROVE  IInv'
<1>1. /\ phase = "end" /\ phase' = "early"
      /\ evprocess' = Nearer(evprocess) /\ evsend' = Nearer(evsend) /\ evtimer' = Nearer(evtimer)
      /\ q' = OlderAll(q)
      /\ outq' = [p \in Port |-> OlderAll(outq[p])]
      /\ UNCHANGED <<inbuf, inpstate, procstate, evqueue, loss, sendstate, transmitted, asked, unplug>>
      /\ UNCHANGED <<received, processed, sent, lost, discarded>>
  BY DEF NextSlot, history
<1>2. 0 \notin {evprocess, evsend, evtimer}
  BY <1>1 DEF IInv, Due
<1>3. /\ evprocess = None => evprocess' = None
      /\ evprocess # None => /\ evprocess \in 1 .. process_speed
                             /\ evprocess' = evprocess - 1 /\ evprocess' # None
      /\ evsend = None => evsend' = None
      /\ evsend # None => evsend = 1 /\ evsend' = 0 /\ evsend' # None
      /\ evtimer' \in Nat \cup {None}
  BY <1>1, <1>2, NoneAssumption, SpeedAssumption
     DEF Nearer, IInv, In, Out, Ingress, Egress, Commands
<1>4. /\ q' \in Seq(Frame) /\ Len(q') = Len(q) /\ DOMAIN q' = DOMAIN q /\ (q' = <<>> <=> q = <<>>)
      /\ \A k \in DOMAIN q : /\ q'[k].id = q[k].id /\ q'[k].age = q[k].age + 1 /\ q[k].age \in Nat
                             /\ k \in Nat \ {0}
  <2>1. q \in Seq(Frame)
    BY DEF IInv, In, Ingress
  <2>2. \A k \in DOMAIN q : q[k] \in Frame /\ k \in Nat \ {0}
    BY <2>1
  <2> QED
    BY <1>1, <2>1, <2>2, OlderAllFacts, OlderFrame, FrameFacts
<1>5. ASSUME NEW p \in Port
      PROVE  /\ outq'[p] \in Seq(Bpdu) /\ Len(outq'[p]) = Len(outq[p]) /\ DOMAIN outq'[p] = DOMAIN outq[p]
             /\ outq'[p] = <<>> <=> outq[p] = <<>>
             /\ \A k \in DOMAIN outq[p] :
                  /\ outq'[p][k].id = outq[p][k].id /\ outq'[p][k].age = outq[p][k].age + 1
                  /\ outq[p][k].age \in Nat /\ k \in Nat \ {0}
  <2>1. outq[p] \in Seq(Bpdu) /\ outq'[p] = OlderAll(outq[p])
    BY <1>1 DEF IInv, Out, Egress
  <2>2. \A k \in DOMAIN outq[p] : outq[p][k] \in Bpdu /\ k \in Nat \ {0}
    BY <2>1
  <2> QED
    BY <2>1, <2>2, OlderAllFacts, OlderBpdu, FrameFacts
<1>6. Ingress'
  <2>1. Len(q') <= InMax /\ \A k \in DOMAIN q' : q'[k].id <= received'
    BY <1>1, <1>4 DEF IInv, In, Ingress
  <2>2. \A k, l \in DOMAIN q' : k <= l => q'[l].age <= q'[k].age
    BY <1>4 DEF IInv, In, Ingress
  <2>3. evprocess' = None \/ evprocess' \in 0 .. process_speed
    BY <1>3, SpeedAssumption
  <2> QED
    BY <1>1, <1>4, <2>1, <2>2, <2>3 DEF IInv, In, Ingress
<1>7. AwakeIn'
  BY <1>1, <1>3, <1>4 DEF IInv, In, Ingress, AwakeIn
<1>8. PromptIn'
  <2>1. \A f \in inbuf' : f.age = 0
    BY <1>1 DEF IInv, In, PromptIn
  <2>2. CASE evprocess = None
    <3>1. q = <<>>
      BY <2>2, <1>1 DEF IInv, In, AwakeIn
    <3>2. DOMAIN q' = {}
      BY <3>1, <1>4
    <3> QED
      BY <2>1, <3>2 DEF PromptIn
  <2>3. CASE evprocess # None
    <3>1. ASSUME NEW k \in DOMAIN q
          PROVE  q[k].age + 1 + (evprocess - 1) + (k - 1) * process_speed <= InMax * process_speed
      <4>1. q[k].age + evprocess + (k - 1) * process_speed <= InMax * process_speed
        BY <2>3 DEF IInv, In, PromptIn
      <4>2. q[k].age \in Nat /\ evprocess \in Nat /\ k \in Nat \ {0} /\ (k - 1) * process_speed \in Nat
        BY <1>3, <1>4, <2>3, SpeedAssumption, Turns
      <4> QED
        BY <4>1, <4>2
    <3> QED
      BY <3>1, <2>1, <2>3, <1>3, <1>4 DEF PromptIn
  <2> QED
    BY <2>2, <2>3
<1>9. Egress'
  <2>1. outq' \in [Port -> Seq(Bpdu)] /\ \A p \in Port : Len(outq'[p]) <= OutMax
    BY <1>1, <1>5 DEF IInv, Out, Egress
  <2>2. \A p \in Port : \A k \in DOMAIN outq'[p] :
          /\ outq'[p][k].id <= transmitted'
          /\ \A l \in DOMAIN outq'[p] : k < l => outq'[p][k].id < outq'[p][l].id
          /\ \A m \in sent'[p] : m < outq'[p][k].id
    <3>1. transmitted' = transmitted /\ sent' = sent
      BY <1>1
    <3>2. \A p \in Port : /\ DOMAIN outq'[p] = DOMAIN outq[p]
                          /\ \A k \in DOMAIN outq[p] : outq'[p][k].id = outq[p][k].id
      BY <1>5
    <3> QED
      BY <3>1, <3>2 DEF IInv, Out, Egress
  <2>3. evsend' = None \/ evsend' \in 0 .. 1
    BY <1>3
  <2> QED
    BY <1>1, <2>1, <2>2, <2>3 DEF IInv, Out, Egress
<1>10. AwakeOut'
  BY <1>1, <1>3, <1>5 DEF IInv, Out, AwakeOut
<1>11. PromptOut'
  <2> SUFFICES ASSUME evsend' # None, NEW p \in Port, NEW k \in DOMAIN outq'[p]
               PROVE  outq'[p][k].age + evsend' + k - 1 <= OutMax
    BY DEF PromptOut
  <2>1. evsend = 1 /\ evsend' = 0 /\ evsend # None
    BY <1>3
  <2>2. k \in DOMAIN outq[p] /\ outq'[p][k].age = outq[p][k].age + 1 /\ outq[p][k].age \in Nat /\ k \in Nat
    BY <1>5
  <2>3. outq[p][k].age + evsend + k - 1 <= OutMax
    BY <2>1, <2>2 DEF IInv, Out, PromptOut
  <2> QED
    BY <2>1, <2>2, <2>3, SizeAssumption
<1>12. Commands' /\ Due'
  BY <1>1, <1>3 DEF IInv, Commands, Due
<1> QED
  BY <1>6, <1>7, <1>8, <1>9, <1>10, <1>11, <1>12 DEF IInv, In, Out

LEMMA NextInv ==
  ASSUME IInv, [Next]_vars
  PROVE  IInv'
<1>1. CASE UNCHANGED vars
  <2>1. UNCHANGED <<input, phase, received, processed, discarded>> /\ UNCHANGED <<output, sent>>
    BY <1>1 DEF vars, history
  <2>2. In' /\ Out'
    BY <2>1, InUnchanged, OutUnchanged DEF IInv
  <2>3. Commands' /\ Due'
    BY <1>1 DEF IInv, Commands, Due, vars, input, output, history
  <2> QED
    BY <2>2, <2>3 DEF IInv
<1>2. CASE \E p \in Port : luarec(p)
  BY <1>2, luarecInv
<1>3. CASE \E T \in SUBSET Port : Process(T) \/ Clock(T) \/ start(T)
  BY <1>3, ProcessInv, ClockInv
<1>4. CASE Transmit
  BY <1>4, TransmitInv
<1>5. CASE EnterLate
  BY <1>5, EnterLateInv
<1>6. CASE \E pd \in inbuf : lualate(pd)
  BY <1>6, lualateInv
<1>7. CASE shutdown \/ \E p \in Port, dir \in Directions : plug_in(p, dir) \/ plug_out(p, dir)
  BY <1>7, CommandInv
<1>8. CASE NextSlot
  BY <1>8, NextSlotInv
<1> QED
  BY <1>1, <1>2, <1>3, <1>4, <1>5, <1>6, <1>7, <1>8 DEF Next

LEMMA Invariant == Spec => []IInv
  BY InitInv, NextInv, PTL DEF Spec

(* The queues, states, events and histories of a bridge (rstp.lua) stay    *)
(* within their types, and no queue grows beyond its size.                 *)
THEOREM TypeCorrect == Spec => []TypeOK
<1>1. IInv => TypeOK
  BY SpeedAssumption DEF IInv, Commands, In, Out, Ingress, Egress, TypeOK
<1> QED
  BY <1>1, Invariant, PTL

(* Whatever waits in the node has an event that moves it on, and lualate   *)
(* and EVPROCESS, which take a frame without a test, always find one.      *)
THEOREM AlwaysAwake == Spec => []Awake
<1>1. IInv => Awake
  BY DEF IInv, In, Out, AwakeIn, AwakeOut, Awake
<1> QED
  BY <1>1, Invariant, PTL

(* A frame reaches the protocol after InMax * process_speed slots at most, *)
(* a BPDU leaves after OutMax slots at most.                               *)
THEOREM AlwaysPrompt == Spec => []Prompt
<1>1. IInv => Prompt
  BY DEF IInv, In, Out, PromptIn, PromptOut, Prompt
<1> QED
  BY <1>1, Invariant, PTL

(* Frames reach the protocol by the order of their slots, and the BPDUs of *)
(* a port leave in the order in which cb_tx_bpdu got them.                 *)
THEOREM KeepsOrder == Spec => InOrder
<1> DEFINE Kept == /\ processed' # processed => \A k \in DOMAIN q : q[k].age <= Head(q).age
                   /\ \A p \in Port : \A n \in sent'[p] \ sent[p] : \A m \in sent[p] : m < n
<1>1. ASSUME IInv, [Next]_vars PROVE Kept
  <2>1. CASE Transmit
    <3>1. processed' = processed
      BY <2>1 DEF Transmit
    <3>2. ASSUME NEW p \in Port, NEW n \in sent'[p] \ sent[p], NEW m \in sent[p] PROVE m < n
      <4>1. outq[p] # <<>> /\ n = Head(outq[p]).id
        BY <2>1, <3>2 DEF Transmit
      <4>2. outq[p] \in Seq(Bpdu)
        BY <1>1 DEF IInv, Out, Egress
      <4>3. Head(outq[p]) = outq[p][1] /\ 1 \in DOMAIN outq[p]
        BY <4>1, <4>2, TailFacts
      <4> QED
        BY <1>1, <3>2, <4>1, <4>3 DEF IInv, Out, Egress
    <3> QED
      BY <3>1, <3>2
  <2>2. CASE \E T \in SUBSET Port : Process(T)
    <3>1. sent' = sent /\ evprocess = 0 /\ phase = "early"
      BY <2>2 DEF Process
    <3>2. q # <<>> /\ q \in Seq(Frame)
      BY <1>1, <3>1, NoneAssumption DEF IInv, In, Ingress, AwakeIn
    <3>3. Head(q) = q[1] /\ 1 \in DOMAIN q /\ \A k \in DOMAIN q : 1 <= k
      BY <3>2, TailFacts
    <3> QED
      BY <1>1, <3>1, <3>3 DEF IInv, In, Ingress
  <2>3. CASE UNCHANGED <<processed, sent>>
    BY <2>3
  <2>4. Transmit \/ (\E T \in SUBSET Port : Process(T)) \/ UNCHANGED <<processed, sent>>
    BY <1>1 DEF Next, luarec, Clock, start, EnterLate, lualate, shutdown, plug_in, plug_out, NextSlot,
           vars, history
  <2> QED
    BY <2>1, <2>2, <2>3, <2>4
<1>2. IInv /\ [Next]_vars => [Kept]_vars
  BY <1>1
<1> QED
  BY <1>2, Invariant, PTL DEF Spec, InOrder

-----------------------------------------------------------------------------
(* Conservation.  The places are disjoint as far as a frame can still move *)
(* from one to the other (Apart), so that counting frames is counting      *)
(* numbers (Counted), and no number is without a place (Complete).         *)
Apart ==
  /\ \A f, g \in inbuf : f.id = g.id => f = g
  /\ \A k, l \in DOMAIN q : q[k].id = q[l].id => k = l
  /\ \A f \in inbuf : /\ f.id \notin processed
                      /\ \A k \in DOMAIN q : q[k].id # f.id
                      /\ \A g \in LostFrames : g.id # f.id
  /\ \A k \in DOMAIN q : q[k].id \notin processed
  /\ \A f \in LostFrames \cup discarded : f.id \in 1 .. received

Counted ==
  /\ IsFiniteSet(inbuf) /\ IsFiniteSet(LostFrames)
  /\ IsFiniteSet(discarded) /\ IsFiniteSet(processed)
  /\ Cardinality(inbuf) \in Nat /\ Cardinality(LostFrames) \in Nat
  /\ Cardinality(discarded) \in Nat /\ Cardinality(processed) \in Nat
  /\ Cardinality(inbuf) + Len(q) + Cardinality(LostFrames)
       + Cardinality(discarded) + Cardinality(processed) = received

Complete ==
  \A n \in 1 .. received :
    \/ n \in processed
    \/ \E f \in inbuf \cup LostFrames \cup discarded : f.id = n
    \/ \E k \in DOMAIN q : q[k].id = n

Places == Apart /\ Counted /\ Complete

LEMMA InitPlaces == Init => Places
<1> SUFFICES ASSUME Init PROVE Places
  OBVIOUS
<1>1. /\ inbuf = {} /\ LostFrames = {} /\ discarded = {} /\ processed = {} /\ received = 0
      /\ Len(q) = 0 /\ DOMAIN q = {}
  BY DEF Init, LostFrames
<1>2. Apart /\ Complete
  BY <1>1 DEF Apart, Complete
<1>3. Counted
  BY <1>1, FS_EmptySet DEF Counted
<1> QED
  BY <1>2, <1>3 DEF Places

(* Frames that only get older stay where they are.                         *)
LEMMA PlacesUnchanged ==
  ASSUME Places, UNCHANGED <<inbuf, received, processed, discarded>>, LostFrames' = LostFrames,
         Len(q') = Len(q), DOMAIN q' = DOMAIN q, \A k \in DOMAIN q : q'[k].id = q[k].id
  PROVE  Places'
<1>1. Apart'
  BY DEF Places, Apart
<1>2. Counted' /\ Complete'
  BY DEF Places, Counted, Complete
<1> QED
  BY <1>1, <1>2 DEF Places

LEMMA Added ==
  ASSUME NEW S, NEW x, IsFiniteSet(S), Cardinality(S) \in Nat, x \notin S
  PROVE  /\ IsFiniteSet(S \cup {x}) /\ Cardinality(S \cup {x}) \in Nat
         /\ Cardinality(S \cup {x}) = Cardinality(S) + 1
  BY FS_AddElement

LEMMA Removed ==
  ASSUME NEW S, NEW x, IsFiniteSet(S), x \in S
  PROVE  /\ IsFiniteSet(S \ {x}) /\ Cardinality(S \ {x}) \in Nat
         /\ Cardinality(S \ {x}) = Cardinality(S) - 1
  BY FS_RemoveElement, FS_CardinalityType

LEMMA OneMore ==
  ASSUME NEW a \in Nat, NEW b \in Nat, NEW c \in Nat, NEW d \in Nat, NEW e \in Nat, NEW n \in Nat,
         a + b + c + d + e = n
  PROVE  (a + 1) + b + c + d + e = n + 1 /\ a + b + c + (d + 1) + e = n + 1
  OBVIOUS

(* The number of a frame that arrives is new.                              *)
LEMMA luarecPlaces ==
  ASSUME IInv, Places, NEW p \in Port, luarec(p)
  PROVE  Places'
<1> DEFINE pd == [kind |-> "rx", id |-> received + 1, port |-> p, age |-> 0]
<1>1. /\ received' = received + 1
      /\ \/ discarded' = discarded \cup {pd} /\ inbuf' = inbuf
         \/ inbuf' = inbuf \cup {pd} /\ discarded' = discarded
      /\ q' = q /\ processed' = processed /\ LostFrames' = LostFrames
  BY DEF luarec, LostFrames
<1>2. pd.id = received + 1 /\ received \in Nat
  BY SizeAssumption DEF IInv, In, Ingress
<1> HIDE DEF pd
<1>3. /\ \A f \in inbuf : f.id \in Nat /\ f.id <= received
      /\ \A k \in DOMAIN q : q[k].id \in Nat /\ q[k].id <= received
      /\ \A n \in processed : n \in Nat /\ n <= received
      /\ \A f \in LostFrames \cup discarded : f.id \in Nat /\ f.id <= received /\ f.id \in 1 .. received
  <2>1. \A k \in DOMAIN q : q[k] \in Frame
    BY DEF IInv, In, Ingress
  <2> QED
    BY <2>1, <1>2, FrameFacts DEF IInv, In, Ingress, Places, Apart
<1>4. pd \notin inbuf /\ pd \notin discarded
  BY <1>2, <1>3
<1>5. Apart'
  <2>1. \A f, g \in inbuf' : f.id = g.id => f = g
    BY <1>1, <1>2, <1>3 DEF Places, Apart
  <2>2. \A f \in inbuf' : /\ f.id \notin processed'
                          /\ \A k \in DOMAIN q' : q'[k].id # f.id
                          /\ \A g \in LostFrames' : g.id # f.id
    BY <1>1, <1>2, <1>3 DEF Places, Apart
  <2>3. \A f \in LostFrames' \cup discarded' : f.id \in 1 .. received'
    BY <1>1, <1>2, <1>3
  <2> QED
    BY <1>1, <2>1, <2>2, <2>3 DEF Places, Apart
<1>6. Counted'
  <2>0. Counted /\ Len(q) \in Nat
    BY DEF Places, IInv, In, Ingress
  <2>1. CASE inbuf' = inbuf \cup {pd} /\ discarded' = discarded
    <3>1. IsFiniteSet(inbuf') /\ Cardinality(inbuf') \in Nat /\ Cardinality(inbuf') = Cardinality(inbuf) + 1
      <4>1. IsFiniteSet(inbuf) /\ Cardinality(inbuf) \in Nat
        BY <2>0 DEF Counted
      <4>2. /\ IsFiniteSet(inbuf \cup {pd}) /\ Cardinality(inbuf \cup {pd}) \in Nat
            /\ Cardinality(inbuf \cup {pd}) = Cardinality(inbuf) + 1
        BY <4>1, <1>4, Added
      <4> QED
        BY <4>2, <2>1
    <3>2. discarded' = discarded /\ q' = q /\ processed' = processed /\ LostFrames' = LostFrames /\ received' = received + 1
      BY <2>1, <1>1
    <3>3. /\ Cardinality(inbuf) \in Nat /\ Cardinality(LostFrames) \in Nat
          /\ Cardinality(discarded) \in Nat /\ Cardinality(processed) \in Nat
          /\ Cardinality(inbuf) + Len(q) + Cardinality(LostFrames)
               + Cardinality(discarded) + Cardinality(processed) = received
      BY <2>0 DEF Counted
    <3>4. Cardinality(inbuf') + Len(q) + Cardinality(LostFrames)
            + Cardinality(discarded) + Cardinality(processed) = received + 1
      <4>1. (Cardinality(inbuf) + 1) + Len(q) + Cardinality(LostFrames)
              + Cardinality(discarded) + Cardinality(processed) = received + 1
        BY <3>3, <2>0, <1>2, OneMore
      <4> QED
        BY <4>1, <3>1
    <3>5. /\ IsFiniteSet(inbuf') /\ IsFiniteSet(LostFrames')
          /\ IsFiniteSet(discarded') /\ IsFiniteSet(processed')
      BY <3>1, <3>2, <2>0 DEF Counted
    <3>6. /\ Cardinality(inbuf') \in Nat /\ Cardinality(LostFrames') \in Nat
          /\ Cardinality(discarded') \in Nat /\ Cardinality(processed') \in Nat
      BY <3>1, <3>2, <3>3
    <3>7. Cardinality(inbuf') + Len(q') + Cardinality(LostFrames')
            + Cardinality(discarded') + Cardinality(processed') = received'
      BY <3>2, <3>4
    <3> QED
      BY <3>5, <3>6, <3>7 DEF Counted
  <2>2. CASE discarded' = discarded \cup {pd} /\ inbuf' = inbuf
    <3>1. /\ IsFiniteSet(discarded') /\ Cardinality(discarded') \in Nat
          /\ Cardinality(discarded') = Cardinality(discarded) + 1
      <4>1. IsFiniteSet(discarded) /\ Cardinality(discarded) \in Nat
        BY <2>0 DEF Counted
      <4>2. /\ IsFiniteSet(discarded \cup {pd}) /\ Cardinality(discarded \cup {pd}) \in Nat
            /\ Cardinality(discarded \cup {pd}) = Cardinality(discarded) + 1
        BY <4>1, <1>4, Added
      <4> QED
        BY <4>2, <2>2
    <3>2. inbuf' = inbuf /\ q' = q /\ processed' = processed /\ LostFrames' = LostFrames /\ received' = received + 1
      BY <2>2, <1>1
    <3>3. /\ Cardinality(inbuf) \in Nat /\ Cardinality(LostFrames) \in Nat
          /\ Cardinality(discarded) \in Nat /\ Cardinality(processed) \in Nat
          /\ Cardinality(inbuf) + Len(q) + Cardinality(LostFrames)
               + Cardinality(discarded) + Cardinality(processed) = received
      BY <2>0 DEF Counted
    <3>4. Cardinality(inbuf) + Len(q) + Cardinality(LostFrames)
            + Cardinality(discarded') + Cardinality(processed) = received + 1
      <4>1. Cardinality(inbuf) + Len(q) + Cardinality(LostFrames)
              + (Cardinality(discarded) + 1) + Cardinality(processed) = received + 1
        BY <3>3, <2>0, <1>2, OneMore
      <4> QED
        BY <4>1, <3>1
    <3>5. /\ IsFiniteSet(inbuf') /\ IsFiniteSet(LostFrames')
          /\ IsFiniteSet(discarded') /\ IsFiniteSet(processed')
      BY <3>1, <3>2, <2>0 DEF Counted
    <3>6. /\ Cardinality(inbuf') \in Nat /\ Cardinality(LostFrames') \in Nat
          /\ Cardinality(discarded') \in Nat /\ Cardinality(processed') \in Nat
      BY <3>1, <3>2, <3>3
    <3>7. Cardinality(inbuf') + Len(q') + Cardinality(LostFrames')
            + Cardinality(discarded') + Cardinality(processed') = received'
      BY <3>2, <3>4
    <3> QED
      BY <3>5, <3>6, <3>7 DEF Counted
  <2> QED
    BY <2>1, <2>2, <1>1
<1>7. Complete'
  <2> SUFFICES ASSUME NEW n \in 1 .. received + 1
               PROVE  \/ n \in processed
                      \/ \E f \in inbuf' \cup LostFrames \cup discarded' : f.id = n
                      \/ \E k \in DOMAIN q : q[k].id = n
    BY <1>1 DEF Complete
  <2>1. CASE n = received + 1
    BY <2>1, <1>1, <1>2
  <2>2. CASE n # received + 1
    <3>1. n \in 1 .. received
      BY <2>2, <1>2
    <3> QED
      BY <3>1, <1>1 DEF Places, Complete
  <2> QED
    BY <2>1, <2>2
<1> QED
  BY <1>5, <1>6, <1>7 DEF Places

(* The protocol never gets a frame a second time.                          *)
LEMMA ProcessPlaces ==
  ASSUME IInv, Places, NEW T \in SUBSET Port, Process(T)
  PROVE  Places'
<1>1. /\ phase = "early" /\ evprocess = 0 /\ q' = Tail(q) /\ processed' = processed \cup {Head(q).id}
      /\ UNCHANGED <<inbuf, received, discarded, sent>> /\ cb_tx_bpdu(T)
  BY DEF Process
<1>2. q # <<>> /\ q \in Seq(Frame)
  BY <1>1, NoneAssumption DEF IInv, In, Ingress, AwakeIn
<1>3. /\ Head(q) = q[1] /\ 1 \in DOMAIN q /\ Len(q) \in Nat /\ Len(q') = Len(q) - 1
      /\ \A k \in DOMAIN q' : k \in Nat \ {0} /\ k + 1 \in DOMAIN q /\ q'[k] = q[k + 1]
  BY <1>1, <1>2, TailFacts
<1>4. LostFrames' = LostFrames
  BY <1>1, Transmitting DEF IInv, Commands, LostFrames
<1>5. Head(q).id \notin processed
  BY <1>3 DEF Places, Apart
<1>6. Apart'
  <2>1. \A k, l \in DOMAIN q' : q'[k].id = q'[l].id => k = l
    <3> SUFFICES ASSUME NEW k \in DOMAIN q', NEW l \in DOMAIN q', q'[k].id = q'[l].id
                 PROVE  k = l
      OBVIOUS
    <3>1. k + 1 = l + 1
      BY <1>3 DEF Places, Apart
    <3> QED
      BY <3>1, <1>3
  <2>2. \A f \in inbuf' : /\ f.id \notin processed'
                          /\ \A k \in DOMAIN q' : q'[k].id # f.id
                          /\ \A g \in LostFrames' : g.id # f.id
    BY <1>1, <1>3, <1>4 DEF Places, Apart
  <2>3. \A k \in DOMAIN q' : q'[k].id \notin processed'
    <3> SUFFICES ASSUME NEW k \in DOMAIN q' PROVE q'[k].id \notin processed'
      OBVIOUS
    <3>1. k + 1 \in DOMAIN q /\ q'[k] = q[k + 1] /\ k + 1 # 1
      BY <1>3
    <3>2. q[k + 1].id # q[1].id /\ q[k + 1].id \notin processed
      BY <3>1, <1>3 DEF Places, Apart
    <3> QED
      BY <3>1, <3>2, <1>1, <1>3
  <2> QED
    BY <1>1, <1>4, <2>1, <2>2, <2>3 DEF Places, Apart
<1>7. Counted'
  <2>1. /\ IsFiniteSet(processed') /\ Cardinality(processed') \in Nat
        /\ Cardinality(processed') = Cardinality(processed) + 1
    BY <1>1, <1>5, Added DEF Places, Counted
  <2>2. Cardinality(inbuf) + Len(q) + Cardinality(LostFrames)
          + Cardinality(discarded) + Cardinality(processed) = received
    BY DEF Places, Counted
  <2>3. Cardinality(inbuf) + Len(q') + Cardinality(LostFrames)
          + Cardinality(discarded) + Cardinality(processed') = received
    BY <2>1, <2>2, <1>3 DEF Places, Counted
  <2> QED
    BY <2>1, <2>3, <1>1, <1>4 DEF Places, Counted
<1>8. Complete'
  <2> SUFFICES ASSUME NEW n \in 1 .. received
               PROVE  \/ n \in processed'
                      \/ \E f \in inbuf \cup LostFrames \cup discarded : f.id = n
                      \/ \E k \in DOMAIN q' : q'[k].id = n
    BY <1>1, <1>4 DEF Complete
  <2>1. CASE \E k \in DOMAIN q : q[k].id = n
    <3>1. PICK k \in DOMAIN q : q[k].id = n
      BY <2>1
    <3>2. CASE k = 1
      BY <3>1, <3>2, <1>1, <1>3
    <3>3. CASE k # 1
      <4>1. k - 1 \in DOMAIN q' /\ q'[k - 1] = q[k]
        BY <3>3, <1>1, <1>2
      <4> QED
        BY <3>1, <4>1
    <3> QED
      BY <3>2, <3>3
  <2>2. CASE ~ \E k \in DOMAIN q : q[k].id = n
    BY <2>2, <1>1 DEF Places, Complete
  <2> QED
    BY <2>1, <2>2
<1> QED
  BY <1>6, <1>7, <1>8 DEF Places

(* A frame leaves the input buffer for the queue, or is lost.              *)
LEMMA lualatePlaces ==
  ASSUME IInv, Places, NEW pd \in inbuf, lualate(pd)
  PROVE  Places'
<1>1. /\ inbuf' = inbuf \ {pd} /\ q' = Enqueued(q, InMax, pd)
      /\ lost' = (IF q' = q THEN lost \cup {pd} ELSE lost)
      /\ UNCHANGED <<received, processed, discarded>>
  BY DEF lualate, Rest
<1>2. pd \in Frame /\ pd.kind = "rx" /\ pd.id \in 1 .. received /\ received \in Nat
  BY FrameFacts, SizeAssumption DEF IInv, In, Ingress, Frame
<1>3. q \in Seq(Frame) /\ Len(q) \in Nat /\ DOMAIN q = 1 .. Len(q)
  BY DEF IInv, In, Ingress
<1>4. /\ IsFiniteSet(inbuf') /\ Cardinality(inbuf') \in Nat
      /\ Cardinality(inbuf') = Cardinality(inbuf) - 1
  BY <1>1, Removed DEF Places, Counted
<1>5. /\ pd.id \notin processed
      /\ \A k \in DOMAIN q : q[k].id # pd.id
      /\ \A g \in LostFrames : g.id # pd.id
      /\ \A f \in inbuf' : f.id # pd.id /\ f \in inbuf
  BY <1>1 DEF Places, Apart
<1>6. CASE Len(q) < InMax
  <2>1. q' = Append(q, pd)
    BY <1>1, <1>6 DEF Enqueued
  <2>2. /\ Len(q') = Len(q) + 1 /\ DOMAIN q' = 1 .. Len(q) + 1
        /\ \A k \in DOMAIN q : q'[k] = q[k] /\ k \in DOMAIN q'
        /\ q'[Len(q) + 1] = pd /\ Len(q) + 1 \in DOMAIN q'
        /\ \A k \in DOMAIN q' : k \in DOMAIN q \/ k = Len(q) + 1
    BY <2>1, <1>2, <1>3
  <2>3. LostFrames' = LostFrames
    <3>1. q' # q
      BY <2>2, <1>3
    <3> QED
      BY <3>1, <1>1 DEF LostFrames
  <2>4. Apart'
    <3>1. \A k, l \in DOMAIN q' : q'[k].id = q'[l].id => k = l
      BY <1>5, <2>2 DEF Places, Apart
    <3>2. \A f \in inbuf' : /\ f.id \notin processed'
                            /\ \A k \in DOMAIN q' : q'[k].id # f.id
                            /\ \A g \in LostFrames' : g.id # f.id
      BY <1>1, <1>5, <2>2, <2>3 DEF Places, Apart
    <3>3. \A k \in DOMAIN q' : q'[k].id \notin processed'
      BY <1>1, <1>5, <2>2 DEF Places, Apart
    <3> QED
      BY <1>1, <1>5, <2>3, <3>1, <3>2, <3>3 DEF Places, Apart
  <2>5. Counted'
    BY <1>1, <1>3, <1>4, <2>2, <2>3 DEF Places, Counted
  <2>6. Complete'
    <3> SUFFICES ASSUME NEW n \in 1 .. received
                 PROVE  \/ n \in processed
                        \/ \E f \in inbuf' \cup LostFrames \cup discarded : f.id = n
                        \/ \E k \in DOMAIN q' : q'[k].id = n
      BY <1>1, <2>3 DEF Complete
    <3>1. CASE n = pd.id
      BY <3>1, <2>2
    <3>2. CASE n # pd.id
      BY <3>2, <1>1, <2>2 DEF Places, Complete
    <3> QED
      BY <3>1, <3>2
  <2> QED
    BY <2>4, <2>5, <2>6 DEF Places
<1>7. CASE ~ (Len(q) < InMax)
  <2>1. q' = q /\ lost' = lost \cup {pd}
    BY <1>1, <1>7 DEF Enqueued
  <2>2. LostFrames' = LostFrames \cup {pd}
    BY <2>1, <1>2 DEF LostFrames
  <2>3. /\ IsFiniteSet(LostFrames') /\ Cardinality(LostFrames') \in Nat
        /\ Cardinality(LostFrames') = Cardinality(LostFrames) + 1
    BY <2>2, <1>5, Added DEF Places, Counted
  <2>4. Apart'
    BY <1>1, <1>2, <1>5, <2>1, <2>2 DEF Places, Apart
  <2>5. Counted'
    BY <1>1, <1>3, <1>4, <2>1, <2>3 DEF Places, Counted
  <2>6. Complete'
    <3> SUFFICES ASSUME NEW n \in 1 .. received
                 PROVE  \/ n \in processed
                        \/ \E f \in inbuf' \cup LostFrames' \cup discarded : f.id = n
                        \/ \E k \in DOMAIN q : q[k].id = n
      BY <1>1, <2>1 DEF Complete
    <3> QED
      BY <1>1, <2>2 DEF Places, Complete
  <2> QED
    BY <2>4, <2>5, <2>6 DEF Places
<1> QED
  BY <1>6, <1>7

(* Where the BPDUs for the plugged ports are.  The order of the queues and *)
(* of what was sent, in Egress, keeps these two apart.                     *)
OutPlaces ==
  \A p \in Port :
    /\ sent[p] \subseteq asked[p] /\ Dropped(p) \subseteq asked[p]
    /\ sent[p] \cap Dropped(p) = {}
    /\ \A k \in DOMAIN outq[p] : outq[p][k].id \in asked[p] /\ outq[p][k].id \notin Dropped(p)
    /\ \A n \in asked[p] : \/ n \in sent[p] \/ n \in Dropped(p)
                           \/ \E k \in DOMAIN outq[p] : outq[p][k].id = n

LEMMA InitOutPlaces == Init => OutPlaces
  BY DEF Init, OutPlaces, Dropped, Numbers

LEMMA OutPlacesUnchanged ==
  ASSUME OutPlaces, UNCHANGED <<asked, sent>>, \A p \in Port : Dropped(p)' = Dropped(p),
         \A p \in Port : /\ DOMAIN outq'[p] = DOMAIN outq[p]
                         /\ \A k \in DOMAIN outq[p] : outq'[p][k].id = outq[p][k].id
  PROVE  OutPlaces'
  BY DEF OutPlaces

LEMMA DroppedUnchanged ==
  ASSUME lost \subseteq lost', \A f \in lost' \ lost : f.kind = "rx"
  PROVE  \A p \in Port : Dropped(p)' = Dropped(p)
<1>1. ASSUME NEW p \in Port
      PROVE  {f \in lost' : f.kind = "tx" /\ f.port = p} = {f \in lost : f.kind = "tx" /\ f.port = p}
  OBVIOUS
<1> QED
  BY <1>1 DEF Dropped, Numbers

(* A new BPDU is queued or lost, and has a number no other has.            *)
LEMMA TransmittingPlaces ==
  ASSUME IInv, OutPlaces, NEW T \in SUBSET Port, cb_tx_bpdu(T), sent' = sent
  PROVE  OutPlaces'
<1> DEFINE plugged == {p \in T : "tx" \notin unplug[p]}
           Pd(p)   == [kind |-> "tx", id |-> transmitted + 1, port |-> p, age |-> 0]
<1>1. /\ outq' = [p \in Port |-> IF p \in plugged THEN Enqueued(outq[p], OutMax, Pd(p))
                                                  ELSE outq[p]]
      /\ plugged \subseteq Port /\ plugged \subseteq T
      /\ lost' = lost \cup {Pd(p) : p \in {r \in plugged : outq'[r] = outq[r]}}
      /\ asked' = [p \in Port |-> IF p \in plugged THEN asked[p] \cup {transmitted'} ELSE asked[p]]
      /\ T # {} => transmitted' = transmitted + 1
  BY DEF cb_tx_bpdu
<1>2. \A p \in Port : Pd(p).kind = "tx" /\ Pd(p).id = transmitted + 1 /\ Pd(p).port = p
  OBVIOUS
<1>3. transmitted \in Nat /\ asked \in [Port -> SUBSET (1 .. transmitted)]
  BY SizeAssumption DEF IInv, Out, Egress
<1> HIDE DEF plugged, Pd
<1> SUFFICES ASSUME NEW p \in Port
             PROVE  /\ sent[p] \subseteq asked'[p] /\ Dropped(p)' \subseteq asked'[p]
                    /\ sent[p] \cap Dropped(p)' = {}
                    /\ \A k \in DOMAIN outq'[p] : /\ outq'[p][k].id \in asked'[p]
                                                   /\ outq'[p][k].id \notin Dropped(p)'
                    /\ \A n \in asked'[p] : \/ n \in sent[p] \/ n \in Dropped(p)'
                                            \/ \E k \in DOMAIN outq'[p] : outq'[p][k].id = n
  BY DEF OutPlaces
<1>4. outq[p] \in Seq(Bpdu) /\ Len(outq[p]) \in Nat /\ DOMAIN outq[p] = 1 .. Len(outq[p])
  BY DEF IInv, Out, Egress
<1>5. CASE p \in plugged /\ Len(outq[p]) < OutMax
  <2>1. outq'[p] = Append(outq[p], Pd(p))
    BY <1>1, <1>5 DEF Enqueued
  <2>2. /\ DOMAIN outq'[p] = 1 .. Len(outq[p]) + 1
        /\ \A k \in DOMAIN outq[p] : outq'[p][k] = outq[p][k]
        /\ outq'[p][Len(outq[p]) + 1] = Pd(p)
        /\ outq'[p] # outq[p]
    BY <2>1, <1>4
  <2>3. {f \in lost' : f.kind = "tx" /\ f.port = p} = {f \in lost : f.kind = "tx" /\ f.port = p}
    BY <1>1, <1>2, <2>2
  <2>4. Dropped(p)' = Dropped(p)
    BY <2>3 DEF Dropped, Numbers
  <2>5. asked'[p] = asked[p] \cup {transmitted + 1} /\ transmitted + 1 \notin asked[p]
    BY <1>1, <1>3, <1>5
  <2>6. \A k \in DOMAIN outq'[p] : k \in DOMAIN outq[p] \/ k = Len(outq[p]) + 1
    BY <2>2, <1>4
  <2>7. \A k \in DOMAIN outq[p] : k \in DOMAIN outq'[p] /\ outq'[p][k].id = outq[p][k].id
    BY <2>2, <1>4
  <2>8. Len(outq[p]) + 1 \in DOMAIN outq'[p] /\ outq'[p][Len(outq[p]) + 1].id = transmitted + 1
    BY <1>2, <1>4, <2>2
  <2> QED
    BY <2>4, <2>5, <2>6, <2>7, <2>8 DEF OutPlaces
<1>6. CASE p \in plugged /\ ~ (Len(outq[p]) < OutMax)
  <2>1. outq'[p] = outq[p]
    BY <1>1, <1>6 DEF Enqueued
  <2>2. {f \in lost' : f.kind = "tx" /\ f.port = p}
          = {f \in lost : f.kind = "tx" /\ f.port = p} \cup {Pd(p)}
    BY <1>1, <1>2, <1>6, <2>1
  <2>3. Dropped(p)' = Dropped(p) \cup {transmitted + 1}
    BY <2>2, <1>2 DEF Dropped, Numbers
  <2>4. asked'[p] = asked[p] \cup {transmitted + 1} /\ transmitted + 1 \notin asked[p]
    BY <1>1, <1>3, <1>6
  <2> QED
    BY <2>1, <2>3, <2>4 DEF OutPlaces
<1>7. CASE p \notin plugged
  <2>1. outq'[p] = outq[p] /\ asked'[p] = asked[p]
    BY <1>1, <1>7
  <2>2. {f \in lost' : f.kind = "tx" /\ f.port = p} = {f \in lost : f.kind = "tx" /\ f.port = p}
    BY <1>1, <1>2, <1>7
  <2>3. Dropped(p)' = Dropped(p)
    BY <2>2 DEF Dropped, Numbers
  <2> QED
    BY <2>1, <2>3 DEF OutPlaces
<1> QED
  BY <1>5, <1>6, <1>7

(* The BPDU that leaves is the first of its queue.                         *)
LEMMA TransmitPlaces ==
  ASSUME IInv, OutPlaces, Transmit
  PROVE  OutPlaces'
<1>1. /\ outq' = [p \in Port |-> IF p \in {r \in Port : outq[r] # <<>>} THEN Tail(outq[p]) ELSE <<>>]
      /\ sent' = [p \in Port |-> IF p \in {r \in Port : outq[r] # <<>>}
                                  THEN sent[p] \cup {Head(outq[p]).id} ELSE sent[p]]
      /\ asked' = asked /\ lost' = lost
  BY DEF Transmit
<1>2. \A p \in Port : Dropped(p)' = Dropped(p)
  BY <1>1 DEF Dropped
<1> SUFFICES ASSUME NEW p \in Port
             PROVE  /\ sent'[p] \subseteq asked[p] /\ Dropped(p) \subseteq asked[p]
                    /\ sent'[p] \cap Dropped(p) = {}
                    /\ \A k \in DOMAIN outq'[p] : /\ outq'[p][k].id \in asked[p]
                                                   /\ outq'[p][k].id \notin Dropped(p)
                    /\ \A n \in asked[p] : \/ n \in sent'[p] \/ n \in Dropped(p)
                                           \/ \E k \in DOMAIN outq'[p] : outq'[p][k].id = n
  BY <1>1, <1>2 DEF OutPlaces
<1>3. outq[p] \in Seq(Bpdu) /\ Len(outq[p]) \in Nat
  BY DEF IInv, Out, Egress
<1>4. CASE outq[p] = <<>>
  BY <1>1, <1>4 DEF OutPlaces
<1>5. CASE outq[p] # <<>>
  <2>1. outq'[p] = Tail(outq[p]) /\ sent'[p] = sent[p] \cup {outq[p][1].id} /\ 1 \in DOMAIN outq[p]
    BY <1>1, <1>3, <1>5, TailFacts
  <2>2. \A k \in DOMAIN outq'[p] : k + 1 \in DOMAIN outq[p] /\ outq'[p][k] = outq[p][k + 1]
    BY <2>1, <1>3, <1>5, TailFacts
  <2>3. \A k \in DOMAIN outq[p] : k = 1 \/ (k - 1 \in DOMAIN outq'[p] /\ outq'[p][k - 1] = outq[p][k])
    BY <2>1, <1>3, <1>5
  <2>4. ASSUME NEW n \in asked[p]
        PROVE  \/ n \in sent'[p] \/ n \in Dropped(p)
               \/ \E k \in DOMAIN outq'[p] : outq'[p][k].id = n
    <3>1. CASE \E k \in DOMAIN outq[p] : outq[p][k].id = n
      BY <3>1, <2>1, <2>3
    <3>2. CASE ~ \E k \in DOMAIN outq[p] : outq[p][k].id = n
      BY <3>2, <2>1 DEF OutPlaces
    <3> QED
      BY <3>1, <3>2
  <2> QED
    BY <2>1, <2>2, <2>4 DEF OutPlaces
<1> QED
  BY <1>4, <1>5

LEMMA NextOutPlaces ==
  ASSUME IInv, OutPlaces, [Next]_vars
  PROVE  OutPlaces'
<1>1. CASE Transmit
  BY <1>1, TransmitPlaces
<1>2. CASE \E T \in SUBSET Port : Process(T) \/ Clock(T) \/ start(T)
  BY <1>2, TransmittingPlaces DEF Process, Clock, start
<1>3. CASE NextSlot
  <2>1. UNCHANGED <<asked, sent, lost>> /\ outq' = [p \in Port |-> OlderAll(outq[p])]
    BY <1>3 DEF NextSlot, history
  <2>2. ASSUME NEW p \in Port
        PROVE  /\ DOMAIN outq'[p] = DOMAIN outq[p]
               /\ \A k \in DOMAIN outq[p] : outq'[p][k].id = outq[p][k].id
    <3>1. outq[p] \in Seq(Bpdu) /\ outq'[p] = OlderAll(outq[p])
      BY <2>1 DEF IInv, Out, Egress
    <3>2. \A k \in DOMAIN outq[p] : outq[p][k] \in Bpdu
      BY <3>1
    <3> QED
      BY <3>1, <3>2, OlderAllFacts, OlderBpdu
  <2> QED
    BY <2>1, <2>2, OutPlacesUnchanged, DroppedUnchanged
<1>4. CASE \E pd \in inbuf : lualate(pd)
  <2>1. UNCHANGED <<asked, sent, outq>>
    BY <1>4 DEF lualate, output
  <2>2. lost \subseteq lost' /\ \A f \in lost' \ lost : f.kind = "rx"
    BY <1>4 DEF lualate, IInv, In, Ingress, Frame
  <2> QED
    BY <2>1, <2>2, OutPlacesUnchanged, DroppedUnchanged
<1>5. CASE UNCHANGED <<asked, sent, outq, lost>>
  BY <1>5, OutPlacesUnchanged, DroppedUnchanged
<1>6. \/ Transmit \/ NextSlot
      \/ \E T \in SUBSET Port : Process(T) \/ Clock(T) \/ start(T)
      \/ \E pd \in inbuf : lualate(pd)
      \/ UNCHANGED <<asked, sent, outq, lost>>
  BY DEF Next, luarec, EnterLate, shutdown, plug_in, plug_out, vars, history, output
<1> QED
  BY <1>1, <1>2, <1>3, <1>4, <1>5, <1>6

(* Every frame received is in one place, and accounted for once; and so is *)
(* every BPDU made for a plugged port, at that port.                       *)
THEOREM NothingLost == Spec => []Conserved
<1>1. ASSUME IInv, Places, [Next]_vars PROVE Places'
  <2>1. CASE \E p \in Port : luarec(p)
    BY <1>1, <2>1, luarecPlaces
  <2>2. CASE \E T \in SUBSET Port : Process(T)
    BY <1>1, <2>2, ProcessPlaces
  <2>3. CASE \E pd \in inbuf : lualate(pd)
    BY <1>1, <2>3, lualatePlaces
  <2>4. CASE \E T \in SUBSET Port : Clock(T) \/ start(T)
    <3>1. UNCHANGED <<inbuf, q, received, processed, discarded, sent>>
      BY <2>4 DEF Clock, start, input
    <3>2. LostFrames' = LostFrames
      <4>1. PICK T \in SUBSET Port : cb_tx_bpdu(T)
        BY <2>4 DEF Clock, start
      <4> QED
        BY <1>1, <3>1, <4>1, Transmitting DEF IInv, Commands, LostFrames
    <3> QED
      BY <1>1, <3>1, <3>2, PlacesUnchanged
  <2>5. CASE NextSlot
    <3>1. UNCHANGED <<inbuf, received, processed, discarded, lost>> /\ q' = OlderAll(q)
      BY <2>5 DEF NextSlot, history
    <3>2. q \in Seq(Frame) /\ \A k \in DOMAIN q : q[k] \in Frame
      BY <1>1 DEF IInv, In, Ingress
    <3>3. Len(q') = Len(q) /\ DOMAIN q' = DOMAIN q /\ \A k \in DOMAIN q : q'[k].id = q[k].id
      BY <3>1, <3>2, OlderAllFacts, OlderFrame
    <3> QED
      BY <1>1, <3>1, <3>3, PlacesUnchanged DEF LostFrames
  <2>6. CASE UNCHANGED <<inbuf, q, received, processed, discarded, lost>>
    BY <1>1, <2>6, PlacesUnchanged DEF LostFrames
  <2>7. \/ \E p \in Port : luarec(p)
        \/ \E T \in SUBSET Port : Process(T) \/ Clock(T) \/ start(T)
        \/ \E pd \in inbuf : lualate(pd)
        \/ NextSlot
        \/ UNCHANGED <<inbuf, q, received, processed, discarded, lost>>
    BY <1>1 DEF Next, Transmit, EnterLate, shutdown, plug_in, plug_out, vars, history, input
  <2> QED
    BY <2>1, <2>2, <2>3, <2>4, <2>5, <2>6, <2>7
<1>2. IInv /\ Places => ConservedIn
  <2> SUFFICES ASSUME IInv, Places PROVE ConservedIn
    OBVIOUS
  <2>1. \A k \in DOMAIN q : q[k] \in Frame /\ q[k].id \in 1 .. received
    <3>1. \A k \in DOMAIN q : q[k] \in Frame
      BY DEF IInv, In, Ingress
    <3> QED
      BY <3>1, FrameFacts, SizeAssumption DEF IInv, In, Ingress
  <2>2. \A f \in inbuf : f.id \in 1 .. received
    BY FrameFacts, SizeAssumption DEF IInv, In, Ingress
  <2>3. ToSet(q) = {q[k] : k \in DOMAIN q}
    BY DEF ToSet
  <2>4. /\ Numbers(inbuf) \cup Numbers(ToSet(q)) \cup (Numbers(LostFrames) \cup Numbers(discarded))
             \cup processed \subseteq 1 .. received
    <3>1. Numbers(inbuf) \subseteq 1 .. received
      BY <2>2 DEF Numbers
    <3>2. Numbers(ToSet(q)) \subseteq 1 .. received
      BY <2>1, <2>3 DEF Numbers
    <3>3. Numbers(LostFrames) \subseteq 1 .. received /\ Numbers(discarded) \subseteq 1 .. received
      BY DEF Numbers, Places, Apart
    <3>4. processed \subseteq 1 .. received
      BY DEF IInv, In, Ingress
    <3> QED
      BY <3>1, <3>2, <3>3, <3>4
  <2>5. ASSUME NEW n \in 1 .. received
        PROVE  n \in Numbers(inbuf) \cup Numbers(ToSet(q)) \cup (Numbers(LostFrames) \cup Numbers(discarded))
             \cup processed
    BY <2>3 DEF Numbers, Places, Complete
  <2> QED
    BY <2>4, <2>5 DEF ConservedIn, Places, Counted
<1>3. IInv /\ OutPlaces => ConservedOut
  <2> SUFFICES ASSUME IInv, OutPlaces, NEW p \in Port
               PROVE  LET queued == Numbers(ToSet(outq[p])) IN
                      /\ queued \cup sent[p] \cup Dropped(p) = asked[p]
                      /\ queued \cap sent[p] = {}
                      /\ Dropped(p) \cap (queued \cup sent[p]) = {}
                      /\ \A k, l \in DOMAIN outq[p] : outq[p][k].id = outq[p][l].id => k = l
    BY DEF ConservedOut
  <2>1. Numbers(ToSet(outq[p])) = {outq[p][k].id : k \in DOMAIN outq[p]}
    BY DEF Numbers, ToSet
  <2>2. outq[p] \in Seq(Bpdu) /\ sent[p] \subseteq Nat
    BY SizeAssumption DEF IInv, Out, Egress
  <2>3. \A k \in DOMAIN outq[p] : outq[p][k].id \in Nat /\ k \in Nat
    BY <2>2, FrameFacts
  <2>4. \A k, l \in DOMAIN outq[p] : outq[p][k].id = outq[p][l].id => k = l
    <3>1. \A k, l \in DOMAIN outq[p] : k < l => outq[p][k].id < outq[p][l].id
      BY DEF IInv, Out, Egress
    <3> QED
      BY <3>1, <2>3
  <2>5. \A k \in DOMAIN outq[p] : outq[p][k].id \notin sent[p]
    <3>1. \A k \in DOMAIN outq[p] : \A m \in sent[p] : m < outq[p][k].id
      BY DEF IInv, Out, Egress
    <3> QED
      BY <3>1, <2>3
  <2> QED
    BY <2>1, <2>4, <2>5 DEF OutPlaces
<1>4. IInv /\ Places /\ OutPlaces => Conserved
  BY <1>2, <1>3 DEF Conserved
<1> QED
  BY <1>1, <1>4, InitPlaces, InitOutPlaces, NextOutPlaces, Invariant, PTL DEF Spec
=============================================================================
