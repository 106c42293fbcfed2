-------------------------- MODULE RstpNetworkProofs --------------------------
(***************************************************************************)
(* Proofs about bridges joined by LANs, for any number of bridges, any     *)
(* cabling and any number of faults.                                       *)
(*                                                                         *)
(* The inductive invariant: every bridge that runs is one that the calls   *)
(* of the library keep (RstpBridgeProofs), and only messages over the      *)
(* known identifiers are under way.  Nothing is assumed about the order    *)
(* in which messages and seconds come, or about the messages of others.    *)
(* Whether a bridge can hang is part of it: only if the loop of the model  *)
(* is given fewer rounds than LoopBound.                                   *)
(***************************************************************************)
EXTENDS RstpNetwork, RstpBridgeProofs

-----------------------------------------------------------------------------
(* The identifiers are numbers.                                                            *)

\* A finite set of numbers has a largest one: one with the fewest elements that has none
\* would leave a smaller one.
LEMMA LargestOfFinite ==
  ASSUME NEW S, S \subseteq Nat, IsFiniteSet(S), S # {}
  PROVE  Largest(S) \in S
<1> DEFINE Has(T) == \E x \in T : \A y \in T : y <= x
           Bad == {T \in SUBSET S : T # {} /\ ~ Has(T)}
           Sizes == {Cardinality(T) : T \in Bad}
<1>1. Bad = {}
  <2> SUFFICES ASSUME Bad # {} PROVE FALSE
    OBVIOUS
  <2>1. \A T \in Bad : IsFiniteSet(T) /\ Cardinality(T) \in Nat
    BY FS_Subset, FS_CardinalityType
  <2>2. Sizes \subseteq Nat /\ Sizes # {}
    BY <2>1
  <2>3. PICK n \in Sizes : \A k \in Sizes : n <= k
    BY <2>2, LeastExists
  <2>4. PICK T \in Bad : n = Cardinality(T)
    OBVIOUS
  <2>5. PICK x \in T : TRUE
    OBVIOUS
  <2>6. /\ Cardinality(T \ {x}) = n - 1 /\ n \in Nat /\ T \subseteq Nat
        /\ T \ {x} \subseteq S
    BY <2>1, <2>4, <2>5, FS_RemoveElement
  <2>7. T \ {x} \notin Bad
    <3>1. T \ {x} \in Bad => n - 1 \in Sizes
      BY <2>6
    <3> QED
      BY <3>1, <2>3, <2>6
  <2>8. T \ {x} = {} \/ Has(T \ {x})
    BY <2>6, <2>7
  <2>9. Has(T)
    <3>1. CASE T \ {x} = {}
      <4>1. \A y \in T : y = x
        BY <3>1
      <4> QED
        BY <2>5, <2>6, <4>1
    <3>2. CASE Has(T \ {x})
      <4>1. PICK z \in T \ {x} : \A y \in T \ {x} : y <= z
        BY <3>2
      <4>2. x \in Nat /\ z \in Nat /\ z \in T /\ \A y \in T : y \in Nat
        BY <2>6
      <4>3. CASE x <= z
        <5>1. \A y \in T : y <= z
          BY <4>1, <4>3
        <5> QED
          BY <4>2, <5>1
      <4>4. CASE z <= x
        <5>1. \A y \in T : y <= x
          BY <4>1, <4>2, <4>4
        <5> QED
          BY <2>5, <5>1
      <4> QED
        BY <4>2, <4>3, <4>4
    <3> QED
      BY <2>8, <3>1, <3>2
  <2> QED
    BY <2>4, <2>9
<1>2. Has(S)
  BY <1>1
<1> QED
  BY <1>2 DEF Largest

\* All identifiers are numbers, those after a change of priority included.
LEMMA KnownNat == Known \subseteq Nat /\ Bridges \subseteq Known
<1>1. Bridges \subseteq Nat /\ IsFiniteSet(Bridges) /\ Cardinality(Bridges) # 0
  BY NetworkAssumption, FS_CardinalityType
<1>2. Bridges # {}
  BY <1>1, FS_EmptySet
<1>3. Largest(Bridges) \in Nat
  BY <1>1, <1>2, LargestOfFinite
<1>4. \A i \in Bridges : Demoted(i) \in Nat
  BY <1>1, <1>3 DEF Demoted
<1> QED
  BY <1>1, <1>4 DEF Known

-----------------------------------------------------------------------------
(* What is sent arrives.                                                                   *)

\* The messages of port t after the first n of those that bridge i sent.
Upto(i, out, q, t, f, N) ==
  [n \in 0 .. N |->
     IF n = 0 THEN q[t]
     ELSE IF <<i, out[n][1]>> # t /\ lan[<<i, out[n][1]>>] = lan[t]
       THEN Append(f[n - 1], out[n][2]) ELSE f[n - 1]]

\* The recursion defines a function.
LEMMA UptoExists ==
  ASSUME NEW i, NEW out, NEW q, NEW t, NEW N \in Nat
  PROVE  \E f : f = Upto(i, out, q, t, f, N)
<1> DEFINE Good == {n \in Nat : \E f : f = Upto(i, out, q, t, f, n)}
           Add(n, s) == IF <<i, out[n][1]>> # t /\ lan[<<i, out[n][1]>>] = lan[t]
                          THEN Append(s, out[n][2]) ELSE s
<1>0. ASSUME NEW f, NEW n \in Nat
      PROVE  Upto(i, out, q, t, f, n) =
               [k \in 0 .. n |-> IF k = 0 THEN q[t] ELSE Add(k, f[k - 1])]
  BY DEF Upto
<1> HIDE DEF Add
<1>1. 0 \in Good
  <2> DEFINE f == [n \in 0 .. 0 |-> q[t]]
  <2>1. f = Upto(i, out, q, t, f, 0)
    BY <1>0
  <2> QED
    BY <2>1
<1>2. ASSUME NEW n \in 1 .. N, n - 1 \in Good PROVE n \in Good
  <2>1. PICK f : f = Upto(i, out, q, t, f, n - 1)
    BY <1>2
  <2> DEFINE g == [k \in 0 .. n |-> IF k < n THEN f[k] ELSE Add(n, f[n - 1])]
  <2>2. ASSUME NEW k \in 0 .. n
        PROVE  g[k] = IF k = 0 THEN q[t] ELSE Add(k, g[k - 1])
    <3>1. CASE k < n
      <4>1. k \in 0 .. n - 1 /\ n - 1 \in Nat
        BY <3>1
      <4>2. f[k] = IF k = 0 THEN q[t] ELSE Add(k, f[k - 1])
        BY <1>0, <2>1, <4>1
      <4>3. k # 0 => g[k - 1] = f[k - 1]
        BY <3>1
      <4> QED
        BY <3>1, <4>2, <4>3
    <3>2. CASE k = n
      BY <3>2
    <3> QED
      BY <3>1, <3>2
  <2>3. g = Upto(i, out, q, t, g, n)
    <3>1. g = [k \in 0 .. n |-> g[k]] /\ n \in Nat
      OBVIOUS
    <3> HIDE DEF g
    <3>2. g = [k \in 0 .. n |-> IF k = 0 THEN q[t] ELSE Add(k, g[k - 1])]
      BY <2>2, <3>1
    <3>3. Upto(i, out, q, t, g, n) = [k \in 0 .. n |-> IF k = 0 THEN q[t] ELSE Add(k, g[k - 1])]
      BY <1>0, <3>1
    <3> QED
      BY <3>2, <3>3
  <2> HIDE DEF g
  <2> QED
    BY <2>3
<1> HIDE DEF Good
<1>3. N \in Good
  BY <1>1, <1>2, UpTo
<1> QED
  BY <1>3 DEF Good

\* What it gives is a sequence of messages.
LEMMA UptoTyped ==
  ASSUME NEW M, NEW i, NEW N \in Nat, NEW out, \A n \in 1 .. N : out[n][2] \in M,
         NEW q, NEW t, q[t] \in Seq(M), NEW f, f = Upto(i, out, q, t, f, N)
  PROVE  f[N] \in Seq(M)
<1> DEFINE Good == {n \in 0 .. N : f[n] \in Seq(M)}
           Add(n, r) == IF <<i, out[n][1]>> # t /\ lan[<<i, out[n][1]>>] = lan[t]
                          THEN Append(r, out[n][2]) ELSE r
<1>0. \A n \in 1 .. N, r \in Seq(M) : Add(n, r) \in Seq(M)
  OBVIOUS
<1>1. \A n \in 0 .. N : f[n] = IF n = 0 THEN q[t] ELSE Add(n, f[n - 1])
  BY Zenon DEF Upto
<1> HIDE DEF Add
<1>2. 0 \in Good
  BY <1>1
<1>3. ASSUME NEW n \in 1 .. N, n - 1 \in Good PROVE n \in Good
  <2>1. f[n] = Add(n, f[n - 1]) /\ f[n - 1] \in Seq(M)
    BY <1>1, <1>3
  <2>2. f[n] \in Seq(M)
    BY <1>0, <2>1
  <2> QED
    BY <2>2
<1> HIDE DEF Good
<1>4. \A n \in 0 .. N : n \in Good
  BY <1>2, <1>3, UpTo
<1>5. N \in Good
  BY <1>4
<1> QED
  BY <1>5 DEF Good

\* So the network holds messages.
LEMMA CarriedTyped ==
  ASSUME NEW M, NEW i, NEW out \in Seq(Ports \X M), NEW q, \A t \in Stations : q[t] \in Seq(M)
  PROVE  /\ DOMAIN Carried(i, out, q) = Stations
         /\ \A t \in Stations : Carried(i, out, q)[t] \in Seq(M)
<1> DEFINE f(t) == CHOOSE f : f = Upto(i, out, q, t, f, Len(out))
<1>1. Carried(i, out, q) = [t \in Stations |-> f(t)[Len(out)]]
  BY Zenon DEF Carried, Upto
<1>2. ASSUME NEW t \in Stations PROVE f(t)[Len(out)] \in Seq(M)
  <2>1. Len(out) \in Nat /\ \A n \in 1 .. Len(out) : out[n][2] \in M
    OBVIOUS
  <2>2. \E g : g = Upto(i, out, q, t, g, Len(out))
    BY <2>1, UptoExists
  <2>3. f(t) = Upto(i, out, q, t, f(t), Len(out))
    BY <2>2
  <2> HIDE DEF f
  <2> QED
    BY <2>1, <2>3, UptoTyped
<1> HIDE DEF f
<1> QED
  BY <1>1, <1>2

-----------------------------------------------------------------------------
(* The inductive invariant.                                                                *)

BridgeInv(i, b) == Kept(b, Known) /\ b.id \in {i, Demoted(i)} /\ b.out = <<>>

NetTyped(q) == DOMAIN q = Stations /\ \A s \in Stations : q[s] \in Seq(Messages(Known))

\* A bridge that hangs has needed more rounds than the model gives it.
OnlyShort(b) == b = Hung => MaxLoops < LoopBound

IInv ==
  /\ DOMAIN br = Bridges
  /\ \A i \in Bridges : OnlyShort(br[i]) /\ (Running(i) => BridgeInv(i, br[i]))
  /\ NetTyped(net)

\* What a call leaves: nothing, or a bridge as the invariant wants it but for what it sends.
CallOK(i, b) == \E id \in {i, Demoted(i)} : Returned(b, id, Known)

\* What has been sent is taken off the bridge.
LEMMA SentKeeps ==
  ASSUME NEW i, NEW b, Kept(b, Known), b.id \in {i, Demoted(i)}
  PROVE  BridgeInv(i, [b EXCEPT !.out = <<>>]) /\ b.out \in Seq(Ports \X Messages(Known))
<1> DEFINE c == [b EXCEPT !.out = <<>>]
<1>1. BridgeOK(b, Known) /\ b.out \in Seq(Ports \X Messages(Known))
  BY DEF Kept, BInv, BridgeOK
<1>2. BInv(c, Known)
  BY EmptyOut DEF Kept
<1>3. /\ c.id = b.id /\ c.rolesel = b.rolesel /\ c.rootPrio = b.rootPrio /\ c.port = b.port
      /\ c.out = <<>>
  BY <1>1, IsBridgeField DEF BridgeOK
<1> HIDE DEF c
<1>4. Kept(c, Known)
  BY <1>2, <1>3, NoticeKeeps DEF BInv
<1>5. BridgeInv(i, c)
  BY <1>3, <1>4 DEF BridgeInv
<1> QED
  BY <1>1, <1>5 DEF c

\* The end of every call.
LEMMA BecomesKeeps ==
  ASSUME IInv, NEW i \in Bridges, NEW b, NEW q, CallOK(i, b), NetTyped(q), Becomes(i, b, q)
  PROVE  IInv'
<1>1. /\ DOMAIN br = Bridges
      /\ \A j \in Bridges : OnlyShort(br[j]) /\ (Running(j) => BridgeInv(j, br[j]))
  BY DEF IInv
<1>2. CASE b = Hung
  <2>1. br' = [br EXCEPT ![i] = Hung] /\ net' = q
    BY <1>2 DEF Becomes
  <2>2. ASSUME NEW j \in Bridges, Running(j)' PROVE BridgeInv(j, br'[j])
    <3>1. j # i /\ br'[j] = br[j]
      BY <1>1, <2>1, <2>2 DEF Running
    <3> QED
      BY <1>1, <2>2, <3>1 DEF Running
  <2>3. DOMAIN br' = Bridges
    BY <1>1, <2>1
  <2>4. MaxLoops < LoopBound
    BY <1>2 DEF CallOK, Returned
  <2>5. \A j \in Bridges : OnlyShort(br'[j])
    BY <2>4 DEF OnlyShort
  <2> QED
    BY <2>1, <2>2, <2>3, <2>5 DEF IInv, BridgeInv, NetTyped, OnlyShort
<1>3. CASE b # Hung
  <2> DEFINE c == [b EXCEPT !.out = <<>>]
  <2>1. br' = [br EXCEPT ![i] = c] /\ net' = Carried(i, b.out, q)
    BY <1>3 DEF Becomes
  <2>2. BridgeInv(i, c) /\ b.out \in Seq(Ports \X Messages(Known))
    <3>1. Kept(b, Known) /\ b.id \in {i, Demoted(i)}
      BY <1>3 DEF CallOK, Returned
    <3> QED
      BY <3>1, SentKeeps
  <2>6. c # Hung
    BY <2>2, KeptReturns DEF BridgeInv
  <2> HIDE DEF c
  <2>3. ASSUME NEW j \in Bridges, Running(j)' PROVE BridgeInv(j, br'[j])
    <3>1. CASE j = i
      BY <1>1, <2>1, <2>2, <3>1
    <3>2. CASE j # i
      <4>1. br'[j] = br[j]
        BY <1>1, <2>1, <3>2
      <4> QED
        BY <1>1, <2>3, <4>1 DEF Running
    <3> QED
      BY <3>1, <3>2
  <2>4. DOMAIN br' = Bridges
    BY <1>1, <2>1
  <2>5. NetTyped(net')
    <3>1. \A t \in Stations : q[t] \in Seq(Messages(Known))
      BY DEF NetTyped
    <3> QED
      BY <2>1, <2>2, <3>1, CarriedTyped DEF NetTyped
  <2>7. ASSUME NEW j \in Bridges PROVE OnlyShort(br'[j])
    <3>1. CASE j = i
      BY <1>1, <2>1, <2>6, <3>1 DEF OnlyShort
    <3>2. CASE j # i
      BY <1>1, <2>1, <3>2
    <3> QED
      BY <3>1, <3>2
  <2> QED
    BY <2>3, <2>4, <2>5, <2>7 DEF IInv, BridgeInv, NetTyped, OnlyShort
<1> QED
  BY <1>2, <1>3

\* Before the bridges start.
LEMMA IInvInit == Init => IInv
<1> SUFFICES ASSUME Init PROVE IInv
  OBVIOUS
<1>1. \A i \in Bridges : ~Running(i)
  BY DEF Init, Running
<1>2. NetTyped(net)
  BY DEF Init, NetTyped
<1>3. \A i \in Bridges : OnlyShort(br[i])
  BY DEF Init, OnlyShort, Off, Hung
<1> QED
  BY <1>1, <1>2, <1>3 DEF Init, IInv

\* The message at the head of a queue is taken.
LEMMA TailTyped ==
  ASSUME NetTyped(net), NEW s \in Stations, net[s] # <<>>
  PROVE  NetTyped([net EXCEPT ![s] = Tail(@)]) /\ Head(net[s]) \in Messages(Known)
<1>1. net[s] \in Seq(Messages(Known)) /\ DOMAIN net = Stations
  BY DEF NetTyped
<1>2. Head(net[s]) \in Messages(Known) /\ Tail(net[s]) \in Seq(Messages(Known))
  BY <1>1
<1> QED
  BY <1>1, <1>2 DEF NetTyped

\* The calls of the script.
LEMMA NoticedKeeps ==
  ASSUME NEW i \in Bridges, NEW b, Kept(b, Known), b.id \in {i, Demoted(i)},
         NEW p \in Ports, NEW kind \in Kinds
  PROVE  CallOK(i, Noticed(i, b, p, kind))
<1>1. BInv(b, Known) /\ Known \subseteq Nat
  BY KnownNat DEF Kept
<1>2. CASE kind = "linkDown"
  BY <1>1, <1>2, LinkKeeps DEF CallOK, Noticed
<1>3. CASE kind = "linkUp"
  BY <1>1, <1>3, LinkKeeps DEF CallOK, Noticed
<1>0. ASSUME NEW on PROVE Returned(enablePort(b, p, on), b.id, Known)
  BY EnableKeeps, KeptReturns
<1>4. CASE kind = "disable"
  BY <1>0, <1>4 DEF CallOK, Noticed
<1>5. CASE kind = "enable"
  BY <1>0, <1>5 DEF CallOK, Noticed
<1>6. CASE kind = "speed"
  BY <1>1, <1>6, SpeedKeeps DEF CallOK, Noticed
<1>7. CASE kind = "mcheck"
  BY <1>1, <1>7, MigrationKeeps DEF CallOK, Noticed
<1>8. CASE kind = "edge"
  BY <1>1, <1>8, EdgeKeeps DEF CallOK, Noticed
<1>9. CASE kind = "priority"
  <2>1. Demoted(i) \in Known
    BY DEF Known
  <2>2. Returned(setPriority(b, Demoted(i)), Demoted(i), Known)
    BY <2>1, PriorityKeeps, KeptReturns
  <2> QED
    BY <1>9, <2>2 DEF CallOK, Noticed
<1> QED
  BY <1>2, <1>3, <1>4, <1>5, <1>6, <1>7, <1>8, <1>9 DEF Kinds

\* Every step: one case for each action, one for a step that changes nothing.
LEMMA IInvNext == IInv /\ [Next]_vars => IInv'
<1> SUFFICES ASSUME IInv, [Next]_vars PROVE IInv'
  OBVIOUS
<1>0. /\ Known \subseteq Nat /\ Bridges \subseteq Known /\ NetTyped(net) /\ DOMAIN br = Bridges
      /\ \A i \in Bridges : OnlyShort(br[i]) /\ (Running(i) => BridgeInv(i, br[i]))
  BY KnownNat DEF IInv
<1>1. ASSUME NEW i \in Bridges, Start(i) PROVE IInv'
  <2> DEFINE d == [p \in Ports |-> Duplex(<<i, p>>)]
             b == bridgeStart(i, d, Speed)
  <2>1. Becomes(i, b, net)
    BY <1>1 DEF Start
  <2> HIDE DEF d
  <2>2. Returned(b, i, Known)
    BY <1>0, StartKeeps
  <2> HIDE DEF b
  <2>3. CallOK(i, b)
    BY <2>2 DEF CallOK
  <2> QED
    BY <1>0, <2>1, <2>3, BecomesKeeps
<1>2. ASSUME NEW i \in Bridges, NEW p \in Ports, Deliver(i, p) PROVE IInv'
  <2> DEFINE s == <<i, p>>
             q == [net EXCEPT ![s] = Tail(@)]
             b == rxBpdu(br[i], p, Head(net[s]))
  <2>1. s \in Stations /\ net[s] # <<>> /\ br[i] # Hung
    BY <1>2 DEF Deliver, Stations
  <2>2. NetTyped(q) /\ Head(net[s]) \in Messages(Known)
    BY <1>0, <2>1, TailTyped
  <2>3. CASE br[i] = Off
    <3>1. net' = q /\ br' = br
      BY <1>2, <2>3 DEF Deliver
    <3> HIDE DEF q
    <3> QED
      BY <1>0, <2>2, <3>1 DEF IInv, NetTyped, BridgeInv, Running, OnlyShort
  <2>4. CASE br[i] # Off
    <3>1. Becomes(i, b, q)
      BY <1>2, <2>4 DEF Deliver
    <3>2. BridgeInv(i, br[i])
      BY <1>0, <2>1, <2>4 DEF Running
    <3>3. Returned(b, br[i].id, Known)
      <4>1. BInv(br[i], Known)
        BY <3>2 DEF BridgeInv, Kept
      <4> QED
        BY <1>0, <2>2, <4>1, ReceiveKeeps
    <3>4. CallOK(i, b)
      BY <3>2, <3>3 DEF CallOK, BridgeInv
    <3> HIDE DEF b, q
    <3> QED
      BY <2>2, <3>1, <3>4, BecomesKeeps
  <2> QED
    BY <2>3, <2>4
<1>3. ASSUME NEW s \in Stations, Lose(s) PROVE IInv'
  <2>1. net[s] # <<>> /\ net' = [net EXCEPT ![s] = Tail(@)] /\ br' = br
    BY <1>3 DEF Lose
  <2>2. NetTyped(net')
    BY <1>0, <2>1, TailTyped
  <2> QED
    BY <1>0, <2>1, <2>2 DEF IInv, NetTyped, BridgeInv, Running, OnlyShort
<1>4. ASSUME NEW i \in Bridges, Second(i) PROVE IInv'
  <2>1. CASE br[i] = Off
    <3>1. net' = net /\ br' = br
      BY <1>4, <2>1 DEF Second
    <3> QED
      BY <1>0, <3>1 DEF IInv, NetTyped, BridgeInv, Running, OnlyShort
  <2>2. CASE br[i] # Off
    <3> DEFINE b == oneSecond(br[i])
    <3>1. Becomes(i, b, net) /\ br[i] # Hung
      BY <1>4, <2>2 DEF Second
    <3>2. BridgeInv(i, br[i])
      BY <1>0, <2>2, <3>1 DEF Running
    <3>3. Returned(b, br[i].id, Known)
      <4>1. BInv(br[i], Known)
        BY <3>2 DEF BridgeInv, Kept
      <4> QED
        BY <1>0, <4>1, SecondKeeps
    <3>4. CallOK(i, b)
      BY <3>2, <3>3 DEF CallOK, BridgeInv
    <3> HIDE DEF b
    <3> QED
      BY <1>0, <3>1, <3>4, BecomesKeeps
  <2> QED
    BY <2>1, <2>2
<1>5. ASSUME NEW i \in Bridges, NEW p \in Ports, NEW kind \in Kinds, Notice(i, p, kind)
      PROVE  IInv'
  <2> DEFINE b == Noticed(i, br[i], p, kind)
  <2>1. Running(i) /\ Becomes(i, b, net)
    BY <1>5 DEF Notice
  <2>2. BridgeInv(i, br[i])
    BY <1>0, <2>1
  <2>3. CallOK(i, b)
    BY <2>2, NoticedKeeps DEF BridgeInv
  <2> HIDE DEF b
  <2> QED
    BY <1>0, <2>1, <2>3, BecomesKeeps
<1>6. CASE UNCHANGED vars
  BY <1>0, <1>6 DEF vars, IInv, NetTyped, BridgeInv, Running, OnlyShort
<1> QED
  BY <1>1, <1>2, <1>3, <1>4, <1>5, <1>6 DEF Next

\* The inductive invariant holds in every state.
THEOREM Invariance == Spec => []IInv
<1> QED
  BY IInvInit, IInvNext, PTL DEF Spec

-----------------------------------------------------------------------------
(* What follows from it.                                                                   *)

\* The ranges of the timers and of the identifiers are part of it.
LEMMA IInvTypes == IInv => TypeOK
<1> SUFFICES ASSUME IInv PROVE TypeOK
  OBVIOUS
<1>1. ASSUME NEW i \in Bridges, Running(i)
      PROVE  /\ br[i].id \in {i, Demoted(i)} /\ br[i].out = <<>> /\ br[i].rootPrio[1] \in Known
             /\ \A p \in Ports : \A t \in Timers :
                  br[i].port[p][t] \in 0 .. MaxAge + ForwardDelay
  <2>1. /\ br[i].id \in {i, Demoted(i)} /\ br[i].out = <<>> /\ BridgeOK(br[i], Known)
    BY <1>1 DEF IInv, BridgeInv, Kept, BInv
  <2>2. br[i].rootPrio[1] \in Known
    BY <2>1 DEF BridgeOK, Priorities
  <2>3. ASSUME NEW p \in Ports, NEW t \in Timers
        PROVE  br[i].port[p][t] \in 0 .. MaxAge + ForwardDelay
    <3>1. TimersOK(br[i].port[p])
      BY <2>1 DEF BridgeOK, PortOK
    <3> HIDE DEF Running
    <3>2. br[i].port[p].txCount \in Span
      BY <3>1, DownInSpan DEF TimersOK
    <3>3. br[i].port[p][t] \in Span
      BY <3>1, <3>2 DEF TimersOK, Timers
    <3> QED
      BY <3>3 DEF Span, Limit
  <2> QED
    BY <2>1, <2>2, <2>3
<1> QED
  BY <1>1 DEF TypeOK, IInv, NetTyped

\* So is the election.
LEMMA IInvRoles == IInv => Roles
<1> SUFFICES ASSUME IInv, NEW i \in Bridges, Running(i)
             PROVE  /\ (\A p \in Ports : ~br[i].port[p].reselect) => Elected(br[i])
                    /\ \A p \in Ports : br[i].port[p].forwarding =>
                         br[i].port[p].role \in {"Root", "Designated"}
  BY DEF Roles
<1> DEFINE b == br[i]
<1>1. Settled(b)
  BY DEF IInv, BridgeInv, Kept
<1> HIDE DEF b
<1>2. ASSUME \A p \in Ports : ~b.port[p].reselect PROVE Elected(b)
  <2>1. Chosen(b) /\ \A p \in Ports : b.port[p].enabled => Elect(b, p)
    BY <1>1, <1>2 DEF Settled
  <2>2. /\ b.rootPrio \in {own(b)} \cup {path(b, p) : p \in heard(b)}
        /\ \A v \in {own(b)} \cup {path(b, p) : p \in heard(b)} : NoWorse(b.rootPrio, v)
    BY <2>1 DEF Chosen, Offers
  <2> QED
    BY <2>1, <2>2 DEF Elected, Elect
<1>3. \A p \in Ports : b.port[p].forwarding => b.port[p].role \in {"Root", "Designated"}
  BY <1>1 DEF Settled, Obeys
<1> QED
  BY <1>2, <1>3 DEF b

\* So is the time left for what a port has heard.
LEMMA IInvFresh == IInv => Fresh
<1> SUFFICES ASSUME IInv, NEW i \in Bridges, Running(i), NEW p \in Ports,
                    br[i].port[p].infoIs = "Received", ~br[i].port[p].reselect
             PROVE  br[i].port[p].rcvdInfoWhile > 0
  BY DEF Fresh
<1>1. Settled(br[i])
  BY DEF IInv, BridgeInv, Kept
<1> QED
  BY <1>1 DEF Settled, Current

\* No call leaves the loop of STP_stpm_update running for ever: given as many rounds as
\* LoopBound it comes to its end in every call of every bridge, whatever has happened.
THEOREM NeverHangs ==
  ASSUME MaxLoops >= LoopBound
  PROVE  Spec => []NoHang
<1>1. IInv => NoHang
  <2>1. MaxLoops \in Nat /\ LoopBound \in Nat
    BY LoopsAssumption, MeasureBound
  <2> QED
    BY <2>1 DEF IInv, OnlyShort, NoHang
<1> QED
  BY <1>1, Invariance, PTL

\* No timer of a port leaves its range, and a bridge knows only identifiers that exist, for
\* any number of bridges and ports, any cabling and any faults.
THEOREM TypeCorrect == Spec => []TypeOK
<1> QED
  BY Invariance, IInvTypes, PTL

\* After every call the roles are those of the election, unless a notice waits, and a port
\* that forwards is a Root or a Designated port.
THEOREM RolesElected == Spec => []Roles
<1> QED
  BY Invariance, IInvRoles, PTL

\* What a port has heard and acts upon has not expired.
THEOREM InformationFresh == Spec => []Fresh
<1> QED
  BY Invariance, IInvFresh, PTL
=============================================================================
