--------------------------- MODULE RstpBridgeProofs ---------------------------
(***************************************************************************)
(* Proofs about one bridge of the rapid spanning tree library, for any     *)
(* number of ports and any timer values that the library accepts.          *)
(*                                                                         *)
(* A call of the library runs the machines until none can move, so what    *)
(* holds between calls is what follows from two things: an invariant of    *)
(* the bridge that every single hop keeps (BInv), and that no machine can  *)
(* move any more (Silent).  BInv says that the last election still stands: *)
(* unless a port waits for role selection, the root is the best offer and  *)
(* the role selected for each port is the one its information calls for.   *)
(* At rest every enabled port has also taken over that role.               *)
(* That the machines come to rest at all is shown by a measure that every  *)
(* hop lowers (HopDescends).                                               *)
(*                                                                         *)
(* The proofs go from the port to the bridge: the order of priority        *)
(* vectors; what each machine does to its own port (PortOK); what that     *)
(* means for the election; a hop; the loop of STP_stpm_update; its end;    *)
(* a bridge at rest; the calls.                                            *)
(***************************************************************************)
EXTENDS RstpBridge, FiniteSetTheorems, SequenceTheorems, WellFoundedInduction, TLAPS

\* Evaluated is the identity.
LEMMA EvaluatedIs == ASSUME NEW f PROVE Evaluated(f) = f
BY DEF Evaluated

\* Induction over the numbers, in the form of a least element.
LEMMA LeastExists ==
  ASSUME NEW S, S \subseteq Nat, S # {}
  PROVE  \E x \in S : \A y \in S : x <= y
<1> DEFINE R == OpToRel(<, Nat)
<1>1. IsWellFoundedOn(R, Nat)
  BY NatLessThanWellFounded
<1>2. \A x, y \in Nat : <<x, y>> \in R <=> x < y
  BY DEF OpToRel
<1> HIDE DEF R
<1>3. PICK x \in S : \A y \in S : ~ (<<y, x>> \in R)
  BY <1>1, WFMin
<1>4. \A y \in S : x \in Nat /\ y \in Nat /\ ~ (y < x)
  BY <1>2, <1>3
<1> QED
  BY <1>4

\* Ports are at most 255: the largest of a set is the one of least distance.
LEMMA LargestIs ==
  ASSUME NEW S, S \subseteq Ports, S # {}
  PROVE  Largest(S) \in S
<1>1. S \subseteq 1 .. 255
  BY PortAssumption
<1> DEFINE D == {255 - x : x \in S}
<1>2. D \subseteq Nat /\ D # {}
  <2>1. \A x \in S : 255 - x \in Nat
    BY <1>1
  <2> QED
    BY <2>1
<1>3. PICK d \in D : \A e \in D : d <= e
  BY <1>2, LeastExists
<1>4. PICK x \in S : d = 255 - x
  OBVIOUS
<1>5. \A y \in S : y <= x
  <2> SUFFICES ASSUME NEW y \in S PROVE y <= x
    OBVIOUS
  <2>1. 255 - y \in D
    OBVIOUS
  <2> HIDE DEF D
  <2>2. d <= 255 - y
    BY <1>3, <2>1
  <2> QED
    BY <1>1, <1>4, <2>2
<1> QED
  BY <1>5 DEF Largest

\* The least element is the one that Smallest chooses.
LEMMA SmallestIs ==
  ASSUME NEW S, S \subseteq Nat, S # {}
  PROVE  Smallest(S) \in S /\ \A y \in S : Smallest(S) <= y
BY LeastExists DEF Smallest

\* A transition table that does not stay gives the state of one of its rows.
LEMMA FirstIs ==
  ASSUME NEW n \in Nat, NEW table, DOMAIN table = 1 .. n, First(table) # Stay
  PROVE  \E i \in 1 .. n : First(table) = table[i][2]
<1> DEFINE on == {i \in DOMAIN table : table[i][1]}
<1>1. First(table) = IF on = {} THEN Stay ELSE table[Smallest(on)][2]
  BY DEF First
<1>2. on # {} /\ on \subseteq Nat /\ on \subseteq 1 .. n
  BY <1>1
<1>3. Smallest(on) \in on
  BY <1>2, SmallestIs
<1> QED
  BY <1>1, <1>2, <1>3

\* If some row holds, the table gives one of its states.
LEMMA FirstSome ==
  ASSUME NEW n \in Nat, NEW table, DOMAIN table = 1 .. n, NEW k \in 1 .. n, table[k][1]
  PROVE  \E i \in 1 .. n : First(table) = table[i][2]
<1> DEFINE on == {i \in DOMAIN table : table[i][1]}
<1>1. First(table) = IF on = {} THEN Stay ELSE table[Smallest(on)][2]
  BY DEF First
<1>2. on # {} /\ on \subseteq Nat /\ on \subseteq 1 .. n
  OBVIOUS
<1>3. Smallest(on) \in on
  BY <1>2, SmallestIs
<1> QED
  BY <1>1, <1>2, <1>3

\* The last row of the table of path costs always holds.
LEMMA PathCostNat == ASSUME NEW speed PROVE PathCost(speed) \in Nat
<1> DEFINE table == <<
  << speed < 10, 20000000 >>, << speed <= 10, 2000000 >>, << speed <= 100, 200000 >>,
  << speed <= 1000, 20000 >>, << speed <= 10000, 2000 >>, << speed <= 100000, 200 >>,
  << speed <= 1000000, 20 >>, << speed <= 10000000, 2 >>, << TRUE, 1 >> >>
<1>1. DOMAIN table = 1 .. 9
  OBVIOUS
<1>2. table[9][1] /\ table[9][2] \in Nat
  OBVIOUS
<1>4. \A i \in 1 .. 9 : table[i][2] \in Nat
  OBVIOUS
<1>3. PathCost(speed) = First(table)
  BY DEF PathCost
<1> HIDE DEF table
<1>5. \E i \in 1 .. 9 : First(table) = table[i][2]
  BY <1>1, <1>2, FirstSome, 9 \in 1 .. 9, 9 \in Nat, Zenon
<1> QED
  BY <1>3, <1>4, <1>5

\* A vector of five numbers.
Vectors == Nat \X Nat \X Nat \X Nat \X Nat

\* The lexicographical order, spelled out.
LEMMA BetterIs ==
  ASSUME NEW v \in Vectors, NEW w \in Vectors
  PROVE  Better(v, w) <=>
           \/ v[1] < w[1]
           \/ v[1] = w[1] /\ v[2] < w[2]
           \/ v[1] = w[1] /\ v[2] = w[2] /\ v[3] < w[3]
           \/ v[1] = w[1] /\ v[2] = w[2] /\ v[3] = w[3] /\ v[4] < w[4]
           \/ v[1] = w[1] /\ v[2] = w[2] /\ v[3] = w[3] /\ v[4] = w[4] /\ v[5] < w[5]
<1> DEFINE L(i) == v[i] < w[i] /\ \A j \in 1 .. i - 1 : v[j] = w[j]
<1>1. Better(v, w) <=> L(1) \/ L(2) \/ L(3) \/ L(4) \/ L(5)
  BY DEF Better
<1>2. L(1) <=> v[1] < w[1]
  OBVIOUS
<1>3. L(2) <=> v[1] = w[1] /\ v[2] < w[2]
  OBVIOUS
<1>4. L(3) <=> v[1] = w[1] /\ v[2] = w[2] /\ v[3] < w[3]
  OBVIOUS
<1>5. L(4) <=> v[1] = w[1] /\ v[2] = w[2] /\ v[3] = w[3] /\ v[4] < w[4]
  OBVIOUS
<1>6. L(5) <=> v[1] = w[1] /\ v[2] = w[2] /\ v[3] = w[3] /\ v[4] = w[4] /\ v[5] < w[5]
  OBVIOUS
<1> QED
  BY <1>1, <1>2, <1>3, <1>4, <1>5, <1>6

\* Any two vectors can be compared.
LEMMA NoWorseTotal ==
  ASSUME NEW v \in Vectors, NEW w \in Vectors
  PROVE  /\ NoWorse(v, v) /\ (Better(v, w) => NoWorse(v, w))
         /\ NoWorse(v, w) \/ NoWorse(w, v)
BY BetterIs DEF NoWorse, Vectors

\* And the order is transitive.
LEMMA NoWorseTransitive ==
  ASSUME NEW u \in Vectors, NEW v \in Vectors, NEW w \in Vectors, NoWorse(u, v), NoWorse(v, w)
  PROVE  NoWorse(u, w)
BY BetterIs DEF NoWorse, Vectors

\* Finitely many ports have a best one.
LEMMA BestExists ==
  ASSUME NEW S, S \subseteq Ports, S # {}, NEW f, \A p \in Ports : f[p] \in Vectors
  PROVE  \E p \in S : \A o \in S : NoWorse(f[p], f[o])
<1> DEFINE Best(T) == \E p \in T : \A o \in T : NoWorse(f[p], f[o])
           Bad == {T \in SUBSET S : T # {} /\ ~ Best(T)}
           Sizes == {Cardinality(T) : T \in Bad}
<1> SUFFICES ASSUME Bad # {} PROVE FALSE
  OBVIOUS
<1>0. IsFiniteSet(S)
  BY PortAssumption, FS_Subset
<1>1. \A T \in Bad : IsFiniteSet(T) /\ Cardinality(T) \in Nat
  BY <1>0, FS_Subset, FS_CardinalityType
<1>2. Sizes \subseteq Nat /\ Sizes # {}
  BY <1>1
<1>3. PICK n \in Sizes : \A k \in Sizes : n <= k
  BY <1>2, LeastExists
<1>4. PICK T \in Bad : n = Cardinality(T)
  OBVIOUS
<1>5. PICK x \in T : TRUE
  OBVIOUS
<1>6. /\ IsFiniteSet(T \ {x}) /\ Cardinality(T \ {x}) = n - 1 /\ n \in Nat
      /\ T \subseteq Ports /\ T \ {x} \subseteq S
  BY <1>1, <1>4, <1>5, FS_RemoveElement
<1>7. T \ {x} \notin Bad
  <2>1. T \ {x} \in Bad => n - 1 \in Sizes
    BY <1>6
  <2> QED
    BY <2>1, <1>3, <1>6
<1>8. T \ {x} = {} \/ Best(T \ {x})
  BY <1>6, <1>7
<1>9. \A y \in T : f[y] \in Vectors
  BY <1>6
<1>10. Best(T)
  <2>1. CASE T \ {x} = {}
    <3>1. \A y \in T : y = x
      BY <2>1
    <3> QED
      BY <3>1, <1>5, <1>9, NoWorseTotal
  <2>2. CASE Best(T \ {x})
    <3>1. PICK z \in T \ {x} : \A y \in T \ {x} : NoWorse(f[z], f[y])
      BY <2>2
    <3>2. f[x] \in Vectors /\ f[z] \in Vectors /\ z \in T
      BY <1>9
    <3>3. CASE NoWorse(f[z], f[x])
      <4>1. \A y \in T : NoWorse(f[z], f[y])
        BY <3>1, <3>3
      <4> QED
        BY <3>2, <4>1
    <3>4. CASE NoWorse(f[x], f[z])
      <4>1. \A y \in T : NoWorse(f[x], f[y])
        <5> SUFFICES ASSUME NEW y \in T PROVE NoWorse(f[x], f[y])
          OBVIOUS
        <5>1. f[y] \in Vectors
          BY <1>9
        <5>2. CASE y = x
          BY <5>2, <3>2, NoWorseTotal
        <5>3. CASE y # x
          BY <5>3, <5>1, <3>1, <3>2, <3>4, NoWorseTransitive
        <5> QED
          BY <5>2, <5>3
      <4> QED
        BY <1>5, <4>1
    <3> QED
      BY <3>2, <3>3, <3>4, NoWorseTotal
  <2> QED
    BY <1>8, <2>1, <2>2
<1> QED
  BY <1>4, <1>10

-----------------------------------------------------------------------------
(* The invariant of a port.  The fields of its record stay a name: a proof needs only that *)
(* the fields it writes are among them.                                                    *)
Fields ==
  {"brdec", "portrec", "sttrans", "roletrns", "info", "pcost", "p2p", "migrate", "topoch",
  "transmit", "enabled", "adminEdge", "operEdge", "duplex", "operPointToPointMac",
  "p2p_recompute", "operSpeed", "usedSpeed", "operPCost", "msg", "rcvdBpdu", "rcvdMsg",
  "rcvdRSTP", "rcvdSTP", "sendRSTP", "mcheck", "infoIs", "portPrio", "portAge", "reselect",
  "selected", "updtInfo", "role", "selectedRole", "learn", "forward", "learning", "forwarding",
  "sync", "synced", "reRoot", "agree", "agreed", "proposed", "proposing", "disputed",
  "newInfo", "rcvdTc", "rcvdTcn", "rcvdTcAck", "tcAck", "tcProp", "edgeDelayWhile", "fdWhile",
  "helloWhen", "mdelayWhile", "rbWhile", "rcvdInfoWhile", "rrWhile", "tcWhile", "txCount"}

\* The names of the fields, one by one.
LEMMA IsField ==
  /\ "brdec" \in Fields /\ "portrec" \in Fields /\ "sttrans" \in Fields /\ "roletrns" \in Fields
  /\ "info" \in Fields /\ "pcost" \in Fields /\ "p2p" \in Fields /\ "migrate" \in Fields
  /\ "topoch" \in Fields /\ "transmit" \in Fields /\ "enabled" \in Fields
  /\ "adminEdge" \in Fields
  /\ "operEdge" \in Fields /\ "duplex" \in Fields /\ "operPointToPointMac" \in Fields
  /\ "p2p_recompute" \in Fields
  /\ "operSpeed" \in Fields /\ "usedSpeed" \in Fields /\ "operPCost" \in Fields
  /\ "msg" \in Fields
  /\ "rcvdBpdu" \in Fields /\ "rcvdMsg" \in Fields /\ "rcvdRSTP" \in Fields
  /\ "rcvdSTP" \in Fields
  /\ "sendRSTP" \in Fields /\ "mcheck" \in Fields /\ "infoIs" \in Fields /\ "portPrio" \in Fields
  /\ "portAge" \in Fields /\ "reselect" \in Fields /\ "selected" \in Fields
  /\ "updtInfo" \in Fields
  /\ "role" \in Fields /\ "selectedRole" \in Fields /\ "learn" \in Fields /\ "forward" \in Fields
  /\ "learning" \in Fields /\ "forwarding" \in Fields /\ "sync" \in Fields /\ "synced" \in Fields
  /\ "reRoot" \in Fields /\ "agree" \in Fields /\ "agreed" \in Fields /\ "proposed" \in Fields
  /\ "proposing" \in Fields /\ "disputed" \in Fields /\ "newInfo" \in Fields
  /\ "rcvdTc" \in Fields
  /\ "rcvdTcn" \in Fields /\ "rcvdTcAck" \in Fields /\ "tcAck" \in Fields /\ "tcProp" \in Fields
  /\ "edgeDelayWhile" \in Fields /\ "fdWhile" \in Fields /\ "helloWhen" \in Fields
  /\ "mdelayWhile" \in Fields
  /\ "rbWhile" \in Fields /\ "rcvdInfoWhile" \in Fields /\ "rrWhile" \in Fields
  /\ "tcWhile" \in Fields
  /\ "txCount" \in Fields
BY DEF Fields

Limit == MaxAge + ForwardDelay
Span == 0 .. Limit

\* What the timers are set to.
LEMMA SpanHas ==
  /\ 0 \in Span /\ MigrateTime \in Span /\ MaxAge \in Span /\ ForwardDelay \in Span
  /\ HelloTime \in Span /\ 2 * HelloTime \in Span /\ 3 * HelloTime \in Span
  /\ HelloTime + 1 \in Span /\ MaxAge + ForwardDelay \in Span
BY TimesAssumption DEF Span, Limit, MigrateTime

\* A second takes no timer out of its range.
LEMMA DownInSpan ==
  /\ \A t \in Span : t \in Int /\ t >= 0 /\ down(t) \in Span
  /\ \A t \in 0 .. TxHoldCount : t \in Span /\ down(t) \in 0 .. TxHoldCount
BY TimesAssumption DEF Span, Limit, down, TxHoldCount

TimersOK(q) ==
  /\ q.edgeDelayWhile \in Span /\ q.fdWhile \in Span /\ q.helloWhen \in Span
  /\ q.mdelayWhile \in Span /\ q.rbWhile \in Span /\ q.rcvdInfoWhile \in Span
  /\ q.rrWhile \in Span /\ q.tcWhile \in Span
  /\ q.txCount \in 0 .. TxHoldCount

RootStates == {"ROOT_PORT", "ROOT_PROPOSED", "ROOT_AGREED", "REROOT", "REROOTED", "ROOT_LEARN",
               "ROOT_FORWARD"}
DesignatedStates ==
  {"DESIGNATED_PORT", "DESIGNATED_PROPOSE", "DESIGNATED_SYNCED", "DESIGNATED_RETIRED",
   "DESIGNATED_DISCARD", "DESIGNATED_LEARN", "DESIGNATED_FORWARD"}
OtherStates ==
  {"BEGIN", "INIT_PORT", "DISABLE_PORT", "DISABLED_PORT", "ALTERNATE_PORT",
   "ALTERNATE_PROPOSED", "ALTERNATE_AGREED", "BLOCK_PORT", "BACKUP_PORT"}
InfoStates ==
  {"BEGIN", "DISABLED", "AGED", "UPDATE", "CURRENT", "RECEIVE", "SUPERIOR_DESIGNATED",
   "REPEATED_DESIGNATED", "INFERIOR_DESIGNATED", "NOT_DESIGNATED", "OTHER"}

StatesOK(q) ==
  /\ q.roletrns \in RootStates \cup DesignatedStates \cup OtherStates
  /\ q.migrate \in {"BEGIN", "CHECKING_RSTP", "SELECTING_STP", "SENSING"}
  /\ q.topoch \in {"BEGIN", "INACTIVE", "LEARNING", "DETECTED", "ACTIVE", "NOTIFIED_TCN",
                   "NOTIFIED_TC", "PROPAGATING", "ACKNOWLEDGED"}
  /\ q.pcost \in {"BEGIN", "AUTO", "STABLE"}
  /\ q.brdec \in {"BEGIN", "EDGE", "NOT_EDGE"}
  /\ q.sttrans \in {"BEGIN", "DISCARDING", "LEARNING", "FORWARDING"}

\* Priority vectors over the identifiers K.
Priorities(K) == K \X Nat \X K \X Nat \X Nat
HeardAt(v, p, K) == v \in Priorities(K) /\ v[5] = p

InfoOK(q, p, K) ==
  /\ q.info \in InfoStates
  /\ q.info \in {"BEGIN", "DISABLED"} <=> q.infoIs = "Disabled"
  /\ q.info = "AGED" <=> q.infoIs = "Aged"
  /\ q.infoIs \in {"Disabled", "Aged", "Mine", "Received"}
  /\ q.msg.type \in {"config", "rstp"} => HeardAt(q.msg.prio, p, K) /\ q.msg.age \in Nat
  /\ q.infoIs = "Received" => HeardAt(q.portPrio, p, K)
  /\ q.portAge \in Nat /\ q.operPCost \in Nat
  /\ q.selected \in BOOLEAN /\ q.reselect = ~q.selected

AllRoles == {"Disabled", "Root", "Designated", "Alternate", "Backup"}

RolesOK(q) ==
  /\ q.selectedRole \in AllRoles
  /\ q.roletrns \in RootStates => q.role = "Root"
  /\ q.roletrns \in DesignatedStates => q.role = "Designated"
  /\ q.forward => q.role \in {"Root", "Designated"}
  /\ q.forwarding => q.sttrans = "FORWARDING"

PortOK(q, p, K) ==
  DOMAIN q = Fields /\ TimersOK(q) /\ StatesOK(q) /\ InfoOK(q, p, K) /\ RolesOK(q)

\* What role selection depends on, and what follows from it, is the same.
Same(q, r) ==
  /\ r.infoIs = q.infoIs /\ r.portPrio = q.portPrio /\ r.operPCost = q.operPCost
  /\ r.updtInfo = q.updtInfo /\ r.selectedRole = q.selectedRole /\ r.reselect = q.reselect
  /\ r.pcost = q.pcost

\* Bridge detection.
LEMMA BrdecStep ==
  ASSUME NEW q, NEW p, NEW K, PortOK(q, p, K), NEW s, s = brdecHop(q), s # Stay
  PROVE  /\ PortOK(brdecEnter([q EXCEPT !.brdec = s]), p, K)
         /\ Same(q, brdecEnter([q EXCEPT !.brdec = s]))
<1> DEFINE r == brdecEnter([q EXCEPT !.brdec = s])
<1> SUFFICES PortOK(r, p, K) /\ Same(q, r)
  BY DEF r
<1> HIDE DEF r
<1>0. s \in {"EDGE", "NOT_EDGE"}
  BY DEF PortOK, StatesOK, brdecHop, When
<1>1. r = [q EXCEPT !.brdec = s, !.operEdge = (s = "EDGE")]
  BY IsField DEF brdecEnter, PortOK, r
<1>fields. DOMAIN r = Fields
  BY <1>1, IsField DEF PortOK
<1>timers. TimersOK(r)
  BY <1>1, IsField DEF PortOK, TimersOK
<1>states. StatesOK(r)
  BY <1>0, <1>1, IsField DEF PortOK, StatesOK
<1>info. InfoOK(r, p, K)
  BY <1>1, IsField DEF PortOK, InfoOK
<1>roles. RolesOK(r)
  BY <1>1, IsField DEF PortOK, RolesOK
<1>same. Same(q, r)
  BY <1>1, IsField DEF PortOK, Same
<1> QED
  BY <1>fields, <1>timers, <1>states, <1>info, <1>roles, <1>same DEF PortOK

\* Port receive: what it takes over has been checked when it came.
LEMMA PortrecStep ==
  ASSUME NEW q, NEW p, NEW K, PortOK(q, p, K), NEW s
  PROVE  /\ PortOK(portrecEnter([q EXCEPT !.portrec = s]), p, K)
         /\ Same(q, portrecEnter([q EXCEPT !.portrec = s]))
<1> DEFINE r == portrecEnter([q EXCEPT !.portrec = s])
<1> SUFFICES PortOK(r, p, K) /\ Same(q, r)
  BY DEF r
<1> HIDE DEF r
<1>0. NoMsg.type \notin {"config", "rstp"}
  BY DEF NoMsg
<1>1. CASE s = "DISCARD"
  <2>1. r = [q EXCEPT !.portrec = s, !.rcvdBpdu = FALSE, !.rcvdRSTP = FALSE, !.rcvdSTP = FALSE,
                      !.rcvdMsg = FALSE, !.msg = NoMsg, !.edgeDelayWhile = MigrateTime]
    BY <1>1, IsField DEF portrecEnter, PortOK, r
  <2>fields. DOMAIN r = Fields
    BY <2>1, IsField DEF PortOK
  <2>timers. TimersOK(r)
    BY <2>1, IsField, SpanHas DEF PortOK, TimersOK
  <2>states. StatesOK(r)
    BY <2>1, IsField DEF PortOK, StatesOK
  <2>info. InfoOK(r, p, K)
    BY <2>1, IsField, <1>0 DEF PortOK, InfoOK
  <2>roles. RolesOK(r)
    BY <2>1, IsField DEF PortOK, RolesOK
  <2>same. Same(q, r)
    BY <2>1, IsField DEF PortOK, Same
  <2> QED
    BY <2>fields, <2>timers, <2>states, <2>info, <2>roles, <2>same DEF PortOK
<1>2. CASE s # "DISCARD"
  <2>1. r = [q EXCEPT !.portrec = s, !.rcvdSTP = @ \/ q.msg.type # "rstp",
                      !.rcvdRSTP = @ \/ q.msg.type = "rstp",
                      !.operEdge = FALSE, !.rcvdBpdu = FALSE, !.rcvdMsg = TRUE,
                      !.edgeDelayWhile = MigrateTime]
    BY <1>2, IsField DEF portrecEnter, PortOK, r
  <2>fields. DOMAIN r = Fields
    BY <2>1, IsField DEF PortOK
  <2>timers. TimersOK(r)
    BY <2>1, IsField, SpanHas DEF PortOK, TimersOK
  <2>states. StatesOK(r)
    BY <2>1, IsField DEF PortOK, StatesOK
  <2>info. InfoOK(r, p, K)
    BY <2>1, IsField DEF PortOK, InfoOK
  <2>roles. RolesOK(r)
    BY <2>1, IsField DEF PortOK, RolesOK
  <2>same. Same(q, r)
    BY <2>1, IsField DEF PortOK, Same
  <2> QED
    BY <2>fields, <2>timers, <2>states, <2>info, <2>roles, <2>same DEF PortOK
<1> QED
  BY <1>1, <1>2

\* Port state transition: it forwards in the state FORWARDING only.
LEMMA SttransStep ==
  ASSUME NEW q, NEW p, NEW K, PortOK(q, p, K), NEW s, s = sttransHop(q), s # Stay
  PROVE  /\ PortOK(sttransEnter([q EXCEPT !.sttrans = s]), p, K)
         /\ Same(q, sttransEnter([q EXCEPT !.sttrans = s]))
<1> DEFINE r == sttransEnter([q EXCEPT !.sttrans = s])
<1> SUFFICES PortOK(r, p, K) /\ Same(q, r)
  BY DEF r
<1> HIDE DEF r
<1>0. s \in {"DISCARDING", "LEARNING", "FORWARDING"}
  BY DEF PortOK, StatesOK, sttransHop, When
<1>1. r = [q EXCEPT !.sttrans = s, !.learning = (s # "DISCARDING"),
                    !.forwarding = (s = "FORWARDING")]
  BY IsField DEF sttransEnter, PortOK, r
<1>fields. DOMAIN r = Fields
  BY <1>1, IsField DEF PortOK
<1>timers. TimersOK(r)
  BY <1>1, IsField DEF PortOK, TimersOK
<1>states. StatesOK(r)
  BY <1>0, <1>1, IsField DEF PortOK, StatesOK
<1>info. InfoOK(r, p, K)
  BY <1>1, IsField DEF PortOK, InfoOK
<1>roles. RolesOK(r)
  BY <1>1, IsField DEF PortOK, RolesOK
<1>same. Same(q, r)
  BY <1>1, IsField DEF PortOK, Same
<1> QED
  BY <1>fields, <1>timers, <1>states, <1>info, <1>roles, <1>same DEF PortOK

\* Port protocol migration.
LEMMA MigrateStep ==
  ASSUME NEW q, NEW p, NEW K, PortOK(q, p, K), NEW s, s = migrateHop(q), s # Stay
  PROVE  /\ PortOK(migrateEnter([q EXCEPT !.migrate = s]), p, K)
         /\ Same(q, migrateEnter([q EXCEPT !.migrate = s]))
<1> DEFINE r == migrateEnter([q EXCEPT !.migrate = s])
<1> SUFFICES PortOK(r, p, K) /\ Same(q, r)
  BY DEF r
<1> HIDE DEF r
<1>1. s \in {"CHECKING_RSTP", "SELECTING_STP", "SENSING"}
  BY DEF PortOK, StatesOK, migrateHop, When
<1>2. CASE s = "CHECKING_RSTP"
  <2>1. r = [q EXCEPT !.migrate = s, !.mcheck = FALSE, !.sendRSTP = TRUE,
                      !.mdelayWhile = MigrateTime]
    BY <1>2, IsField DEF migrateEnter, PortOK, r
  <2>fields. DOMAIN r = Fields
    BY <2>1, IsField DEF PortOK
  <2>timers. TimersOK(r)
    BY <2>1, IsField, SpanHas DEF PortOK, TimersOK
  <2>states. StatesOK(r)
    BY <2>1, IsField, <1>1 DEF PortOK, StatesOK
  <2>info. InfoOK(r, p, K)
    BY <2>1, IsField DEF PortOK, InfoOK
  <2>roles. RolesOK(r)
    BY <2>1, IsField DEF PortOK, RolesOK
  <2>same. Same(q, r)
    BY <2>1, IsField DEF PortOK, Same
  <2> QED
    BY <2>fields, <2>timers, <2>states, <2>info, <2>roles, <2>same DEF PortOK
<1>3. CASE s = "SELECTING_STP"
  <2>1. r = [q EXCEPT !.migrate = s, !.sendRSTP = FALSE, !.mdelayWhile = MigrateTime]
    BY <1>3, IsField DEF migrateEnter, PortOK, r
  <2>fields. DOMAIN r = Fields
    BY <2>1, IsField DEF PortOK
  <2>timers. TimersOK(r)
    BY <2>1, IsField, SpanHas DEF PortOK, TimersOK
  <2>states. StatesOK(r)
    BY <2>1, IsField, <1>1 DEF PortOK, StatesOK
  <2>info. InfoOK(r, p, K)
    BY <2>1, IsField DEF PortOK, InfoOK
  <2>roles. RolesOK(r)
    BY <2>1, IsField DEF PortOK, RolesOK
  <2>same. Same(q, r)
    BY <2>1, IsField DEF PortOK, Same
  <2> QED
    BY <2>fields, <2>timers, <2>states, <2>info, <2>roles, <2>same DEF PortOK
<1>4. CASE s = "SENSING"
  <2>1. r = [q EXCEPT !.migrate = s, !.rcvdRSTP = FALSE, !.rcvdSTP = FALSE]
    BY <1>4, IsField DEF migrateEnter, PortOK, r
  <2>fields. DOMAIN r = Fields
    BY <2>1, IsField DEF PortOK
  <2>timers. TimersOK(r)
    BY <2>1, IsField DEF PortOK, TimersOK
  <2>states. StatesOK(r)
    BY <2>1, IsField, <1>1 DEF PortOK, StatesOK
  <2>info. InfoOK(r, p, K)
    BY <2>1, IsField DEF PortOK, InfoOK
  <2>roles. RolesOK(r)
    BY <2>1, IsField DEF PortOK, RolesOK
  <2>same. Same(q, r)
    BY <2>1, IsField DEF PortOK, Same
  <2> QED
    BY <2>fields, <2>timers, <2>states, <2>info, <2>roles, <2>same DEF PortOK
<1> QED
  BY <1>1, <1>2, <1>3, <1>4

\* Point-to-point.
LEMMA P2pStep ==
  ASSUME NEW q, NEW p, NEW K, PortOK(q, p, K), NEW s
  PROVE  /\ PortOK(p2pEnter([q EXCEPT !.p2p = s]), p, K)
         /\ Same(q, p2pEnter([q EXCEPT !.p2p = s]))
<1> DEFINE r == p2pEnter([q EXCEPT !.p2p = s])
<1> SUFFICES PortOK(r, p, K) /\ Same(q, r)
  BY DEF r
<1> HIDE DEF r
<1>1. CASE s = "RECOMPUTE"
  <2>1. r = [q EXCEPT !.p2p = s, !.operPointToPointMac = q.duplex, !.p2p_recompute = FALSE]
    BY <1>1, IsField DEF p2pEnter, PortOK, r
  <2>fields. DOMAIN r = Fields
    BY <2>1, IsField DEF PortOK
  <2>timers. TimersOK(r)
    BY <2>1, IsField DEF PortOK, TimersOK
  <2>states. StatesOK(r)
    BY <2>1, IsField DEF PortOK, StatesOK
  <2>info. InfoOK(r, p, K)
    BY <2>1, IsField DEF PortOK, InfoOK
  <2>roles. RolesOK(r)
    BY <2>1, IsField DEF PortOK, RolesOK
  <2>same. Same(q, r)
    BY <2>1, IsField DEF PortOK, Same
  <2> QED
    BY <2>fields, <2>timers, <2>states, <2>info, <2>roles, <2>same DEF PortOK
<1>2. CASE s # "RECOMPUTE"
  <2>1. r = [q EXCEPT !.p2p = s]
    BY <1>2, IsField DEF p2pEnter, PortOK, r
  <2>fields. DOMAIN r = Fields
    BY <2>1, IsField DEF PortOK
  <2>timers. TimersOK(r)
    BY <2>1, IsField DEF PortOK, TimersOK
  <2>states. StatesOK(r)
    BY <2>1, IsField DEF PortOK, StatesOK
  <2>info. InfoOK(r, p, K)
    BY <2>1, IsField DEF PortOK, InfoOK
  <2>roles. RolesOK(r)
    BY <2>1, IsField DEF PortOK, RolesOK
  <2>same. Same(q, r)
    BY <2>1, IsField DEF PortOK, Same
  <2> QED
    BY <2>fields, <2>timers, <2>states, <2>info, <2>roles, <2>same DEF PortOK
<1> QED
  BY <1>1, <1>2

\* A new path cost, which the election does not take into account before the next hop.
LEMMA PcostStep ==
  ASSUME NEW q, NEW p, NEW K, PortOK(q, p, K), NEW s, s = pcostHop(q), s # Stay
  PROVE  /\ PortOK(pcostEnter([q EXCEPT !.pcost = s]), p, K)
         /\ \/ pcostEnter([q EXCEPT !.pcost = s]).pcost = "AUTO"
            \/ pcostEnter([q EXCEPT !.pcost = s]).reselect
<1> DEFINE r == pcostEnter([q EXCEPT !.pcost = s])
<1> SUFFICES PortOK(r, p, K) /\ (r.pcost = "AUTO" \/ r.reselect)
  BY DEF r
<1> HIDE DEF r
<1>1. s \in {"AUTO", "STABLE"}
  BY DEF PortOK, StatesOK, pcostHop, When
<1>2. CASE s = "AUTO"
  <2>1. r = [q EXCEPT !.pcost = s, !.usedSpeed = q.operSpeed,
                      !.operPCost = PathCost(q.operSpeed)]
    BY <1>2, IsField DEF pcostEnter, PortOK, r
  <2>2. PathCost(q.operSpeed) \in Nat
    BY PathCostNat
  <2>fields. DOMAIN r = Fields
    BY <2>1, IsField DEF PortOK
  <2>timers. TimersOK(r)
    BY <2>1, IsField DEF PortOK, TimersOK
  <2>states. StatesOK(r)
    BY <2>1, IsField, <1>1 DEF PortOK, StatesOK
  <2>info. InfoOK(r, p, K)
    BY <2>1, IsField, <2>2 DEF PortOK, InfoOK
  <2>roles. RolesOK(r)
    BY <2>1, IsField DEF PortOK, RolesOK
  <2>same. r.pcost = "AUTO"
    BY <2>1, IsField, <1>2 DEF PortOK
  <2> QED
    BY <2>fields, <2>timers, <2>states, <2>info, <2>roles, <2>same DEF PortOK
<1>3. CASE s = "STABLE"
  <2>1. r = [q EXCEPT !.pcost = s, !.selected = FALSE, !.reselect = TRUE]
    BY <1>3, IsField DEF pcostEnter, PortOK, r
  <2>fields. DOMAIN r = Fields
    BY <2>1, IsField DEF PortOK
  <2>timers. TimersOK(r)
    BY <2>1, IsField DEF PortOK, TimersOK
  <2>states. StatesOK(r)
    BY <2>1, IsField, <1>1 DEF PortOK, StatesOK
  <2>info. InfoOK(r, p, K)
    BY <2>1, IsField DEF PortOK, InfoOK
  <2>roles. RolesOK(r)
    BY <2>1, IsField DEF PortOK, RolesOK
  <2>same. r.reselect
    BY <2>1, IsField DEF PortOK
  <2> QED
    BY <2>fields, <2>timers, <2>states, <2>info, <2>roles, <2>same DEF PortOK
<1> QED
  BY <1>1, <1>2, <1>3

(* The topology change flags of a message are no part of the invariant.                    *)
LEMMA SetTcFlags ==
  ASSUME NEW q, NEW p, NEW K, PortOK(q, p, K), NEW s
  PROVE  /\ PortOK(setTcFlags(q), p, K) /\ Same(q, setTcFlags(q))
         /\ setTcFlags(q).msg = q.msg /\ setTcFlags(q).info = q.info
         /\ setTcFlags([q EXCEPT !.info = s]) = [setTcFlags(q) EXCEPT !.info = s]
<1> DEFINE r == setTcFlags(q)
<1>1. setTcFlags([q EXCEPT !.info = s]) = [r EXCEPT !.info = s]
  BY IsField DEF PortOK, setTcFlags
<1> SUFFICES PortOK(r, p, K) /\ Same(q, r) /\ r.msg = q.msg /\ r.info = q.info
  BY <1>1
<1> HIDE DEF r
<1>2. CASE q.msg.type = "tcn"
  <2>1. r = [q EXCEPT !.rcvdTcn = TRUE]
    BY <1>2 DEF setTcFlags, r
  <2>fields. DOMAIN r = Fields
    BY <2>1, IsField DEF PortOK
  <2>timers. TimersOK(r)
    BY <2>1, IsField DEF PortOK, TimersOK
  <2>states. StatesOK(r)
    BY <2>1, IsField DEF PortOK, StatesOK
  <2>info. InfoOK(r, p, K)
    BY <2>1, IsField DEF PortOK, InfoOK
  <2>roles. RolesOK(r)
    BY <2>1, IsField DEF PortOK, RolesOK
  <2>same. Same(q, r)
    BY <2>1, IsField DEF PortOK, Same
  <2>7. r.msg = q.msg /\ r.info = q.info
    BY <2>1, IsField DEF PortOK
  <2> QED
    BY <2>7, <2>fields, <2>timers, <2>states, <2>info, <2>roles, <2>same DEF PortOK
<1>3. CASE q.msg.type # "tcn"
  <2>1. r = [q EXCEPT !.rcvdTc = @ \/ "tc" \in q.msg.flags,
                      !.rcvdTcAck = @ \/ "tcAck" \in q.msg.flags]
    BY <1>3 DEF setTcFlags, r
  <2>fields. DOMAIN r = Fields
    BY <2>1, IsField DEF PortOK
  <2>timers. TimersOK(r)
    BY <2>1, IsField DEF PortOK, TimersOK
  <2>states. StatesOK(r)
    BY <2>1, IsField DEF PortOK, StatesOK
  <2>info. InfoOK(r, p, K)
    BY <2>1, IsField DEF PortOK, InfoOK
  <2>roles. RolesOK(r)
    BY <2>1, IsField DEF PortOK, RolesOK
  <2>same. Same(q, r)
    BY <2>1, IsField DEF PortOK, Same
  <2>7. r.msg = q.msg /\ r.info = q.info
    BY <2>1, IsField DEF PortOK
  <2> QED
    BY <2>7, <2>fields, <2>timers, <2>states, <2>info, <2>roles, <2>same DEF PortOK
<1> QED
  BY <1>2, <1>3

Judged == {"SUPERIOR_DESIGNATED", "REPEATED_DESIGNATED", "INFERIOR_DESIGNATED",
           "NOT_DESIGNATED", "OTHER"}

\* A message counts as superior only if it carries a priority.
LEMMA RcvInfo ==
  ASSUME NEW q
  PROVE  /\ rcvInfo(q) \in Judged
         /\ rcvInfo(q) = "SUPERIOR_DESIGNATED" => q.msg.type \in {"config", "rstp"}
BY DEF rcvInfo, Judged, fromDesignated

\* From which states a port gets where.
LEMMA InfoHop ==
  ASSUME NEW q, NEW p, NEW K, PortOK(q, p, K), NEW s, s = infoHop(q), s # Stay
  PROVE  /\ s \in {"DISABLED", "AGED", "UPDATE", "CURRENT", "RECEIVE"} \cup Judged
         /\ s = "UPDATE" => q.selected /\ q.updtInfo /\ q.infoIs # "Disabled"
         /\ s \in {"CURRENT", "RECEIVE"} \cup Judged => q.infoIs \in {"Mine", "Received"}
         /\ s = "SUPERIOR_DESIGNATED" => q.msg.type \in {"config", "rstp"}
<1>1. q.info \in InfoStates /\ (q.info \in {"BEGIN", "DISABLED"} <=> q.infoIs = "Disabled")
      /\ (q.info = "AGED" <=> q.infoIs = "Aged")
      /\ q.infoIs \in {"Disabled", "Aged", "Mine", "Received"}
  BY DEF PortOK, InfoOK
<1>2. CASE q.info = "BEGIN" \/ (~q.enabled /\ q.infoIs # "Disabled")
  BY <1>1, <1>2 DEF infoHop, Judged
<1>3. CASE ~(q.info = "BEGIN" \/ (~q.enabled /\ q.infoIs # "Disabled")) /\ q.info = "DISABLED"
  BY <1>1, <1>3 DEF infoHop, When, Judged
<1>4. CASE ~(q.info = "BEGIN" \/ (~q.enabled /\ q.infoIs # "Disabled")) /\ q.info = "AGED"
  BY <1>1, <1>4 DEF infoHop, When, Judged
<1>5. CASE ~(q.info = "BEGIN" \/ (~q.enabled /\ q.infoIs # "Disabled")) /\ q.info = "CURRENT"
  BY <1>1, <1>5 DEF infoHop, When, Judged
<1>6. CASE ~(q.info = "BEGIN" \/ (~q.enabled /\ q.infoIs # "Disabled")) /\ q.info = "RECEIVE"
  <2>1. s = rcvInfo(q)
    BY <1>6 DEF infoHop
  <2> QED
    BY <1>1, <1>6, <2>1, RcvInfo DEF Judged
<1>7. CASE ~(q.info = "BEGIN" \/ (~q.enabled /\ q.infoIs # "Disabled"))
           /\ q.info \in Judged \cup {"UPDATE"}
  <2>1. s = "CURRENT"
    BY <1>7 DEF infoHop, Judged
  <2> QED
    BY <1>1, <1>7, <2>1 DEF Judged
<1> QED
  BY <1>1, <1>2, <1>3, <1>4, <1>5, <1>6, <1>7 DEF InfoStates, Judged

(* What the information machine does to its port.  Either role selection runs again, or    *)
(* nothing it depends on has changed, or the information has become the bridge's own.      *)
Mined(q, r) ==
  /\ q.selected /\ q.updtInfo /\ q.infoIs # "Disabled" /\ r.infoIs = "Mine"
  /\ r.operPCost = q.operPCost
  /\ r.selectedRole = q.selectedRole /\ r.reselect = q.reselect /\ r.pcost = q.pcost

\* Every hop of the port information machine.
LEMMA InfoStep ==
  ASSUME NEW q, NEW p, NEW K, PortOK(q, p, K), NEW s, s = infoHop(q), s # Stay,
         NEW d, NEW age \in Nat
  PROVE  /\ PortOK(infoEnter([q EXCEPT !.info = s], d, age), p, K)
         /\ \/ infoEnter([q EXCEPT !.info = s], d, age).reselect
            \/ Same(q, infoEnter([q EXCEPT !.info = s], d, age))
            \/ Mined(q, infoEnter([q EXCEPT !.info = s], d, age))
<1> DEFINE r == infoEnter([q EXCEPT !.info = s], d, age)
           x == setTcFlags(q)
<1> SUFFICES PortOK(r, p, K) /\ (r.reselect \/ Same(q, r) \/ Mined(q, r))
  BY DEF r
<1> HIDE DEF r
<1>s. s \in InfoStates
  BY InfoHop DEF InfoStates, Judged
<1>0. /\ s \in {"DISABLED", "AGED", "UPDATE", "CURRENT", "RECEIVE"} \cup Judged
      /\ s = "UPDATE" => q.selected /\ q.updtInfo /\ q.infoIs # "Disabled"
      /\ s \in {"CURRENT", "RECEIVE"} \cup Judged => q.infoIs \in {"Mine", "Received"}
      /\ s = "SUPERIOR_DESIGNATED" => q.msg.type \in {"config", "rstp"}
  BY InfoHop
<1>x. /\ PortOK(x, p, K) /\ Same(q, x) /\ x.msg = q.msg /\ x.info = q.info
      /\ setTcFlags([q EXCEPT !.info = s]) = [x EXCEPT !.info = s]
  BY SetTcFlags
<1>m. NoMsg.type \notin {"config", "rstp"}
  BY DEF NoMsg
<1> HIDE DEF x
<1>1. CASE s = "DISABLED"
  <2>1. r = [q EXCEPT !.info = s, !.rcvdMsg = FALSE, !.msg = NoMsg, !.agreed = FALSE,
                      !.proposing = FALSE, !.proposed = FALSE, !.agree = FALSE,
                      !.rcvdInfoWhile = 0, !.infoIs = "Disabled", !.reselect = TRUE,
                      !.selected = FALSE]
    BY <1>1, IsField DEF PortOK, infoEnter, r
  <2>fields. DOMAIN r = Fields
    BY <2>1, IsField DEF PortOK
  <2>timers. TimersOK(r)
    BY <2>1, IsField, SpanHas DEF PortOK, TimersOK
  <2>states. StatesOK(r)
    BY <2>1, IsField DEF PortOK, StatesOK
  <2>info. InfoOK(r, p, K)
    BY <2>1, IsField, <1>s, <1>1, <1>m DEF PortOK, InfoOK
  <2>roles. RolesOK(r)
    BY <2>1, IsField DEF PortOK, RolesOK
  <2>same. r.reselect
    BY <2>1, IsField DEF PortOK
  <2> QED
    BY <2>fields, <2>timers, <2>states, <2>info, <2>roles, <2>same DEF PortOK
<1>2. CASE s = "AGED"
  <2>1. r = [q EXCEPT !.info = s, !.infoIs = "Aged", !.reselect = TRUE, !.selected = FALSE]
    BY <1>2, IsField DEF PortOK, infoEnter, r
  <2>fields. DOMAIN r = Fields
    BY <2>1, IsField DEF PortOK
  <2>timers. TimersOK(r)
    BY <2>1, IsField DEF PortOK, TimersOK
  <2>states. StatesOK(r)
    BY <2>1, IsField DEF PortOK, StatesOK
  <2>info. InfoOK(r, p, K)
    BY <2>1, IsField, <1>s, <1>2 DEF PortOK, InfoOK
  <2>roles. RolesOK(r)
    BY <2>1, IsField DEF PortOK, RolesOK
  <2>same. r.reselect
    BY <2>1, IsField DEF PortOK
  <2> QED
    BY <2>fields, <2>timers, <2>states, <2>info, <2>roles, <2>same DEF PortOK
<1>3. CASE s = "UPDATE"
  <2>1. r = [q EXCEPT !.info = s, !.proposed = FALSE, !.proposing = FALSE,
                      !.agreed = q.agreed /\ q.infoIs = "Mine" /\ NoWorse(d, q.portPrio),
                      !.synced = @ /\ q.agreed /\ q.infoIs = "Mine" /\ NoWorse(d, q.portPrio),
                      !.portPrio = d, !.portAge = age, !.updtInfo = FALSE, !.infoIs = "Mine",
                      !.newInfo = TRUE]
    BY <1>3, IsField DEF PortOK, infoEnter, r
  <2>fields. DOMAIN r = Fields
    BY <2>1, IsField DEF PortOK
  <2>timers. TimersOK(r)
    BY <2>1, IsField DEF PortOK, TimersOK
  <2>states. StatesOK(r)
    BY <2>1, IsField DEF PortOK, StatesOK
  <2>info. InfoOK(r, p, K)
    BY <2>1, IsField, <1>s, <1>3 DEF PortOK, InfoOK
  <2>roles. RolesOK(r)
    BY <2>1, IsField DEF PortOK, RolesOK
  <2>same. Mined(q, r)
    BY <2>1, IsField, <1>0, <1>3 DEF PortOK, Mined
  <2> QED
    BY <2>fields, <2>timers, <2>states, <2>info, <2>roles, <2>same DEF PortOK
<1>4. CASE s \in {"CURRENT", "RECEIVE"}
  <2>1. r = [q EXCEPT !.info = s]
    BY <1>4, IsField DEF PortOK, infoEnter, r
  <2>fields. DOMAIN r = Fields
    BY <2>1, IsField DEF PortOK
  <2>timers. TimersOK(r)
    BY <2>1, IsField DEF PortOK, TimersOK
  <2>states. StatesOK(r)
    BY <2>1, IsField DEF PortOK, StatesOK
  <2>info. InfoOK(r, p, K)
    BY <2>1, IsField, <1>s, <1>0, <1>4 DEF PortOK, InfoOK
  <2>roles. RolesOK(r)
    BY <2>1, IsField DEF PortOK, RolesOK
  <2>same. Same(q, r)
    BY <2>1, IsField DEF PortOK, Same
  <2> QED
    BY <2>fields, <2>timers, <2>states, <2>info, <2>roles, <2>same DEF PortOK
<1>5. CASE s = "SUPERIOR_DESIGNATED"
  <2>0. PICK a, b, t : /\ t \in Span
                       /\ r = [x EXCEPT !.info = s, !.agreed = FALSE, !.proposing = FALSE,
                                 !.proposed = a, !.agree = b, !.portPrio = x.msg.prio,
                                 !.portAge = x.msg.age, !.rcvdInfoWhile = t,
                                 !.infoIs = "Received", !.reselect = TRUE, !.selected = FALSE,
                                 !.rcvdMsg = FALSE, !.msg = NoMsg]
    <3> DEFINE y == [q EXCEPT !.info = s]
               z == setTcFlags(y)
               a0 == z.proposed \/ (y.msg.type = "rstp" /\ "proposal" \in y.msg.flags)
               b0 == z.agree /\ y.infoIs = "Received" /\ NoWorse(y.msg.prio, y.portPrio)
               t0 == IF y.msg.age + 1 <= MaxAge THEN 3 * HelloTime ELSE 0
    <3>1. superiorDesignated(y) =
            [z EXCEPT !.agreed = FALSE, !.proposing = FALSE, !.proposed = a0, !.agree = b0,
               !.portPrio = y.msg.prio, !.portAge = y.msg.age, !.rcvdInfoWhile = t0,
               !.infoIs = "Received", !.reselect = TRUE, !.selected = FALSE]
      BY DEF superiorDesignated
    <3>2. y.info = "SUPERIOR_DESIGNATED" /\ y.msg = x.msg
      BY <1>5, <1>x, IsField DEF PortOK
    <3>3. z = [x EXCEPT !.info = s]
      BY <1>x
    <3>4. t0 \in Span
      BY SpanHas
    <3>5. r = infoEnter(y, d, age)
      BY DEF r
    <3> HIDE DEF y
    <3>6. r = [superiorDesignated(y) EXCEPT !.rcvdMsg = FALSE, !.msg = NoMsg]
      BY <3>2, <3>5 DEF infoEnter
    <3> HIDE DEF a0, b0, t0, z
    <3>7. r = [x EXCEPT !.info = s, !.agreed = FALSE, !.proposing = FALSE,
                 !.proposed = a0, !.agree = b0, !.portPrio = x.msg.prio,
                 !.portAge = x.msg.age, !.rcvdInfoWhile = t0,
                 !.infoIs = "Received", !.reselect = TRUE, !.selected = FALSE,
                 !.rcvdMsg = FALSE, !.msg = NoMsg]
      BY <3>1, <3>2, <3>3, <3>6
    <3> QED
      BY <3>4, <3>7
  <2>1. PortOK(x, p, K)
    BY <1>x
  <2>fields. DOMAIN r = Fields
    BY <2>0, <2>1, IsField DEF PortOK
  <2>timers. TimersOK(r)
    BY <2>0, <2>1, IsField DEF PortOK, TimersOK
  <2>states. StatesOK(r)
    BY <2>0, <2>1, IsField DEF PortOK, StatesOK
  <2>info. InfoOK(r, p, K)
    BY <2>0, <2>1, IsField, <1>s, <1>m, <1>5, <1>0, <1>x DEF PortOK, InfoOK
  <2>roles. RolesOK(r)
    BY <2>0, <2>1, IsField DEF PortOK, RolesOK
  <2>same. r.reselect
    BY <2>0, <2>1, IsField DEF PortOK
  <2> QED
    BY <2>fields, <2>timers, <2>states, <2>info, <2>roles, <2>same DEF PortOK
<1>6. CASE s = "REPEATED_DESIGNATED"
  <2>0. PortOK(x, p, K) /\ x.infoIs \in {"Mine", "Received"} /\ s \in InfoStates
    BY <1>0, <1>x, <1>6 DEF Same, Judged, InfoStates
  <2>1. r = [x EXCEPT !.info = s, !.rcvdInfoWhile = 3 * HelloTime,
                      !.rcvdMsg = FALSE, !.msg = NoMsg]
    BY <1>x, <1>6, IsField DEF PortOK, infoEnter, r
  <2>fields. DOMAIN r = Fields
    BY <2>0, <2>1, IsField DEF PortOK
  <2>timers. TimersOK(r)
    BY <2>0, <2>1, IsField, SpanHas DEF PortOK, TimersOK
  <2>states. StatesOK(r)
    BY <2>0, <2>1, IsField DEF PortOK, StatesOK
  <2>info. InfoOK(r, p, K)
    BY <2>0, <2>1, IsField, <1>m, <1>6 DEF PortOK, InfoOK
  <2>roles. RolesOK(r)
    BY <2>0, <2>1, IsField DEF PortOK, RolesOK
  <2>same. Same(x, r)
    BY <2>0, <2>1, IsField DEF PortOK, Same
  <2>7. Same(q, r)
    BY <1>x, <2>same DEF Same
  <2> QED
    BY <2>7, <2>fields, <2>timers, <2>states, <2>info, <2>roles DEF PortOK
<1>7. CASE s = "INFERIOR_DESIGNATED"
  <2>0. PortOK(q, p, K) /\ q.infoIs \in {"Mine", "Received"} /\ s \in InfoStates
    BY <1>0, <1>7 DEF Judged, InfoStates
  <2>1. CASE q.msg.type = "rstp" /\ "learn" \in q.msg.flags
    <3>1. r = [q EXCEPT !.info = s, !.agreed = TRUE, !.proposing = FALSE, !.disputed = TRUE,
                        !.rcvdMsg = FALSE, !.msg = NoMsg]
      BY <1>7, <2>1, IsField DEF PortOK, infoEnter, inferiorDesignated, r
    <3>fields. DOMAIN r = Fields
      BY <2>0, <3>1, IsField DEF PortOK
    <3>timers. TimersOK(r)
      BY <2>0, <3>1, IsField DEF PortOK, TimersOK
    <3>states. StatesOK(r)
      BY <2>0, <3>1, IsField DEF PortOK, StatesOK
    <3>info. InfoOK(r, p, K)
      BY <2>0, <3>1, IsField, <1>m, <1>7 DEF PortOK, InfoOK
    <3>roles. RolesOK(r)
      BY <2>0, <3>1, IsField DEF PortOK, RolesOK
    <3>same. Same(q, r)
      BY <2>0, <3>1, IsField DEF PortOK, Same
    <3> QED
      BY <3>fields, <3>timers, <3>states, <3>info, <3>roles, <3>same DEF PortOK
  <2>2. CASE ~(q.msg.type = "rstp" /\ "learn" \in q.msg.flags)
    <3>1. r = [q EXCEPT !.info = s, !.rcvdMsg = FALSE, !.msg = NoMsg]
      BY <1>7, <2>2, IsField DEF PortOK, infoEnter, inferiorDesignated, r
    <3>fields. DOMAIN r = Fields
      BY <2>0, <3>1, IsField DEF PortOK
    <3>timers. TimersOK(r)
      BY <2>0, <3>1, IsField DEF PortOK, TimersOK
    <3>states. StatesOK(r)
      BY <2>0, <3>1, IsField DEF PortOK, StatesOK
    <3>info. InfoOK(r, p, K)
      BY <2>0, <3>1, IsField, <1>m, <1>7 DEF PortOK, InfoOK
    <3>roles. RolesOK(r)
      BY <2>0, <3>1, IsField DEF PortOK, RolesOK
    <3>same. Same(q, r)
      BY <2>0, <3>1, IsField DEF PortOK, Same
    <3> QED
      BY <3>fields, <3>timers, <3>states, <3>info, <3>roles, <3>same DEF PortOK
  <2> QED
    BY <2>1, <2>2
<1>8. CASE s = "NOT_DESIGNATED"
  <2>0. PortOK(x, p, K) /\ x.infoIs \in {"Mine", "Received"} /\ s \in InfoStates
    BY <1>0, <1>x, <1>8 DEF Same, Judged, InfoStates
  <2>1. PICK a, b : r = [x EXCEPT !.info = s, !.agreed = a, !.proposing = b,
                                  !.rcvdMsg = FALSE, !.msg = NoMsg]
    <3> DEFINE y == [q EXCEPT !.info = s]
               z == setTcFlags(y)
               a0 == agrees(y)
               b0 == z.proposing /\ ~agrees(y)
    <3>1. notDesignated(y) = [z EXCEPT !.agreed = a0, !.proposing = b0]
      BY DEF notDesignated
    <3>2. y.info = "NOT_DESIGNATED"
      BY <1>8, IsField DEF PortOK
    <3>3. z = [x EXCEPT !.info = s]
      BY <1>x
    <3>4. r = infoEnter(y, d, age)
      BY DEF r
    <3> HIDE DEF y
    <3>5. r = [notDesignated(y) EXCEPT !.rcvdMsg = FALSE, !.msg = NoMsg]
      BY <3>2, <3>4 DEF infoEnter
    <3> HIDE DEF a0, b0, z
    <3>6. r = [x EXCEPT !.info = s, !.agreed = a0, !.proposing = b0,
                        !.rcvdMsg = FALSE, !.msg = NoMsg]
      BY <3>1, <3>3, <3>5
    <3> QED
      BY <3>6
  <2>fields. DOMAIN r = Fields
    BY <2>0, <2>1, IsField DEF PortOK
  <2>timers. TimersOK(r)
    BY <2>0, <2>1, IsField DEF PortOK, TimersOK
  <2>states. StatesOK(r)
    BY <2>0, <2>1, IsField DEF PortOK, StatesOK
  <2>info. InfoOK(r, p, K)
    BY <2>0, <2>1, IsField, <1>m, <1>8 DEF PortOK, InfoOK
  <2>roles. RolesOK(r)
    BY <2>0, <2>1, IsField DEF PortOK, RolesOK
  <2>same. Same(x, r)
    BY <2>0, <2>1, IsField DEF PortOK, Same
  <2>7. Same(q, r)
    BY <1>x, <2>same DEF Same
  <2> QED
    BY <2>7, <2>fields, <2>timers, <2>states, <2>info, <2>roles DEF PortOK
<1>9. CASE s = "OTHER"
  <2>0. PortOK(q, p, K) /\ q.infoIs \in {"Mine", "Received"} /\ s \in InfoStates
    BY <1>0, <1>9 DEF Judged, InfoStates
  <2>1. r = [q EXCEPT !.info = s, !.rcvdMsg = FALSE, !.msg = NoMsg]
    BY <1>9, IsField DEF PortOK, infoEnter, r
  <2>fields. DOMAIN r = Fields
    BY <2>0, <2>1, IsField DEF PortOK
  <2>timers. TimersOK(r)
    BY <2>0, <2>1, IsField DEF PortOK, TimersOK
  <2>states. StatesOK(r)
    BY <2>0, <2>1, IsField DEF PortOK, StatesOK
  <2>info. InfoOK(r, p, K)
    BY <2>0, <2>1, IsField, <1>m, <1>9 DEF PortOK, InfoOK
  <2>roles. RolesOK(r)
    BY <2>0, <2>1, IsField DEF PortOK, RolesOK
  <2>same. Same(q, r)
    BY <2>0, <2>1, IsField DEF PortOK, Same
  <2> QED
    BY <2>fields, <2>timers, <2>states, <2>info, <2>roles, <2>same DEF PortOK
<1> QED
  BY <1>0, <1>1, <1>2, <1>3, <1>4, <1>5, <1>6, <1>7, <1>8, <1>9 DEF Judged

\* A Root port hops to states of a Root port.
LEMMA RootHop ==
  ASSUME NEW q, NEW synced, NEW rerooted, rootHop(q, synced, rerooted) # Stay
  PROVE  rootHop(q, synced, rerooted) \in RootStates
<1> DEFINE may == q.fdWhile = 0 \/ (rerooted /\ q.rbWhile = 0)
           table == <<
             << ~q.forward /\ ~q.reRoot, "REROOT" >>,
             << (synced /\ ~q.agree) \/ (q.proposed /\ q.agree), "ROOT_AGREED" >>,
             << q.proposed /\ ~q.agree, "ROOT_PROPOSED" >>,
             << may /\ q.learn /\ ~q.forward, "ROOT_FORWARD" >>,
             << may /\ ~q.learn, "ROOT_LEARN" >>,
             << q.reRoot /\ q.forward, "REROOTED" >>,
             << q.rrWhile # ForwardDelay, "ROOT_PORT" >> >>
<1>1. DOMAIN table = 1 .. 7
  OBVIOUS
<1>2. \A i \in 1 .. 7 : table[i][2] \in RootStates
  BY DEF RootStates
<1>3. rootHop(q, synced, rerooted) = First(table)
  BY DEF rootHop
<1> HIDE DEF table
<1> QED
  BY <1>1, <1>2, <1>3, FirstIs

\* A Designated port hops to states of a Designated port.
LEMMA DesignatedHop ==
  ASSUME NEW q, designatedHop(q) # Stay
  PROVE  designatedHop(q) \in DesignatedStates
<1> DEFINE may == /\ q.fdWhile = 0 \/ q.agreed \/ q.operEdge
                  /\ q.rrWhile = 0 \/ ~q.reRoot
                  /\ ~q.sync
           table == <<
             << ~q.forward /\ ~q.agreed /\ ~q.proposing /\ ~q.operEdge, "DESIGNATED_PROPOSE" >>,
             << q.rrWhile = 0 /\ q.reRoot, "DESIGNATED_RETIRED" >>,
             << IF q.synced THEN q.sync
                            ELSE (~q.learning /\ ~q.forwarding) \/ q.agreed \/ q.operEdge,
                "DESIGNATED_SYNCED" >>,
             << may /\ q.learn /\ ~q.forward, "DESIGNATED_FORWARD" >>,
             << may /\ ~q.learn, "DESIGNATED_LEARN" >>,
             << /\ (q.sync /\ ~q.synced) \/ (q.reRoot /\ q.rrWhile # 0) \/ q.disputed
                /\ ~q.operEdge /\ (q.learn \/ q.forward), "DESIGNATED_DISCARD" >> >>
<1>1. DOMAIN table = 1 .. 6
  OBVIOUS
<1>2. \A i \in 1 .. 6 : table[i][2] \in DesignatedStates
  BY DEF DesignatedStates
<1>3. designatedHop(q) = First(table)
  BY DEF designatedHop
<1> HIDE DEF table
<1> QED
  BY <1>1, <1>2, <1>3, FirstIs

\* An Alternate port hops to states of an Alternate port.
LEMMA AlternateHop ==
  ASSUME NEW q, NEW synced, alternateHop(q, synced) # Stay
  PROVE  alternateHop(q, synced) \in OtherStates \ {"BEGIN"}
<1> DEFINE table == <<
  << ~q.agree /\ q.proposed, "ALTERNATE_PROPOSED" >>,
  << (synced /\ ~q.agree) \/ (q.proposed /\ q.agree), "ALTERNATE_AGREED" >>,
  << q.rbWhile # 2 * HelloTime /\ q.role = "Backup", "BACKUP_PORT" >>,
  << q.fdWhile # forward_del(q) \/ q.sync \/ q.reRoot \/ ~q.synced, "ALTERNATE_PORT" >> >>
<1>1. DOMAIN table = 1 .. 4
  OBVIOUS
<1>2. \A i \in 1 .. 4 : table[i][2] \in OtherStates \ {"BEGIN"}
  BY DEF OtherStates
<1>3. alternateHop(q, synced) = First(table)
  BY DEF alternateHop
<1> HIDE DEF table
<1> QED
  BY <1>1, <1>2, <1>3, FirstIs

\* A passing state and the state it belongs to are of the same role.
LEMMA RestingIs ==
  \A t \in DOMAIN Resting :
    Resting[t] \in {"DISABLE_PORT", "ROOT_PORT", "DESIGNATED_PORT", "ALTERNATE_PORT"}
BY DEF Resting

\* The state that takes over a role.
LEMMA OfRoleIs ==
  \A t \in AllRoles :
    OfRole[t] \in {"DISABLE_PORT", "ROOT_PORT", "DESIGNATED_PORT", "BLOCK_PORT"}
BY DEF OfRole, AllRoles

\* The resting states, which have conditions of their own.
LEMMA RestingAre ==
  \A t \in RootStates \cup DesignatedStates \cup OtherStates : t \notin DOMAIN Resting =>
    t \in {"BEGIN", "DISABLE_PORT", "DISABLED_PORT", "ROOT_PORT", "DESIGNATED_PORT",
           "ALTERNATE_PORT"}
BY DEF Resting, RootStates, DesignatedStates, OtherStates

\* A state of a role, other than the one that takes the role, is entered in that role.
LEMMA RoletrnsHop ==
  ASSUME NEW b, NEW p, NEW K, PortOK(b.port[p], p, K),
         NEW s, s = roletrnsHop(b, p), s # Stay
  PROVE  /\ s \in RootStates \cup DesignatedStates \cup OtherStates /\ s # "BEGIN"
         /\ s \in RootStates /\ s # "ROOT_PORT" => b.port[p].role = "Root"
         /\ s \in DesignatedStates /\ s # "DESIGNATED_PORT" => b.port[p].role = "Designated"
<1> DEFINE q == b.port[p]
           ready == q.selected /\ ~q.updtInfo
           Good(t) == /\ t \in RootStates \cup DesignatedStates \cup OtherStates /\ t # "BEGIN"
                      /\ t \in RootStates /\ t # "ROOT_PORT" => q.role = "Root"
                      /\ t \in DesignatedStates /\ t # "DESIGNATED_PORT" => q.role = "Designated"
<1>1. \A t \in {"INIT_PORT", "DISABLE_PORT", "DISABLED_PORT", "ROOT_PORT", "DESIGNATED_PORT",
                "ALTERNATE_PORT", "BLOCK_PORT"} : Good(t)
  BY DEF RootStates, DesignatedStates, OtherStates
<1>2. \A t \in OtherStates \ {"BEGIN"} : Good(t)
  BY DEF RootStates, DesignatedStates, OtherStates
<1>3. /\ q.roletrns \in RootStates \cup DesignatedStates \cup OtherStates
      /\ q.selectedRole \in AllRoles
      /\ q.roletrns = "ROOT_PORT" => q.role = "Root"
      /\ q.roletrns = "DESIGNATED_PORT" => q.role = "Designated"
  BY DEF PortOK, StatesOK, RolesOK, RootStates, DesignatedStates
<1>4. q.role = "Root" => \A t \in RootStates : Good(t)
  BY DEF RootStates, DesignatedStates
<1>5. q.role = "Designated" => \A t \in DesignatedStates : Good(t)
  BY DEF RootStates, DesignatedStates
<1> SUFFICES Good(s)
  OBVIOUS
<1> HIDE DEF Good
<1>6. CASE q.roletrns = "BEGIN"
  <2>1. s = "INIT_PORT"
    BY <1>6 DEF roletrnsHop
  <2> QED
    BY <1>1, <2>1
<1>7. CASE q.roletrns # "BEGIN" /\ ready /\ q.role # q.selectedRole
  <2>1. s = OfRole[q.selectedRole]
    BY <1>7 DEF roletrnsHop
  <2> QED
    BY <1>1, <1>3, <2>1, OfRoleIs
<1>8. CASE q.roletrns # "BEGIN" /\ ~(ready /\ q.role # q.selectedRole)
  <2>1. CASE q.roletrns \in DOMAIN Resting
    <3>1. s = Resting[q.roletrns]
      BY <1>8, <2>1 DEF roletrnsHop
    <3> QED
      BY <1>1, <2>1, <3>1, RestingIs
  <2>2. CASE q.roletrns \notin DOMAIN Resting
    <3>1. s = CASE q.roletrns \in {"DISABLE_PORT", "DISABLED_PORT"} -> disabledHop(q)
                [] q.roletrns = "ROOT_PORT" -> rootHop(q, allSynced(b), reRooted(b, p))
                [] q.roletrns = "DESIGNATED_PORT" -> designatedHop(q)
                [] q.roletrns = "ALTERNATE_PORT" -> alternateHop(q, allSynced(b))
      BY <1>8, <2>2 DEF roletrnsHop
    <3>2. CASE q.roletrns \in {"DISABLE_PORT", "DISABLED_PORT"}
      <4>1. s = "DISABLED_PORT"
        BY <3>1, <3>2 DEF disabledHop, When
      <4> QED
        BY <1>1, <4>1
    <3>3. CASE q.roletrns = "ROOT_PORT"
      BY <1>3, <1>4, <3>1, <3>3, RootHop
    <3>4. CASE q.roletrns = "DESIGNATED_PORT"
      BY <1>3, <1>5, <3>1, <3>4, DesignatedHop
    <3>5. CASE q.roletrns = "ALTERNATE_PORT"
      BY <1>2, <3>1, <3>5, AlternateHop
    <3> QED
      BY <1>3, <1>8, <2>2, <3>2, <3>3, <3>4, <3>5, RestingAre
  <2> QED
    BY <2>1, <2>2
<1> QED
  BY <1>6, <1>7, <1>8

\* What a state of the role transition machine does to its own port.
LEMMA RoletrnsOwn ==
  ASSUME NEW q, NEW p, NEW K, PortOK(q, p, K), NEW s,
         s \in RootStates \cup DesignatedStates \cup OtherStates, s # "BEGIN",
         s \in RootStates /\ s # "ROOT_PORT" => q.role = "Root",
         s \in DesignatedStates /\ s # "DESIGNATED_PORT" => q.role = "Designated"
  PROVE  /\ PortOK(roletrnsOwn([q EXCEPT !.roletrns = s]), p, K)
         /\ Same(q, roletrnsOwn([q EXCEPT !.roletrns = s]))
<1> DEFINE r == roletrnsOwn([q EXCEPT !.roletrns = s])
<1> SUFFICES PortOK(r, p, K) /\ Same(q, r)
  BY DEF r
<1> HIDE DEF r
<1>0. /\ q.selectedRole \in AllRoles
      /\ HelloTime \in Span /\ ForwardDelay \in Span /\ forward_del(q) \in Span
  BY SpanHas DEF PortOK, RolesOK, forward_del
<1>1. CASE s = "INIT_PORT"
  <2>1. r = [q EXCEPT !.roletrns = s, !.role = "Disabled", !.learn = FALSE,
                      !.forward = FALSE, !.synced = FALSE,
                      !.sync = TRUE, !.reRoot = TRUE, !.rrWhile = ForwardDelay,
                      !.fdWhile = MaxAge, !.rbWhile = 0]
    BY <1>1, IsField DEF PortOK, roletrnsOwn, r
  <2>fields. DOMAIN r = Fields
    BY <2>1, IsField DEF PortOK
  <2>timers. TimersOK(r)
    BY <2>1, IsField, SpanHas DEF PortOK, TimersOK
  <2>states. StatesOK(r)
    BY <2>1, IsField DEF PortOK, StatesOK
  <2>info. InfoOK(r, p, K)
    BY <2>1, IsField DEF PortOK, InfoOK
  <2>roles. RolesOK(r)
    BY <1>0, <1>1, <2>1, IsField
    DEF PortOK, RolesOK, RootStates, DesignatedStates
  <2>same. Same(q, r)
    BY <2>1, IsField DEF PortOK, Same
  <2> QED
    BY <2>fields, <2>timers, <2>states, <2>info, <2>roles, <2>same DEF PortOK
<1>2. CASE s = "DISABLE_PORT"
  <2>1. r = [q EXCEPT !.roletrns = s, !.role = q.selectedRole, !.learn = FALSE, !.forward = FALSE]
    BY <1>2, IsField DEF PortOK, roletrnsOwn, r
  <2>fields. DOMAIN r = Fields
    BY <2>1, IsField DEF PortOK
  <2>timers. TimersOK(r)
    BY <2>1, IsField DEF PortOK, TimersOK
  <2>states. StatesOK(r)
    BY <2>1, IsField DEF PortOK, StatesOK
  <2>info. InfoOK(r, p, K)
    BY <2>1, IsField DEF PortOK, InfoOK
  <2>roles. RolesOK(r)
    BY <1>0, <1>2, <2>1, IsField
    DEF PortOK, RolesOK, RootStates, DesignatedStates
  <2>same. Same(q, r)
    BY <2>1, IsField DEF PortOK, Same
  <2> QED
    BY <2>fields, <2>timers, <2>states, <2>info, <2>roles, <2>same DEF PortOK
<1>3. CASE s = "BLOCK_PORT"
  <2>1. r = [q EXCEPT !.roletrns = s, !.role = q.selectedRole, !.learn = FALSE, !.forward = FALSE]
    BY <1>3, IsField DEF PortOK, roletrnsOwn, r
  <2>fields. DOMAIN r = Fields
    BY <2>1, IsField DEF PortOK
  <2>timers. TimersOK(r)
    BY <2>1, IsField DEF PortOK, TimersOK
  <2>states. StatesOK(r)
    BY <2>1, IsField DEF PortOK, StatesOK
  <2>info. InfoOK(r, p, K)
    BY <2>1, IsField DEF PortOK, InfoOK
  <2>roles. RolesOK(r)
    BY <1>0, <1>3, <2>1, IsField
    DEF PortOK, RolesOK, RootStates, DesignatedStates
  <2>same. Same(q, r)
    BY <2>1, IsField DEF PortOK, Same
  <2> QED
    BY <2>fields, <2>timers, <2>states, <2>info, <2>roles, <2>same DEF PortOK
<1>4. CASE s = "DISABLED_PORT"
  <2>1. r = [q EXCEPT !.roletrns = s, !.fdWhile = MaxAge, !.synced = TRUE,
                      !.rrWhile = 0, !.sync = FALSE, !.reRoot = FALSE]
    BY <1>4, IsField DEF PortOK, roletrnsOwn, r
  <2>fields. DOMAIN r = Fields
    BY <2>1, IsField DEF PortOK
  <2>timers. TimersOK(r)
    BY <2>1, IsField, SpanHas DEF PortOK, TimersOK
  <2>states. StatesOK(r)
    BY <2>1, IsField DEF PortOK, StatesOK
  <2>info. InfoOK(r, p, K)
    BY <2>1, IsField DEF PortOK, InfoOK
  <2>roles. RolesOK(r)
    BY <1>0, <1>4, <2>1, IsField
    DEF PortOK, RolesOK, RootStates, DesignatedStates
  <2>same. Same(q, r)
    BY <2>1, IsField DEF PortOK, Same
  <2> QED
    BY <2>fields, <2>timers, <2>states, <2>info, <2>roles, <2>same DEF PortOK
<1>5. CASE s = "ALTERNATE_PORT"
  <2>1. r = [q EXCEPT !.roletrns = s, !.fdWhile = forward_del(q), !.synced = TRUE,
                      !.rrWhile = 0, !.sync = FALSE, !.reRoot = FALSE]
    BY <1>5, IsField DEF PortOK, roletrnsOwn, r, forward_del
  <2>fields. DOMAIN r = Fields
    BY <2>1, IsField DEF PortOK
  <2>timers. TimersOK(r)
    BY <2>1, IsField, SpanHas, <1>0 DEF PortOK, TimersOK
  <2>states. StatesOK(r)
    BY <2>1, IsField DEF PortOK, StatesOK
  <2>info. InfoOK(r, p, K)
    BY <2>1, IsField DEF PortOK, InfoOK
  <2>roles. RolesOK(r)
    BY <1>0, <1>5, <2>1, IsField
    DEF PortOK, RolesOK, RootStates, DesignatedStates
  <2>same. Same(q, r)
    BY <2>1, IsField DEF PortOK, Same
  <2> QED
    BY <2>fields, <2>timers, <2>states, <2>info, <2>roles, <2>same DEF PortOK
<1>6. CASE s = "ROOT_PROPOSED"
  <2>1. r = [q EXCEPT !.roletrns = s, !.proposed = FALSE]
    BY <1>6, IsField DEF PortOK, roletrnsOwn, r
  <2>fields. DOMAIN r = Fields
    BY <2>1, IsField DEF PortOK
  <2>timers. TimersOK(r)
    BY <2>1, IsField DEF PortOK, TimersOK
  <2>states. StatesOK(r)
    BY <2>1, IsField DEF PortOK, StatesOK
  <2>info. InfoOK(r, p, K)
    BY <2>1, IsField DEF PortOK, InfoOK
  <2>roles. RolesOK(r)
    BY <1>0, <1>6, <2>1, IsField
    DEF PortOK, RolesOK, RootStates, DesignatedStates
  <2>same. Same(q, r)
    BY <2>1, IsField DEF PortOK, Same
  <2> QED
    BY <2>fields, <2>timers, <2>states, <2>info, <2>roles, <2>same DEF PortOK
<1>7. CASE s = "ALTERNATE_PROPOSED"
  <2>1. r = [q EXCEPT !.roletrns = s, !.proposed = FALSE]
    BY <1>7, IsField DEF PortOK, roletrnsOwn, r
  <2>fields. DOMAIN r = Fields
    BY <2>1, IsField DEF PortOK
  <2>timers. TimersOK(r)
    BY <2>1, IsField DEF PortOK, TimersOK
  <2>states. StatesOK(r)
    BY <2>1, IsField DEF PortOK, StatesOK
  <2>info. InfoOK(r, p, K)
    BY <2>1, IsField DEF PortOK, InfoOK
  <2>roles. RolesOK(r)
    BY <1>0, <1>7, <2>1, IsField
    DEF PortOK, RolesOK, RootStates, DesignatedStates
  <2>same. Same(q, r)
    BY <2>1, IsField DEF PortOK, Same
  <2> QED
    BY <2>fields, <2>timers, <2>states, <2>info, <2>roles, <2>same DEF PortOK
<1>8. CASE s = "ROOT_AGREED"
  <2>1. r = [q EXCEPT !.roletrns = s, !.proposed = FALSE, !.sync = FALSE, !.agree = TRUE,
                      !.newInfo = TRUE]
    BY <1>8, IsField DEF PortOK, roletrnsOwn, r
  <2>fields. DOMAIN r = Fields
    BY <2>1, IsField DEF PortOK
  <2>timers. TimersOK(r)
    BY <2>1, IsField DEF PortOK, TimersOK
  <2>states. StatesOK(r)
    BY <2>1, IsField DEF PortOK, StatesOK
  <2>info. InfoOK(r, p, K)
    BY <2>1, IsField DEF PortOK, InfoOK
  <2>roles. RolesOK(r)
    BY <1>0, <1>8, <2>1, IsField
    DEF PortOK, RolesOK, RootStates, DesignatedStates
  <2>same. Same(q, r)
    BY <2>1, IsField DEF PortOK, Same
  <2> QED
    BY <2>fields, <2>timers, <2>states, <2>info, <2>roles, <2>same DEF PortOK
<1>9. CASE s = "ALTERNATE_AGREED"
  <2>1. r = [q EXCEPT !.roletrns = s, !.proposed = FALSE, !.agree = TRUE, !.newInfo = TRUE]
    BY <1>9, IsField DEF PortOK, roletrnsOwn, r
  <2>fields. DOMAIN r = Fields
    BY <2>1, IsField DEF PortOK
  <2>timers. TimersOK(r)
    BY <2>1, IsField DEF PortOK, TimersOK
  <2>states. StatesOK(r)
    BY <2>1, IsField DEF PortOK, StatesOK
  <2>info. InfoOK(r, p, K)
    BY <2>1, IsField DEF PortOK, InfoOK
  <2>roles. RolesOK(r)
    BY <1>0, <1>9, <2>1, IsField
    DEF PortOK, RolesOK, RootStates, DesignatedStates
  <2>same. Same(q, r)
    BY <2>1, IsField DEF PortOK, Same
  <2> QED
    BY <2>fields, <2>timers, <2>states, <2>info, <2>roles, <2>same DEF PortOK
<1>10. CASE s = "ROOT_PORT"
  <2>1. r = [q EXCEPT !.roletrns = s, !.role = "Root", !.rrWhile = ForwardDelay]
    BY <1>10, IsField DEF PortOK, roletrnsOwn, r
  <2>fields. DOMAIN r = Fields
    BY <2>1, IsField DEF PortOK
  <2>timers. TimersOK(r)
    BY <2>1, IsField, SpanHas DEF PortOK, TimersOK
  <2>states. StatesOK(r)
    BY <2>1, IsField DEF PortOK, StatesOK
  <2>info. InfoOK(r, p, K)
    BY <2>1, IsField DEF PortOK, InfoOK
  <2>roles. RolesOK(r)
    BY <1>0, <1>10, <2>1, IsField
    DEF PortOK, RolesOK, RootStates, DesignatedStates
  <2>same. Same(q, r)
    BY <2>1, IsField DEF PortOK, Same
  <2> QED
    BY <2>fields, <2>timers, <2>states, <2>info, <2>roles, <2>same DEF PortOK
<1>11. CASE s = "REROOTED"
  <2>1. r = [q EXCEPT !.roletrns = s, !.reRoot = FALSE]
    BY <1>11, IsField DEF PortOK, roletrnsOwn, r
  <2>fields. DOMAIN r = Fields
    BY <2>1, IsField DEF PortOK
  <2>timers. TimersOK(r)
    BY <2>1, IsField DEF PortOK, TimersOK
  <2>states. StatesOK(r)
    BY <2>1, IsField DEF PortOK, StatesOK
  <2>info. InfoOK(r, p, K)
    BY <2>1, IsField DEF PortOK, InfoOK
  <2>roles. RolesOK(r)
    BY <1>0, <1>11, <2>1, IsField
    DEF PortOK, RolesOK, RootStates, DesignatedStates
  <2>same. Same(q, r)
    BY <2>1, IsField DEF PortOK, Same
  <2> QED
    BY <2>fields, <2>timers, <2>states, <2>info, <2>roles, <2>same DEF PortOK
<1>12. CASE s = "DESIGNATED_RETIRED"
  <2>1. r = [q EXCEPT !.roletrns = s, !.reRoot = FALSE]
    BY <1>12, IsField DEF PortOK, roletrnsOwn, r
  <2>fields. DOMAIN r = Fields
    BY <2>1, IsField DEF PortOK
  <2>timers. TimersOK(r)
    BY <2>1, IsField DEF PortOK, TimersOK
  <2>states. StatesOK(r)
    BY <2>1, IsField DEF PortOK, StatesOK
  <2>info. InfoOK(r, p, K)
    BY <2>1, IsField DEF PortOK, InfoOK
  <2>roles. RolesOK(r)
    BY <1>0, <1>12, <2>1, IsField
    DEF PortOK, RolesOK, RootStates, DesignatedStates
  <2>same. Same(q, r)
    BY <2>1, IsField DEF PortOK, Same
  <2> QED
    BY <2>fields, <2>timers, <2>states, <2>info, <2>roles, <2>same DEF PortOK
<1>13. CASE s = "ROOT_LEARN"
  <2>1. r = [q EXCEPT !.roletrns = s, !.fdWhile = ForwardDelay, !.learn = TRUE]
    BY <1>13, IsField DEF PortOK, roletrnsOwn, r
  <2>fields. DOMAIN r = Fields
    BY <2>1, IsField DEF PortOK
  <2>timers. TimersOK(r)
    BY <2>1, IsField, SpanHas DEF PortOK, TimersOK
  <2>states. StatesOK(r)
    BY <2>1, IsField DEF PortOK, StatesOK
  <2>info. InfoOK(r, p, K)
    BY <2>1, IsField DEF PortOK, InfoOK
  <2>roles. RolesOK(r)
    BY <1>0, <1>13, <2>1, IsField
    DEF PortOK, RolesOK, RootStates, DesignatedStates
  <2>same. Same(q, r)
    BY <2>1, IsField DEF PortOK, Same
  <2> QED
    BY <2>fields, <2>timers, <2>states, <2>info, <2>roles, <2>same DEF PortOK
<1>14. CASE s = "DESIGNATED_LEARN"
  <2>1. r = [q EXCEPT !.roletrns = s, !.fdWhile = ForwardDelay, !.learn = TRUE]
    BY <1>14, IsField DEF PortOK, roletrnsOwn, r
  <2>fields. DOMAIN r = Fields
    BY <2>1, IsField DEF PortOK
  <2>timers. TimersOK(r)
    BY <2>1, IsField, SpanHas DEF PortOK, TimersOK
  <2>states. StatesOK(r)
    BY <2>1, IsField DEF PortOK, StatesOK
  <2>info. InfoOK(r, p, K)
    BY <2>1, IsField DEF PortOK, InfoOK
  <2>roles. RolesOK(r)
    BY <1>0, <1>14, <2>1, IsField
    DEF PortOK, RolesOK, RootStates, DesignatedStates
  <2>same. Same(q, r)
    BY <2>1, IsField DEF PortOK, Same
  <2> QED
    BY <2>fields, <2>timers, <2>states, <2>info, <2>roles, <2>same DEF PortOK
<1>15. CASE s = "ROOT_FORWARD"
  <2>1. r = [q EXCEPT !.roletrns = s, !.fdWhile = 0, !.forward = TRUE]
    BY <1>15, IsField DEF PortOK, roletrnsOwn, r
  <2>fields. DOMAIN r = Fields
    BY <2>1, IsField DEF PortOK
  <2>timers. TimersOK(r)
    BY <2>1, IsField, SpanHas DEF PortOK, TimersOK
  <2>states. StatesOK(r)
    BY <2>1, IsField DEF PortOK, StatesOK
  <2>info. InfoOK(r, p, K)
    BY <2>1, IsField DEF PortOK, InfoOK
  <2>roles. RolesOK(r)
    BY <1>0, <1>15, <2>1, IsField
    DEF PortOK, RolesOK, RootStates, DesignatedStates
  <2>same. Same(q, r)
    BY <2>1, IsField DEF PortOK, Same
  <2> QED
    BY <2>fields, <2>timers, <2>states, <2>info, <2>roles, <2>same DEF PortOK
<1>16. CASE s = "DESIGNATED_FORWARD"
  <2>1. r = [q EXCEPT !.roletrns = s, !.fdWhile = 0, !.forward = TRUE, !.agreed = q.sendRSTP]
    BY <1>16, IsField DEF PortOK, roletrnsOwn, r
  <2>fields. DOMAIN r = Fields
    BY <2>1, IsField DEF PortOK
  <2>timers. TimersOK(r)
    BY <2>1, IsField, SpanHas DEF PortOK, TimersOK
  <2>states. StatesOK(r)
    BY <2>1, IsField DEF PortOK, StatesOK
  <2>info. InfoOK(r, p, K)
    BY <2>1, IsField DEF PortOK, InfoOK
  <2>roles. RolesOK(r)
    BY <1>0, <1>16, <2>1, IsField
    DEF PortOK, RolesOK, RootStates, DesignatedStates
  <2>same. Same(q, r)
    BY <2>1, IsField DEF PortOK, Same
  <2> QED
    BY <2>fields, <2>timers, <2>states, <2>info, <2>roles, <2>same DEF PortOK
<1>17. CASE s = "DESIGNATED_PROPOSE"
  <2>1. r = [q EXCEPT !.roletrns = s, !.proposing = TRUE, !.newInfo = TRUE,
                      !.edgeDelayWhile = IF q.operPointToPointMac THEN MigrateTime
                                                                  ELSE ForwardDelay]
    BY <1>17, IsField DEF PortOK, roletrnsOwn, r
  <2>fields. DOMAIN r = Fields
    BY <2>1, IsField DEF PortOK
  <2>timers. TimersOK(r)
    BY <2>1, IsField, SpanHas DEF PortOK, TimersOK
  <2>states. StatesOK(r)
    BY <2>1, IsField DEF PortOK, StatesOK
  <2>info. InfoOK(r, p, K)
    BY <2>1, IsField DEF PortOK, InfoOK
  <2>roles. RolesOK(r)
    BY <1>0, <1>17, <2>1, IsField
    DEF PortOK, RolesOK, RootStates, DesignatedStates
  <2>same. Same(q, r)
    BY <2>1, IsField DEF PortOK, Same
  <2> QED
    BY <2>fields, <2>timers, <2>states, <2>info, <2>roles, <2>same DEF PortOK
<1>18. CASE s = "DESIGNATED_SYNCED"
  <2>1. r = [q EXCEPT !.roletrns = s, !.rrWhile = 0, !.synced = TRUE, !.sync = FALSE]
    BY <1>18, IsField DEF PortOK, roletrnsOwn, r
  <2>fields. DOMAIN r = Fields
    BY <2>1, IsField DEF PortOK
  <2>timers. TimersOK(r)
    BY <2>1, IsField, SpanHas DEF PortOK, TimersOK
  <2>states. StatesOK(r)
    BY <2>1, IsField DEF PortOK, StatesOK
  <2>info. InfoOK(r, p, K)
    BY <2>1, IsField DEF PortOK, InfoOK
  <2>roles. RolesOK(r)
    BY <1>0, <1>18, <2>1, IsField
    DEF PortOK, RolesOK, RootStates, DesignatedStates
  <2>same. Same(q, r)
    BY <2>1, IsField DEF PortOK, Same
  <2> QED
    BY <2>fields, <2>timers, <2>states, <2>info, <2>roles, <2>same DEF PortOK
<1>19. CASE s = "DESIGNATED_PORT"
  <2>1. r = [q EXCEPT !.roletrns = s, !.role = "Designated"]
    BY <1>19, IsField DEF PortOK, roletrnsOwn, r
  <2>fields. DOMAIN r = Fields
    BY <2>1, IsField DEF PortOK
  <2>timers. TimersOK(r)
    BY <2>1, IsField DEF PortOK, TimersOK
  <2>states. StatesOK(r)
    BY <2>1, IsField DEF PortOK, StatesOK
  <2>info. InfoOK(r, p, K)
    BY <2>1, IsField DEF PortOK, InfoOK
  <2>roles. RolesOK(r)
    BY <1>0, <1>19, <2>1, IsField
    DEF PortOK, RolesOK, RootStates, DesignatedStates
  <2>same. Same(q, r)
    BY <2>1, IsField DEF PortOK, Same
  <2> QED
    BY <2>fields, <2>timers, <2>states, <2>info, <2>roles, <2>same DEF PortOK
<1>20. CASE s = "DESIGNATED_DISCARD"
  <2>1. r = [q EXCEPT !.roletrns = s, !.learn = FALSE, !.forward = FALSE, !.disputed = FALSE,
                      !.fdWhile = ForwardDelay]
    BY <1>20, IsField DEF PortOK, roletrnsOwn, r
  <2>fields. DOMAIN r = Fields
    BY <2>1, IsField DEF PortOK
  <2>timers. TimersOK(r)
    BY <2>1, IsField, SpanHas DEF PortOK, TimersOK
  <2>states. StatesOK(r)
    BY <2>1, IsField DEF PortOK, StatesOK
  <2>info. InfoOK(r, p, K)
    BY <2>1, IsField DEF PortOK, InfoOK
  <2>roles. RolesOK(r)
    BY <1>0, <1>20, <2>1, IsField
    DEF PortOK, RolesOK, RootStates, DesignatedStates
  <2>same. Same(q, r)
    BY <2>1, IsField DEF PortOK, Same
  <2> QED
    BY <2>fields, <2>timers, <2>states, <2>info, <2>roles, <2>same DEF PortOK
<1>21. CASE s = "BACKUP_PORT"
  <2>1. r = [q EXCEPT !.roletrns = s, !.rbWhile = 2 * HelloTime]
    BY <1>21, IsField DEF PortOK, roletrnsOwn, r
  <2>fields. DOMAIN r = Fields
    BY <2>1, IsField DEF PortOK
  <2>timers. TimersOK(r)
    BY <2>1, IsField, SpanHas DEF PortOK, TimersOK
  <2>states. StatesOK(r)
    BY <2>1, IsField DEF PortOK, StatesOK
  <2>info. InfoOK(r, p, K)
    BY <2>1, IsField DEF PortOK, InfoOK
  <2>roles. RolesOK(r)
    BY <1>0, <1>21, <2>1, IsField
    DEF PortOK, RolesOK, RootStates, DesignatedStates
  <2>same. Same(q, r)
    BY <2>1, IsField DEF PortOK, Same
  <2> QED
    BY <2>fields, <2>timers, <2>states, <2>info, <2>roles, <2>same DEF PortOK
<1>22. CASE s = "REROOT"
  <2>1. r = [q EXCEPT !.roletrns = s]
    BY <1>22, IsField DEF PortOK, roletrnsOwn, r
  <2>fields. DOMAIN r = Fields
    BY <2>1, IsField DEF PortOK
  <2>timers. TimersOK(r)
    BY <2>1, IsField DEF PortOK, TimersOK
  <2>states. StatesOK(r)
    BY <2>1, IsField DEF PortOK, StatesOK
  <2>info. InfoOK(r, p, K)
    BY <2>1, IsField DEF PortOK, InfoOK
  <2>roles. RolesOK(r)
    BY <1>0, <1>22, <2>1, IsField
    DEF PortOK, RolesOK, RootStates, DesignatedStates
  <2>same. Same(q, r)
    BY <2>1, IsField DEF PortOK, Same
  <2> QED
    BY <2>fields, <2>timers, <2>states, <2>info, <2>roles, <2>same DEF PortOK
<1> QED
  BY <1>1, <1>2, <1>3, <1>4, <1>5, <1>6, <1>7, <1>8, <1>9, <1>10, <1>11, <1>12,
     <1>13, <1>14, <1>15, <1>16, <1>17, <1>18, <1>19, <1>20, <1>21, <1>22
  DEF RootStates, DesignatedStates, OtherStates

\* The port is asked to synchronise.
LEMMA SyncStep ==
  ASSUME NEW q, NEW p, NEW K, PortOK(q, p, K)
  PROVE  PortOK([q EXCEPT !.sync = TRUE], p, K) /\ Same(q, [q EXCEPT !.sync = TRUE])
<1> DEFINE r == [q EXCEPT !.sync = TRUE]
<1> SUFFICES PortOK(r, p, K) /\ Same(q, r)
  BY DEF r
<1>1. r = [q EXCEPT !.sync = TRUE]
  OBVIOUS
<1> HIDE DEF r
<1>fields. DOMAIN r = Fields
  BY <1>1, IsField DEF PortOK
<1>timers. TimersOK(r)
  BY <1>1, IsField DEF PortOK, TimersOK
<1>states. StatesOK(r)
  BY <1>1, IsField DEF PortOK, StatesOK
<1>info. InfoOK(r, p, K)
  BY <1>1, IsField DEF PortOK, InfoOK
<1>roles. RolesOK(r)
  BY <1>1, IsField DEF PortOK, RolesOK
<1>same. Same(q, r)
  BY <1>1, IsField DEF PortOK, Same
<1> QED
  BY <1>fields, <1>timers, <1>states, <1>info, <1>roles, <1>same DEF PortOK

\* The port is asked to give way to another Root port.
LEMMA ReRootStep ==
  ASSUME NEW q, NEW p, NEW K, PortOK(q, p, K)
  PROVE  PortOK([q EXCEPT !.reRoot = TRUE], p, K) /\ Same(q, [q EXCEPT !.reRoot = TRUE])
<1> DEFINE r == [q EXCEPT !.reRoot = TRUE]
<1> SUFFICES PortOK(r, p, K) /\ Same(q, r)
  BY DEF r
<1>1. r = [q EXCEPT !.reRoot = TRUE]
  OBVIOUS
<1> HIDE DEF r
<1>fields. DOMAIN r = Fields
  BY <1>1, IsField DEF PortOK
<1>timers. TimersOK(r)
  BY <1>1, IsField DEF PortOK, TimersOK
<1>states. StatesOK(r)
  BY <1>1, IsField DEF PortOK, StatesOK
<1>info. InfoOK(r, p, K)
  BY <1>1, IsField DEF PortOK, InfoOK
<1>roles. RolesOK(r)
  BY <1>1, IsField DEF PortOK, RolesOK
<1>same. Same(q, r)
  BY <1>1, IsField DEF PortOK, Same
<1> QED
  BY <1>fields, <1>timers, <1>states, <1>info, <1>roles, <1>same DEF PortOK

\* Same relates the port at the start of a chain to that at its end.
LEMMA SameTransitive ==
  ASSUME NEW q, NEW r, NEW t, Same(q, r), Same(r, t)
  PROVE  Same(q, t)
BY DEF Same

\* The topology change machine stays among its states.
LEMMA TopochHop ==
  ASSUME NEW q, NEW p, NEW K, PortOK(q, p, K), NEW s, s = topochHop(q), s # Stay
  PROVE  s \in {"INACTIVE", "LEARNING", "DETECTED", "ACTIVE", "NOTIFIED_TCN", "NOTIFIED_TC",
                "PROPAGATING", "ACKNOWLEDGED"}
<1> DEFINE Good == {"INACTIVE", "LEARNING", "DETECTED", "ACTIVE", "NOTIFIED_TCN", "NOTIFIED_TC",
                    "PROPAGATING", "ACKNOWLEDGED"}
           table == <<
             << ~active(q) \/ q.operEdge, "LEARNING" >>, << q.rcvdTcn, "NOTIFIED_TCN" >>,
             << q.rcvdTc, "NOTIFIED_TC" >>, << q.tcProp, "PROPAGATING" >>,
             << q.rcvdTcAck, "ACKNOWLEDGED" >> >>
<1>1. CASE q.topoch = "ACTIVE"
  <2>1. DOMAIN table = 1 .. 5 /\ \A i \in 1 .. 5 : table[i][2] \in Good
    OBVIOUS
  <2>2. s = First(table)
    BY <1>1 DEF topochHop
  <2> HIDE DEF table, Good
  <2>3. s \in Good
    BY <2>1, <2>2, FirstIs
  <2> QED
    BY <2>3 DEF Good
<1>2. CASE q.topoch # "ACTIVE"
  BY <1>2 DEF topochHop, When
<1> QED
  BY <1>1, <1>2

\* The state alone is of no concern to the invariant.
LEMMA TopochState ==
  ASSUME NEW q, NEW p, NEW K, PortOK(q, p, K),
         NEW s \in {"INACTIVE", "LEARNING", "DETECTED", "ACTIVE", "NOTIFIED_TCN", "NOTIFIED_TC",
                    "PROPAGATING", "ACKNOWLEDGED"}
  PROVE  /\ PortOK([q EXCEPT !.topoch = s], p, K)
         /\ Same(q, [q EXCEPT !.topoch = s])
<1> DEFINE r == [q EXCEPT !.topoch = s]
<1> SUFFICES PortOK(r, p, K) /\ Same(q, r)
  BY DEF r
<1>1. r = [q EXCEPT !.topoch = s]
  BY IsField DEF PortOK, r
<1> HIDE DEF r
<1>fields. DOMAIN r = Fields
  BY <1>1, IsField DEF PortOK
<1>timers. TimersOK(r)
  BY <1>1, IsField DEF PortOK, TimersOK
<1>states. StatesOK(r)
  BY <1>1, IsField DEF PortOK, StatesOK
<1>info. InfoOK(r, p, K)
  BY <1>1, IsField DEF PortOK, InfoOK
<1>roles. RolesOK(r)
  BY <1>1, IsField DEF PortOK, RolesOK
<1>same. Same(q, r)
  BY <1>1, IsField DEF PortOK, Same
<1> QED
  BY <1>fields, <1>timers, <1>states, <1>info, <1>roles, <1>same DEF PortOK

\* The timer of a topology change is set to one of two values.
LEMMA NewTcWhile ==
  ASSUME NEW q, NEW p, NEW K, PortOK(q, p, K)
  PROVE  /\ PortOK(newTcWhile(q), p, K)
         /\ Same(q, newTcWhile(q))
<1> DEFINE r == newTcWhile(q)
<1> SUFFICES PortOK(r, p, K) /\ Same(q, r)
  BY DEF r
<1> HIDE DEF r
<1>1. CASE q.tcWhile # 0
  BY <1>1 DEF newTcWhile, r, Same
<1>2. CASE q.tcWhile = 0 /\ q.sendRSTP
  <2>1. r = [q EXCEPT !.tcWhile = HelloTime + 1, !.newInfo = TRUE]
    BY <1>2 DEF newTcWhile, r
  <2>fields. DOMAIN r = Fields
    BY <2>1, IsField DEF PortOK
  <2>timers. TimersOK(r)
    BY <2>1, IsField, SpanHas DEF PortOK, TimersOK
  <2>states. StatesOK(r)
    BY <2>1, IsField DEF PortOK, StatesOK
  <2>info. InfoOK(r, p, K)
    BY <2>1, IsField DEF PortOK, InfoOK
  <2>roles. RolesOK(r)
    BY <2>1, IsField DEF PortOK, RolesOK
  <2>same. Same(q, r)
    BY <2>1, IsField DEF PortOK, Same
  <2> QED
    BY <2>fields, <2>timers, <2>states, <2>info, <2>roles, <2>same DEF PortOK
<1>3. CASE q.tcWhile = 0 /\ ~q.sendRSTP
  <2>1. r = [q EXCEPT !.tcWhile = MaxAge + ForwardDelay]
    BY <1>3 DEF newTcWhile, r
  <2>fields. DOMAIN r = Fields
    BY <2>1, IsField DEF PortOK
  <2>timers. TimersOK(r)
    BY <2>1, IsField, SpanHas DEF PortOK, TimersOK
  <2>states. StatesOK(r)
    BY <2>1, IsField DEF PortOK, StatesOK
  <2>info. InfoOK(r, p, K)
    BY <2>1, IsField DEF PortOK, InfoOK
  <2>roles. RolesOK(r)
    BY <2>1, IsField DEF PortOK, RolesOK
  <2>same. Same(q, r)
    BY <2>1, IsField DEF PortOK, Same
  <2> QED
    BY <2>fields, <2>timers, <2>states, <2>info, <2>roles, <2>same DEF PortOK
<1> QED
  BY <1>1, <1>2, <1>3

\* What a state of the topology change machine does to its own port.
LEMMA TopochOwn ==
  ASSUME NEW q, NEW p, NEW K, PortOK(q, p, K),
         NEW s \in {"INACTIVE", "LEARNING", "DETECTED", "ACTIVE", "NOTIFIED_TCN", "NOTIFIED_TC",
                    "PROPAGATING", "ACKNOWLEDGED"}
  PROVE  /\ PortOK(topochOwn([q EXCEPT !.topoch = s]), p, K)
         /\ Same(q, topochOwn([q EXCEPT !.topoch = s]))
<1> DEFINE r == topochOwn([q EXCEPT !.topoch = s])
<1> SUFFICES PortOK(r, p, K) /\ Same(q, r)
  BY DEF r
<1> HIDE DEF r
<1> DEFINE x == [q EXCEPT !.topoch = s]
           y == newTcWhile(x)
<1>x. PortOK(x, p, K) /\ Same(q, x) /\ x.topoch = s
  BY TopochState, IsField DEF PortOK
<1>y. PortOK(y, p, K) /\ Same(x, y)
  BY <1>x, NewTcWhile
<1>0. r = topochOwn(x)
  BY DEF r
<1> HIDE DEF x, y
<1>1. CASE s = "INACTIVE"
  <2>1. r = [x EXCEPT !.tcWhile = 0, !.tcAck = FALSE]
    BY <1>x, <1>0, <1>1 DEF topochOwn
  <2>fields. DOMAIN r = Fields
    BY <1>x, <2>1, IsField DEF PortOK
  <2>timers. TimersOK(r)
    BY <1>x, <2>1, IsField, SpanHas DEF PortOK, TimersOK
  <2>states. StatesOK(r)
    BY <1>x, <2>1, IsField DEF PortOK, StatesOK
  <2>info. InfoOK(r, p, K)
    BY <1>x, <2>1, IsField DEF PortOK, InfoOK
  <2>roles. RolesOK(r)
    BY <1>x, <2>1, IsField DEF PortOK, RolesOK
  <2>same. Same(x, r)
    BY <1>x, <2>1, IsField DEF PortOK, Same
  <2>7. Same(q, r)
    BY <1>x, <1>y, <2>same, SameTransitive
  <2> QED
    BY <2>7, <2>fields, <2>timers, <2>states, <2>info, <2>roles DEF PortOK
<1>2. CASE s = "LEARNING"
  <2>1. r = [x EXCEPT !.rcvdTc = FALSE, !.rcvdTcn = FALSE, !.rcvdTcAck = FALSE,
                      !.tcProp = FALSE]
    BY <1>x, <1>0, <1>2 DEF topochOwn
  <2>fields. DOMAIN r = Fields
    BY <1>x, <2>1, IsField DEF PortOK
  <2>timers. TimersOK(r)
    BY <1>x, <2>1, IsField DEF PortOK, TimersOK
  <2>states. StatesOK(r)
    BY <1>x, <2>1, IsField DEF PortOK, StatesOK
  <2>info. InfoOK(r, p, K)
    BY <1>x, <2>1, IsField DEF PortOK, InfoOK
  <2>roles. RolesOK(r)
    BY <1>x, <2>1, IsField DEF PortOK, RolesOK
  <2>same. Same(x, r)
    BY <1>x, <2>1, IsField DEF PortOK, Same
  <2>7. Same(q, r)
    BY <1>x, <1>y, <2>same, SameTransitive
  <2> QED
    BY <2>7, <2>fields, <2>timers, <2>states, <2>info, <2>roles DEF PortOK
<1>3. CASE s = "DETECTED"
  <2>1. r = [y EXCEPT !.newInfo = TRUE]
    BY <1>x, <1>0, <1>3 DEF topochOwn, y
  <2>fields. DOMAIN r = Fields
    BY <1>y, <2>1, IsField DEF PortOK
  <2>timers. TimersOK(r)
    BY <1>y, <2>1, IsField DEF PortOK, TimersOK
  <2>states. StatesOK(r)
    BY <1>y, <2>1, IsField DEF PortOK, StatesOK
  <2>info. InfoOK(r, p, K)
    BY <1>y, <2>1, IsField DEF PortOK, InfoOK
  <2>roles. RolesOK(r)
    BY <1>y, <2>1, IsField DEF PortOK, RolesOK
  <2>same. Same(y, r)
    BY <1>y, <2>1, IsField DEF PortOK, Same
  <2>7. Same(q, r)
    BY <1>x, <1>y, <2>same, SameTransitive
  <2> QED
    BY <2>7, <2>fields, <2>timers, <2>states, <2>info, <2>roles DEF PortOK
<1>4. CASE s = "NOTIFIED_TC"
  <2>1. r = [x EXCEPT !.rcvdTcn = FALSE, !.rcvdTc = FALSE,
                      !.tcAck = @ \/ x.role = "Designated"]
    BY <1>x, <1>0, <1>4 DEF topochOwn
  <2>fields. DOMAIN r = Fields
    BY <1>x, <2>1, IsField DEF PortOK
  <2>timers. TimersOK(r)
    BY <1>x, <2>1, IsField DEF PortOK, TimersOK
  <2>states. StatesOK(r)
    BY <1>x, <2>1, IsField DEF PortOK, StatesOK
  <2>info. InfoOK(r, p, K)
    BY <1>x, <2>1, IsField DEF PortOK, InfoOK
  <2>roles. RolesOK(r)
    BY <1>x, <2>1, IsField DEF PortOK, RolesOK
  <2>same. Same(x, r)
    BY <1>x, <2>1, IsField DEF PortOK, Same
  <2>7. Same(q, r)
    BY <1>x, <1>y, <2>same, SameTransitive
  <2> QED
    BY <2>7, <2>fields, <2>timers, <2>states, <2>info, <2>roles DEF PortOK
<1>5. CASE s = "NOTIFIED_TCN"
  <2>1. r = y
    BY <1>x, <1>0, <1>5 DEF topochOwn, y
  <2> QED
    BY <1>x, <1>y, <2>1, SameTransitive
<1>6. CASE s = "PROPAGATING"
  <2>1. r = [y EXCEPT !.tcProp = FALSE]
    BY <1>x, <1>0, <1>6 DEF topochOwn, y
  <2>fields. DOMAIN r = Fields
    BY <1>y, <2>1, IsField DEF PortOK
  <2>timers. TimersOK(r)
    BY <1>y, <2>1, IsField DEF PortOK, TimersOK
  <2>states. StatesOK(r)
    BY <1>y, <2>1, IsField DEF PortOK, StatesOK
  <2>info. InfoOK(r, p, K)
    BY <1>y, <2>1, IsField DEF PortOK, InfoOK
  <2>roles. RolesOK(r)
    BY <1>y, <2>1, IsField DEF PortOK, RolesOK
  <2>same. Same(y, r)
    BY <1>y, <2>1, IsField DEF PortOK, Same
  <2>7. Same(q, r)
    BY <1>x, <1>y, <2>same, SameTransitive
  <2> QED
    BY <2>7, <2>fields, <2>timers, <2>states, <2>info, <2>roles DEF PortOK
<1>7. CASE s = "ACKNOWLEDGED"
  <2>1. r = [x EXCEPT !.tcWhile = 0, !.rcvdTcAck = FALSE]
    BY <1>x, <1>0, <1>7 DEF topochOwn
  <2>fields. DOMAIN r = Fields
    BY <1>x, <2>1, IsField DEF PortOK
  <2>timers. TimersOK(r)
    BY <1>x, <2>1, IsField, SpanHas DEF PortOK, TimersOK
  <2>states. StatesOK(r)
    BY <1>x, <2>1, IsField DEF PortOK, StatesOK
  <2>info. InfoOK(r, p, K)
    BY <1>x, <2>1, IsField DEF PortOK, InfoOK
  <2>roles. RolesOK(r)
    BY <1>x, <2>1, IsField DEF PortOK, RolesOK
  <2>same. Same(x, r)
    BY <1>x, <2>1, IsField DEF PortOK, Same
  <2>7. Same(q, r)
    BY <1>x, <1>y, <2>same, SameTransitive
  <2> QED
    BY <2>7, <2>fields, <2>timers, <2>states, <2>info, <2>roles DEF PortOK
<1>8. CASE s = "ACTIVE"
  <2>1. r = x
    BY <1>x, <1>0, <1>8 DEF topochOwn
  <2> QED
    BY <1>x, <1>y, <2>1, SameTransitive
<1> QED
  BY <1>1, <1>2, <1>3, <1>4, <1>5, <1>6, <1>7, <1>8

\* A topology change is announced to the other ports.
LEMMA TcPropStep ==
  ASSUME NEW q, NEW p, NEW K, PortOK(q, p, K), NEW v
  PROVE  /\ PortOK([q EXCEPT !.tcProp = v], p, K)
         /\ Same(q, [q EXCEPT !.tcProp = v])
<1> DEFINE r == [q EXCEPT !.tcProp = v]
<1> SUFFICES PortOK(r, p, K) /\ Same(q, r)
  BY DEF r
<1>1. r = [q EXCEPT !.tcProp = v]
  BY IsField DEF PortOK, r
<1> HIDE DEF r
<1>fields. DOMAIN r = Fields
  BY <1>1, IsField DEF PortOK
<1>timers. TimersOK(r)
  BY <1>1, IsField DEF PortOK, TimersOK
<1>states. StatesOK(r)
  BY <1>1, IsField DEF PortOK, StatesOK
<1>info. InfoOK(r, p, K)
  BY <1>1, IsField DEF PortOK, InfoOK
<1>roles. RolesOK(r)
  BY <1>1, IsField DEF PortOK, RolesOK
<1>same. Same(q, r)
  BY <1>1, IsField DEF PortOK, Same
<1> QED
  BY <1>fields, <1>timers, <1>states, <1>info, <1>roles, <1>same DEF PortOK

\* The count of messages starts from 0.
LEMMA TxCountHas == 0 \in 0 .. TxHoldCount
BY DEF TxHoldCount

\* The transmit machine: its start,
LEMMA TransmitInit ==
  ASSUME NEW q, NEW p, NEW K, PortOK(q, p, K), NEW s
  PROVE  /\ PortOK([q EXCEPT !.transmit = s, !.newInfo = TRUE, !.txCount = 0], p, K)
         /\ Same(q, [q EXCEPT !.transmit = s, !.newInfo = TRUE, !.txCount = 0])
<1> DEFINE r == [q EXCEPT !.transmit = s, !.newInfo = TRUE, !.txCount = 0]
<1> SUFFICES PortOK(r, p, K) /\ Same(q, r)
  BY DEF r
<1>1. r = [q EXCEPT !.transmit = s, !.newInfo = TRUE, !.txCount = 0]
  BY IsField DEF PortOK, r
<1> HIDE DEF r
<1>fields. DOMAIN r = Fields
  BY <1>1, IsField DEF PortOK
<1>timers. TimersOK(r)
  BY <1>1, IsField, TxCountHas DEF PortOK, TimersOK
<1>states. StatesOK(r)
  BY <1>1, IsField DEF PortOK, StatesOK
<1>info. InfoOK(r, p, K)
  BY <1>1, IsField DEF PortOK, InfoOK
<1>roles. RolesOK(r)
  BY <1>1, IsField DEF PortOK, RolesOK
<1>same. Same(q, r)
  BY <1>1, IsField DEF PortOK, Same
<1> QED
  BY <1>fields, <1>timers, <1>states, <1>info, <1>roles, <1>same DEF PortOK

\* its rest,
LEMMA TransmitIdle ==
  ASSUME NEW q, NEW p, NEW K, PortOK(q, p, K), NEW s
  PROVE  /\ PortOK([q EXCEPT !.transmit = s, !.helloWhen = HelloTime], p, K)
         /\ Same(q, [q EXCEPT !.transmit = s, !.helloWhen = HelloTime])
<1> DEFINE r == [q EXCEPT !.transmit = s, !.helloWhen = HelloTime]
<1> SUFFICES PortOK(r, p, K) /\ Same(q, r)
  BY DEF r
<1>1. r = [q EXCEPT !.transmit = s, !.helloWhen = HelloTime]
  BY IsField DEF PortOK, r
<1> HIDE DEF r
<1>fields. DOMAIN r = Fields
  BY <1>1, IsField DEF PortOK
<1>timers. TimersOK(r)
  BY <1>1, IsField, SpanHas DEF PortOK, TimersOK
<1>states. StatesOK(r)
  BY <1>1, IsField DEF PortOK, StatesOK
<1>info. InfoOK(r, p, K)
  BY <1>1, IsField DEF PortOK, InfoOK
<1>roles. RolesOK(r)
  BY <1>1, IsField DEF PortOK, RolesOK
<1>same. Same(q, r)
  BY <1>1, IsField DEF PortOK, Same
<1> QED
  BY <1>fields, <1>timers, <1>states, <1>info, <1>roles, <1>same DEF PortOK

\* the hello message that is due,
LEMMA TransmitPeriodic ==
  ASSUME NEW q, NEW p, NEW K, PortOK(q, p, K), NEW s, NEW v
  PROVE  /\ PortOK([q EXCEPT !.transmit = s, !.newInfo = v], p, K)
         /\ Same(q, [q EXCEPT !.transmit = s, !.newInfo = v])
<1> DEFINE r == [q EXCEPT !.transmit = s, !.newInfo = v]
<1> SUFFICES PortOK(r, p, K) /\ Same(q, r)
  BY DEF r
<1>1. r = [q EXCEPT !.transmit = s, !.newInfo = v]
  BY IsField DEF PortOK, r
<1> HIDE DEF r
<1>fields. DOMAIN r = Fields
  BY <1>1, IsField DEF PortOK
<1>timers. TimersOK(r)
  BY <1>1, IsField DEF PortOK, TimersOK
<1>states. StatesOK(r)
  BY <1>1, IsField DEF PortOK, StatesOK
<1>info. InfoOK(r, p, K)
  BY <1>1, IsField DEF PortOK, InfoOK
<1>roles. RolesOK(r)
  BY <1>1, IsField DEF PortOK, RolesOK
<1>same. Same(q, r)
  BY <1>1, IsField DEF PortOK, Same
<1> QED
  BY <1>fields, <1>timers, <1>states, <1>info, <1>roles, <1>same DEF PortOK

\* and a message that leaves, which is counted below the limit.
LEMMA TransmitSent ==
  ASSUME NEW q, NEW p, NEW K, PortOK(q, p, K), NEW s, NEW v,
         NEW n \in 0 .. TxHoldCount
  PROVE  /\ PortOK([q EXCEPT !.transmit = s, !.newInfo = FALSE, !.txCount = n, !.tcAck = v], p, K)
         /\ Same(q, [q EXCEPT !.transmit = s, !.newInfo = FALSE, !.txCount = n, !.tcAck = v])
<1> DEFINE r == [q EXCEPT !.transmit = s, !.newInfo = FALSE, !.txCount = n, !.tcAck = v]
<1> SUFFICES PortOK(r, p, K) /\ Same(q, r)
  BY DEF r
<1>1. r = [q EXCEPT !.transmit = s, !.newInfo = FALSE, !.txCount = n, !.tcAck = v]
  BY IsField DEF PortOK, r
<1> HIDE DEF r
<1>fields. DOMAIN r = Fields
  BY <1>1, IsField DEF PortOK
<1>timers. TimersOK(r)
  BY <1>1, IsField DEF PortOK, TimersOK
<1>states. StatesOK(r)
  BY <1>1, IsField DEF PortOK, StatesOK
<1>info. InfoOK(r, p, K)
  BY <1>1, IsField DEF PortOK, InfoOK
<1>roles. RolesOK(r)
  BY <1>1, IsField DEF PortOK, RolesOK
<1>same. Same(q, r)
  BY <1>1, IsField DEF PortOK, Same
<1> QED
  BY <1>fields, <1>timers, <1>states, <1>info, <1>roles, <1>same DEF PortOK

-----------------------------------------------------------------------------
(* What the callers of the library do to a port.                                           *)

\* A second passes for the timers of a port.
LEMMA AgedStep ==
  ASSUME NEW q, NEW p, NEW K, PortOK(q, p, K)
  PROVE  /\ PortOK(aged(q), p, K)
         /\ Same(q, aged(q))
<1> DEFINE r == aged(q)
<1> SUFFICES PortOK(r, p, K) /\ Same(q, r)
  BY DEF r
<1> HIDE DEF r
<1>1. r = [q EXCEPT !.fdWhile = down(@), !.helloWhen = down(@), !.mdelayWhile = down(@),
                    !.rbWhile = down(@), !.rcvdInfoWhile = down(@), !.rrWhile = down(@),
                    !.tcWhile = down(@), !.txCount = down(@)]
  BY DEF aged, r
<1>2. /\ down(q.fdWhile) \in Span /\ down(q.helloWhen) \in Span /\ down(q.mdelayWhile) \in Span
      /\ down(q.rbWhile) \in Span /\ down(q.rcvdInfoWhile) \in Span
      /\ down(q.rrWhile) \in Span /\ down(q.tcWhile) \in Span
      /\ down(q.txCount) \in 0 .. TxHoldCount
  BY DownInSpan DEF PortOK, TimersOK
<1>fields. DOMAIN r = Fields
  BY <1>1, IsField DEF PortOK
<1>timers. TimersOK(r)
  BY <1>1, IsField, <1>2 DEF PortOK, TimersOK
<1>states. StatesOK(r)
  BY <1>1, IsField DEF PortOK, StatesOK
<1>info. InfoOK(r, p, K)
  BY <1>1, IsField DEF PortOK, InfoOK
<1>roles. RolesOK(r)
  BY <1>1, IsField DEF PortOK, RolesOK
<1>same. Same(q, r)
  BY <1>1, IsField DEF PortOK, Same
<1> QED
  BY <1>fields, <1>timers, <1>states, <1>info, <1>roles, <1>same DEF PortOK

\* A notice about a port asks for another selection; so do those below.
LEMMA ReselectedStep ==
  ASSUME NEW q, NEW p, NEW K, PortOK(q, p, K)
  PROVE  /\ PortOK(reselected(q), p, K)
         /\ reselected(q).reselect
<1> DEFINE r == reselected(q)
<1> SUFFICES PortOK(r, p, K) /\ r.reselect
  BY DEF r
<1>1. r = [q EXCEPT !.reselect = TRUE, !.selected = FALSE]
  BY IsField DEF PortOK, r, reselected
<1> HIDE DEF r
<1>fields. DOMAIN r = Fields
  BY <1>1, IsField DEF PortOK
<1>timers. TimersOK(r)
  BY <1>1, IsField DEF PortOK, TimersOK
<1>states. StatesOK(r)
  BY <1>1, IsField DEF PortOK, StatesOK
<1>info. InfoOK(r, p, K)
  BY <1>1, IsField DEF PortOK, InfoOK
<1>roles. RolesOK(r)
  BY <1>1, IsField DEF PortOK, RolesOK
<1>same. r.reselect
  BY <1>1, IsField DEF PortOK
<1> QED
  BY <1>fields, <1>timers, <1>states, <1>info, <1>roles, <1>same DEF PortOK

\* Another speed.
LEMMA SpeedStep ==
  ASSUME NEW q, NEW p, NEW K, PortOK(q, p, K), NEW v
  PROVE  /\ PortOK([reselected(q) EXCEPT !.operSpeed = v], p, K)
         /\ [reselected(q) EXCEPT !.operSpeed = v].reselect
<1> DEFINE r == [reselected(q) EXCEPT !.operSpeed = v]
<1> SUFFICES PortOK(r, p, K) /\ r.reselect
  BY DEF r
<1>1. r = [q EXCEPT !.reselect = TRUE, !.selected = FALSE, !.operSpeed = v]
  BY IsField DEF PortOK, r, reselected
<1> HIDE DEF r
<1>fields. DOMAIN r = Fields
  BY <1>1, IsField DEF PortOK
<1>timers. TimersOK(r)
  BY <1>1, IsField DEF PortOK, TimersOK
<1>states. StatesOK(r)
  BY <1>1, IsField DEF PortOK, StatesOK
<1>info. InfoOK(r, p, K)
  BY <1>1, IsField DEF PortOK, InfoOK
<1>roles. RolesOK(r)
  BY <1>1, IsField DEF PortOK, RolesOK
<1>same. r.reselect
  BY <1>1, IsField DEF PortOK
<1> QED
  BY <1>fields, <1>timers, <1>states, <1>info, <1>roles, <1>same DEF PortOK

\* The migration check.
LEMMA McheckStep ==
  ASSUME NEW q, NEW p, NEW K, PortOK(q, p, K)
  PROVE  /\ PortOK([reselected(q) EXCEPT !.mcheck = TRUE], p, K)
         /\ [reselected(q) EXCEPT !.mcheck = TRUE].reselect
<1> DEFINE r == [reselected(q) EXCEPT !.mcheck = TRUE]
<1> SUFFICES PortOK(r, p, K) /\ r.reselect
  BY DEF r
<1>1. r = [q EXCEPT !.reselect = TRUE, !.selected = FALSE, !.mcheck = TRUE]
  BY IsField DEF PortOK, r, reselected
<1> HIDE DEF r
<1>fields. DOMAIN r = Fields
  BY <1>1, IsField DEF PortOK
<1>timers. TimersOK(r)
  BY <1>1, IsField DEF PortOK, TimersOK
<1>states. StatesOK(r)
  BY <1>1, IsField DEF PortOK, StatesOK
<1>info. InfoOK(r, p, K)
  BY <1>1, IsField DEF PortOK, InfoOK
<1>roles. RolesOK(r)
  BY <1>1, IsField DEF PortOK, RolesOK
<1>same. r.reselect
  BY <1>1, IsField DEF PortOK
<1> QED
  BY <1>fields, <1>timers, <1>states, <1>info, <1>roles, <1>same DEF PortOK

\* An edge port, or no longer one.
LEMMA EdgeStep ==
  ASSUME NEW q, NEW p, NEW K, PortOK(q, p, K), NEW v
  PROVE  /\ PortOK([reselected(q) EXCEPT !.adminEdge = v, !.operEdge = v], p, K)
         /\ [reselected(q) EXCEPT !.adminEdge = v, !.operEdge = v].reselect
<1> DEFINE r == [reselected(q) EXCEPT !.adminEdge = v, !.operEdge = v]
<1> SUFFICES PortOK(r, p, K) /\ r.reselect
  BY DEF r
<1>1. r = [q EXCEPT !.reselect = TRUE, !.selected = FALSE, !.adminEdge = v, !.operEdge = v]
  BY IsField DEF PortOK, r, reselected
<1> HIDE DEF r
<1>fields. DOMAIN r = Fields
  BY <1>1, IsField DEF PortOK
<1>timers. TimersOK(r)
  BY <1>1, IsField DEF PortOK, TimersOK
<1>states. StatesOK(r)
  BY <1>1, IsField DEF PortOK, StatesOK
<1>info. InfoOK(r, p, K)
  BY <1>1, IsField DEF PortOK, InfoOK
<1>roles. RolesOK(r)
  BY <1>1, IsField DEF PortOK, RolesOK
<1>same. r.reselect
  BY <1>1, IsField DEF PortOK
<1> QED
  BY <1>fields, <1>timers, <1>states, <1>info, <1>roles, <1>same DEF PortOK

enabledPort(q, on) ==
  [reselected(q) EXCEPT
             !.enabled = on, !.fdWhile = 0, !.helloWhen = 0, !.mdelayWhile = 0, !.rbWhile = 0,
             !.rcvdInfoWhile = 0, !.rrWhile = 0, !.tcWhile = 0, !.txCount = 0,
             !.selectedRole = "Disabled", !.sendRSTP = TRUE, !.p2p_recompute = TRUE]

\* A port is enabled or disabled: its timers and its role are cleared.
LEMMA EnableStep ==
  ASSUME NEW q, NEW p, NEW K, PortOK(q, p, K), NEW on
  PROVE  /\ PortOK(enabledPort(q, on), p, K)
         /\ enabledPort(q, on).reselect
<1> DEFINE r == enabledPort(q, on)
<1> SUFFICES PortOK(r, p, K) /\ r.reselect
  BY DEF r
<1>1. r = [q EXCEPT !.reselect = TRUE, !.selected = FALSE,
             !.enabled = on, !.fdWhile = 0, !.helloWhen = 0, !.mdelayWhile = 0, !.rbWhile = 0,
             !.rcvdInfoWhile = 0, !.rrWhile = 0, !.tcWhile = 0, !.txCount = 0,
             !.selectedRole = "Disabled", !.sendRSTP = TRUE, !.p2p_recompute = TRUE]
  BY IsField DEF PortOK, r, reselected, enabledPort
<1> HIDE DEF r
<1>fields. DOMAIN r = Fields
  BY <1>1, IsField DEF PortOK
<1>timers. TimersOK(r)
  BY <1>1, IsField, SpanHas, TxCountHas DEF PortOK, TimersOK
<1>states. StatesOK(r)
  BY <1>1, IsField DEF PortOK, StatesOK
<1>info. InfoOK(r, p, K)
  BY <1>1, IsField DEF PortOK, InfoOK
<1>roles. RolesOK(r)
  BY <1>1, IsField DEF PortOK, RolesOK, AllRoles
<1>same. r.reselect
  BY <1>1, IsField DEF PortOK
<1> QED
  BY <1>fields, <1>timers, <1>states, <1>info, <1>roles, <1>same DEF PortOK

\* A message arrives at a port.
LEMMA ReceiveStep ==
  ASSUME NEW q, NEW p, NEW K, PortOK(q, p, K), NEW m,
         m.type \in {"config", "rstp"} => HeardAt(m.prio, p, K) /\ m.age \in Nat
  PROVE  /\ PortOK([q EXCEPT !.operEdge = FALSE, !.rcvdBpdu = TRUE, !.msg = m], p, K)
         /\ Same(q, [q EXCEPT !.operEdge = FALSE, !.rcvdBpdu = TRUE, !.msg = m])
<1> DEFINE r == [q EXCEPT !.operEdge = FALSE, !.rcvdBpdu = TRUE, !.msg = m]
<1> SUFFICES PortOK(r, p, K) /\ Same(q, r)
  BY DEF r
<1>1. r = [q EXCEPT !.operEdge = FALSE, !.rcvdBpdu = TRUE, !.msg = m]
  BY IsField DEF PortOK, r
<1> HIDE DEF r
<1>fields. DOMAIN r = Fields
  BY <1>1, IsField DEF PortOK
<1>timers. TimersOK(r)
  BY <1>1, IsField DEF PortOK, TimersOK
<1>states. StatesOK(r)
  BY <1>1, IsField DEF PortOK, StatesOK
<1>info. InfoOK(r, p, K)
  BY <1>1, IsField DEF PortOK, InfoOK
<1>roles. RolesOK(r)
  BY <1>1, IsField DEF PortOK, RolesOK
<1>same. Same(q, r)
  BY <1>1, IsField DEF PortOK, Same
<1> QED
  BY <1>fields, <1>timers, <1>states, <1>info, <1>roles, <1>same DEF PortOK

\* The path cost of a port is added to what it has heard.
LEMMA VectorExcept ==
  ASSUME NEW K, NEW v \in Priorities(K), NEW n \in Nat
  PROVE  /\ [v EXCEPT ![2] = @ + n] \in Priorities(K)
         /\ [v EXCEPT ![2] = @ + n][5] = v[5]
         /\ [v EXCEPT ![2] = @ + n][1] = v[1]
<1>1. [v EXCEPT ![2] = @ + n] = <<v[1], v[2] + n, v[3], v[4], v[5]>>
  BY DEF Priorities
<1> QED
  BY <1>1 DEF Priorities

-----------------------------------------------------------------------------
(* The invariant of a bridge whose machines may still move.                                *)
BridgeFields == {"id", "rolesel", "rootPrio", "rootAge", "port", "out"}

\* What a BPDU over the identifiers K can be.
Flags == {"tc", "tcAck", "learn", "agree", "proposal"}
Headers(K) == K \X Nat \X K \X Ports
Messages(K) ==
  [type : {"tcn"}]
  \cup [type : {"config"}, prio : Headers(K), age : Nat, flags : SUBSET Flags]
  \cup [type : {"rstp"}, prio : Headers(K), age : Nat, role : AllRoles, flags : SUBSET Flags]

BridgeOK(b, K) ==
  /\ DOMAIN b = BridgeFields
  /\ b.id \in K /\ b.rootPrio \in Priorities(K) /\ b.rootAge \in Nat
  /\ DOMAIN b.port = Ports /\ \A p \in Ports : PortOK(b.port[p], p, K)
  /\ b.out \in Seq(Ports \X Messages(K))

\* The last role selection still stands.
Standing(b) ==
  b.rolesel # "BEGIN" /\ \A p \in Ports : ~b.port[p].reselect /\ b.port[p].pcost # "AUTO"

Offers(b) == {own(b)} \cup {path(b, p) : p \in heard(b)}
Chosen(b) == b.rootPrio \in Offers(b) /\ \A v \in Offers(b) : NoWorse(b.rootPrio, v)

\* The role selected for port p, which waits for its information to be updated.
Assigned(b, p) ==
  LET q == b.port[p]
  IN /\ q.infoIs = "Disabled" => q.selectedRole = "Disabled"
     /\ q.infoIs = "Aged" => q.selectedRole = "Designated" /\ q.updtInfo
     /\ q.infoIs = "Mine" => q.selectedRole = "Designated"
     /\ q.infoIs = "Received" /\ p = b.rootPrio[5] => q.selectedRole = "Root" /\ ~q.updtInfo
     /\ q.infoIs = "Received" /\ p # b.rootPrio[5] =>
          IF q.updtInfo THEN q.selectedRole = "Designated"
          ELSE /\ q.selectedRole \in {"Alternate", "Backup"}
               /\ Better(q.portPrio, designPrio(b, p))

Election(b) == Standing(b) => Chosen(b) /\ \A p \in Ports : Assigned(b, p)

BInv(b, K) == BridgeOK(b, K) /\ Election(b)

\* A move that leaves alone what the election depends on.
LEMMA SameElection ==
  ASSUME NEW b, NEW c, NEW K, BInv(b, K), BridgeOK(c, K), c.id = b.id,
         c.rolesel = b.rolesel, c.rootPrio = b.rootPrio,
         \A p \in Ports : Same(b.port[p], c.port[p])
  PROVE  BInv(c, K)
<1>1. heard(c) = heard(b)
  BY DEF heard, Same
<1>2. \A p \in Ports : path(c, p) = path(b, p)
  BY DEF path, Same
<1>3. own(c) = own(b) /\ \A p \in Ports : designPrio(c, p) = designPrio(b, p)
  BY DEF own, designPrio
<1>4. Offers(c) = Offers(b)
  <2>1. heard(b) \subseteq Ports
    BY DEF heard
  <2> QED
    BY <1>1, <1>2, <1>3, <2>1 DEF Offers
<1>5. Standing(c) = Standing(b)
  BY DEF Standing, Same
<1>6. Chosen(b) => Chosen(c)
  BY <1>4 DEF Chosen
<1>7. \A p \in Ports : Assigned(b, p) => Assigned(c, p)
  BY <1>3 DEF Assigned, Same
<1> QED
  BY <1>5, <1>6, <1>7 DEF BInv, Election

\* A move that calls for another selection.
LEMMA NoElection ==
  ASSUME NEW c, NEW K, BridgeOK(c, K), NEW p \in Ports,
         c.port[p].reselect \/ c.port[p].pcost = "AUTO"
  PROVE  BInv(c, K)
BY DEF BInv, Election, Standing

\* The root is not given up with the port whose information becomes the bridge's own.
LEMMA MinedElection ==
  ASSUME NEW b, NEW c, NEW K, BInv(b, K), BridgeOK(c, K), c.id = b.id,
         c.rolesel = b.rolesel, c.rootPrio = b.rootPrio, NEW p \in Ports,
         Mined(b.port[p], c.port[p]),
         \A o \in Ports \ {p} : c.port[o] = b.port[o]
  PROVE  BInv(c, K)
<1> SUFFICES ASSUME Standing(c) PROVE Chosen(c) /\ \A o \in Ports : Assigned(c, o)
  BY DEF BInv, Election
<1>1. Standing(b)
  <2>1. \A o \in Ports : ~b.port[o].reselect /\ b.port[o].pcost # "AUTO"
    BY DEF Standing, Mined
  <2> QED
    BY <2>1 DEF Standing
<1>2. Chosen(b) /\ \A o \in Ports : Assigned(b, o)
  BY <1>1 DEF BInv, Election
<1>3. heard(c) \subseteq heard(b) /\ heard(b) \subseteq Ports /\ heard(b) \ {p} \subseteq heard(c)
  BY DEF heard, Mined
<1>4. p \notin heard(c)
  BY DEF heard, Mined
<1>5. own(c) = own(b) /\ \A o \in heard(c) : path(c, o) = path(b, o)
  BY <1>3, <1>4 DEF own, path, heard
<1>6. Offers(c) \subseteq Offers(b)
  BY <1>3, <1>5 DEF Offers
<1>7. p \in heard(b) => p # b.rootPrio[5]
  BY <1>2 DEF Assigned, heard, Mined
<1>8. b.rootPrio \in Offers(c)
  <2>1. CASE b.rootPrio = own(b)
    BY <1>5, <2>1 DEF Offers
  <2>2. CASE b.rootPrio # own(b)
    <3>1. PICK o \in heard(b) : b.rootPrio = path(b, o)
      BY <1>2, <2>2 DEF Chosen, Offers
    <3>2. b.port[o].portPrio \in Priorities(K) /\ b.port[o].portPrio[5] = o
          /\ b.port[o].operPCost \in Nat
      BY <1>3, <3>1 DEF BInv, BridgeOK, PortOK, InfoOK, HeardAt, heard
    <3>3. b.rootPrio[5] = o
      BY <3>1, <3>2, VectorExcept DEF path
    <3>4. o # p
      BY <1>7, <3>1, <3>3
    <3>5. o \in heard(c) /\ b.rootPrio = path(c, o)
      BY <1>3, <1>5, <3>1, <3>4
    <3> QED
      BY <3>5 DEF Offers
  <2> QED
    BY <2>1, <2>2
<1>9. Chosen(c)
  BY <1>2, <1>6, <1>8 DEF Chosen
<1>10. Assigned(c, p)
  <2>1. b.port[p].selectedRole = "Designated"
    <3>1. b.port[p].infoIs \in {"Disabled", "Aged", "Mine", "Received"}
      BY DEF BInv, BridgeOK, PortOK, InfoOK
    <3> QED
      BY <1>2, <1>7, <3>1 DEF Assigned, Mined
  <2> QED
    BY <2>1 DEF Assigned, Mined
<1>11. \A o \in Ports \ {p} : Assigned(c, o)
  BY <1>2 DEF Assigned, designPrio
<1> QED
  BY <1>9, <1>10, <1>11

-----------------------------------------------------------------------------
(* Role selection chooses the best offer, and assigns the roles that follow from it.       *)

\* The port that role selection makes of q, for the root priority prio of age age.
Select(b, p, prio, age) ==
  LET q == b.port[p]
      d == <<prio[1], prio[2], b.id, p, p>>
      r == [q EXCEPT !.reselect = FALSE, !.selected = TRUE]
  IN CASE q.infoIs = "Disabled" -> [r EXCEPT !.selectedRole = "Disabled"]
       [] q.infoIs = "Aged" -> [r EXCEPT !.selectedRole = "Designated", !.updtInfo = TRUE]
       [] q.infoIs = "Mine" ->
            [r EXCEPT !.selectedRole = "Designated",
                      !.updtInfo = @ \/ q.portPrio # d \/ q.portAge # age]
       [] q.infoIs = "Received" /\ p # prio[5] /\ NoWorse(d, q.portPrio) ->
            [r EXCEPT !.selectedRole = "Designated", !.updtInfo = TRUE]
       [] OTHER ->
            [r EXCEPT !.selectedRole = IF p = prio[5] THEN "Root"
                                       ELSE IF q.portPrio[3] = b.id THEN "Backup"
                                       ELSE "Alternate",
                      !.updtInfo = FALSE]

\* The root port, 0 if the bridge is the root, and what follows from it.
Best(b) == {p \in heard(b) : /\ Better(path(b, p), own(b))
                             /\ \A o \in heard(b) : NoWorse(path(b, p), path(b, o))}
RootPort(b) == IF Best(b) = {} THEN 0 ELSE Largest(Best(b))
RootPrio(b) == IF RootPort(b) = 0 THEN own(b) ELSE path(b, RootPort(b))
RootAge(b) == IF RootPort(b) = 0 THEN 0 ELSE b.port[RootPort(b)].portAge + AgeStep

\* Role selection, in these terms.
LEMMA RoleselIs ==
  ASSUME NEW b
  PROVE  rolesel(b) =
           [b EXCEPT !.rolesel = "ROLE_SELECTION", !.rootPrio = RootPrio(b),
                     !.rootAge = RootAge(b),
                     !.port = [p \in Ports |-> Select(b, p, RootPrio(b), RootAge(b))]]
BY EvaluatedIs DEF rolesel, Select, Best, RootPort, RootPrio, RootAge

\* Priority vectors are vectors of numbers.
LEMMA VectorsOf ==
  ASSUME NEW K, K \subseteq Nat
  PROVE  Priorities(K) \subseteq Vectors
BY DEF Priorities, Vectors

\* What the bridge may choose from is well formed and says which port it came from.
LEMMA OffersOK ==
  ASSUME NEW b, NEW K, BridgeOK(b, K), K \subseteq Nat
  PROVE  /\ own(b) \in Priorities(K)
         /\ \A p \in heard(b) : /\ p \in Ports /\ path(b, p) \in Priorities(K)
                                /\ path(b, p)[5] = p
         /\ Offers(b) \subseteq Vectors
<1>1. own(b) \in Priorities(K)
  BY DEF own, BridgeOK, Priorities
<1>2. ASSUME NEW p \in heard(b)
      PROVE  p \in Ports /\ path(b, p) \in Priorities(K) /\ path(b, p)[5] = p
  <2>1. /\ p \in Ports /\ b.port[p].portPrio \in Priorities(K) /\ b.port[p].portPrio[5] = p
        /\ b.port[p].operPCost \in Nat
    BY DEF heard, BridgeOK, PortOK, InfoOK, HeardAt
  <2> QED
    BY <2>1, VectorExcept DEF path
<1> QED
  BY <1>1, <1>2, VectorsOf DEF Offers

\* Role selection chooses the best of all offers: no port has heard, with its path cost added,
\* of a root that is better than the one chosen (rolesel.c).
THEOREM ChoiceIsBest ==
  ASSUME NEW b, NEW K, BridgeOK(b, K), K \subseteq Nat
  PROVE  /\ RootPrio(b) \in Offers(b) /\ \A v \in Offers(b) : NoWorse(RootPrio(b), v)
         /\ RootPrio(b) \in Priorities(K) /\ RootAge(b) \in Nat
<1>1. /\ own(b) \in Priorities(K) /\ own(b) \in Vectors
      /\ \A p \in heard(b) : /\ p \in Ports /\ path(b, p) \in Priorities(K)
                             /\ path(b, p) \in Vectors
  BY OffersOK, VectorsOf
<1>2. CASE Best(b) = {}
  <2>1. RootPrio(b) = own(b) /\ RootAge(b) = 0
    BY <1>2 DEF RootPrio, RootAge, RootPort
  <2>2. \A p \in heard(b) : NoWorse(own(b), path(b, p))
    <3>1. CASE heard(b) = {}
      BY <3>1
    <3>2. CASE heard(b) # {}
      <4> DEFINE f == [p \in Ports |-> IF p \in heard(b) THEN path(b, p) ELSE own(b)]
      <4>1. heard(b) \subseteq Ports /\ \A p \in Ports : f[p] \in Vectors
        BY <1>1
      <4>2. PICK p \in heard(b) : \A o \in heard(b) : NoWorse(f[p], f[o])
        <5> HIDE DEF f
        <5> QED
          BY <3>2, <4>1, BestExists
      <4>3. p \in Ports /\ \A o \in heard(b) : NoWorse(path(b, p), path(b, o))
        BY <1>1, <4>2
      <4>4. ~ Better(path(b, p), own(b))
        BY <1>2, <4>2, <4>3 DEF Best
      <4>5. NoWorse(own(b), path(b, p))
        BY <4>4 DEF NoWorse
      <4> QED
        BY <1>1, <4>2, <4>3, <4>5, NoWorseTransitive
    <3> QED
      BY <3>1, <3>2
  <2>3. \A v \in Offers(b) : NoWorse(own(b), v)
    BY <1>1, <2>2, NoWorseTotal DEF Offers
  <2> QED
    BY <1>1, <2>1, <2>3 DEF Offers
<1>3. CASE Best(b) # {}
  <2> DEFINE r == Largest(Best(b))
  <2>1. Best(b) \subseteq Ports
    BY <1>1 DEF Best
  <2>2. r \in Best(b)
    BY <1>3, <2>1, LargestIs
  <2>3. /\ r \in heard(b) /\ Better(path(b, r), own(b))
        /\ \A o \in heard(b) : NoWorse(path(b, r), path(b, o))
    BY <2>2 DEF Best
  <2>4. r \in Ports /\ r # 0
    BY <2>1, <2>2, PortAssumption
  <2>5. RootPort(b) = r
    BY <1>3 DEF RootPort
  <2> HIDE DEF r
  <2>6. RootPrio(b) = path(b, r) /\ RootAge(b) = b.port[r].portAge + AgeStep
    BY <2>4, <2>5 DEF RootPrio, RootAge
  <2>7. NoWorse(path(b, r), own(b))
    BY <1>1, <2>3, NoWorseTotal
  <2>8. b.port[r].portAge \in Nat
    BY <2>4 DEF BridgeOK, PortOK, InfoOK
  <2>9. AgeStep \in Nat
    <3>1. MaxAge \in Nat
      BY TimesAssumption
    <3>2. (8 + MaxAge) \div 16 \in Nat
      BY <3>1
    <3> QED
      BY <3>2 DEF AgeStep
  <2> QED
    BY <1>1, <2>3, <2>6, <2>7, <2>8, <2>9 DEF Offers
<1> QED
  BY <1>2, <1>3

\* A role and the request to update go along with the invariant.
LEMMA SelectStep ==
  ASSUME NEW q, NEW p, NEW K, PortOK(q, p, K), NEW x \in AllRoles, NEW u
  PROVE  PortOK([q EXCEPT !.reselect = FALSE, !.selected = TRUE, !.selectedRole = x,
                          !.updtInfo = u], p, K)
<1> DEFINE r == [q EXCEPT !.reselect = FALSE, !.selected = TRUE, !.selectedRole = x,
                          !.updtInfo = u]
<1> SUFFICES PortOK(r, p, K)
  BY DEF r
<1>1. r = [q EXCEPT !.reselect = FALSE, !.selected = TRUE, !.selectedRole = x, !.updtInfo = u]
  BY DEF r
<1> HIDE DEF r
<1>fields. DOMAIN r = Fields
  BY <1>1, IsField DEF PortOK
<1>timers. TimersOK(r)
  BY <1>1, IsField DEF PortOK, TimersOK
<1>states. StatesOK(r)
  BY <1>1, IsField DEF PortOK, StatesOK
<1>info. InfoOK(r, p, K)
  BY <1>1, IsField DEF PortOK, InfoOK
<1>roles. RolesOK(r)
  BY <1>1, IsField DEF PortOK, RolesOK
<1> QED
  BY <1>fields, <1>timers, <1>states, <1>info, <1>roles DEF PortOK

\* The role x and the flag u that port p gets with the root priority prio.
Ruled(b, p, prio, x, u) ==
  LET q == b.port[p]
  IN /\ q.infoIs = "Disabled" => x = "Disabled"
     /\ q.infoIs = "Aged" => x = "Designated" /\ u
     /\ q.infoIs = "Mine" => x = "Designated"
     /\ q.infoIs = "Received" /\ p = prio[5] => x = "Root" /\ ~u
     /\ q.infoIs = "Received" /\ p # prio[5] =>
          IF u THEN x = "Designated"
          ELSE /\ x \in {"Alternate", "Backup"}
               /\ ~NoWorse(<<prio[1], prio[2], b.id, p, p>>, q.portPrio)

\* Role selection gives each port what its information and the root call for.
LEMMA SelectIs ==
  ASSUME NEW b, NEW K, BridgeOK(b, K), NEW p \in Ports, NEW prio, NEW age
  PROVE  \E x \in AllRoles : \E u :
           /\ Select(b, p, prio, age) =
                [b.port[p] EXCEPT !.reselect = FALSE, !.selected = TRUE, !.selectedRole = x,
                                  !.updtInfo = u]
           /\ Ruled(b, p, prio, x, u)
<1> DEFINE q == b.port[p]
           r == Select(b, p, prio, age)
           d == <<prio[1], prio[2], b.id, p, p>>
           R(x, u) == [q EXCEPT !.reselect = FALSE, !.selected = TRUE, !.selectedRole = x,
                                !.updtInfo = u]
<1>1. q.infoIs \in {"Disabled", "Aged", "Mine", "Received"} /\ DOMAIN q = Fields
  BY DEF BridgeOK, PortOK, InfoOK
<1>2. CASE q.infoIs = "Disabled"
  <2>1. r = [q EXCEPT !.reselect = FALSE, !.selected = TRUE, !.selectedRole = "Disabled"]
    BY <1>2 DEF Select
  <2>2. r = R("Disabled", q.updtInfo)
    BY <1>1, <2>1, IsField
  <2> QED
    BY <1>2, <2>2 DEF AllRoles, Ruled
<1>3. CASE q.infoIs = "Aged"
  <2>1. r = R("Designated", TRUE)
    BY <1>3 DEF Select
  <2> QED
    BY <1>3, <2>1 DEF AllRoles, Ruled
<1>4. CASE q.infoIs = "Mine"
  <2>1. PICK u : r = R("Designated", u)
    BY <1>4 DEF Select
  <2> QED
    BY <1>4, <2>1 DEF AllRoles, Ruled
<1>5. CASE q.infoIs = "Received" /\ p # prio[5] /\ NoWorse(d, q.portPrio)
  <2>1. r = R("Designated", TRUE)
    BY <1>5 DEF Select
  <2> QED
    BY <1>5, <2>1 DEF AllRoles, Ruled
<1>6. CASE q.infoIs = "Received" /\ p # prio[5] /\ ~NoWorse(d, q.portPrio)
  <2>1. PICK x \in {"Alternate", "Backup"} : r = R(x, FALSE)
    BY <1>6 DEF Select
  <2> QED
    BY <1>6, <2>1 DEF AllRoles, Ruled
<1>7. CASE q.infoIs = "Received" /\ p = prio[5]
  <2>1. r = R("Root", FALSE)
    BY <1>7 DEF Select
  <2> QED
    BY <1>7, <2>1 DEF AllRoles, Ruled
<1> QED
  BY <1>1, <1>2, <1>3, <1>4, <1>5, <1>6, <1>7

\* Role selection establishes the election (updtRolesBridge of rolesel.c).
THEOREM RoleselStep ==
  ASSUME NEW b, NEW K, BridgeOK(b, K), K \subseteq Nat
  PROVE  BInv(rolesel(b), K) /\ rolesel(b).id = b.id
<1> DEFINE c == rolesel(b)
           prio == RootPrio(b)
           age == RootAge(b)
           R(p, x, u) == [b.port[p] EXCEPT !.reselect = FALSE, !.selected = TRUE,
                                           !.selectedRole = x, !.updtInfo = u]
<1>1. c = [b EXCEPT !.rolesel = "ROLE_SELECTION", !.rootPrio = prio, !.rootAge = age,
                    !.port = [p \in Ports |-> Select(b, p, prio, age)]]
  BY RoleselIs
<1>2. /\ prio \in Offers(b) /\ \A v \in Offers(b) : NoWorse(prio, v)
      /\ prio \in Priorities(K) /\ age \in Nat
  BY ChoiceIsBest
<1> HIDE DEF c, prio, age
<1>3. /\ DOMAIN c = BridgeFields /\ c.id = b.id /\ c.rolesel = "ROLE_SELECTION"
      /\ c.rootPrio = prio /\ c.rootAge = age /\ c.out = b.out
      /\ c.port = [p \in Ports |-> Select(b, p, prio, age)]
  BY <1>1 DEF BridgeOK, BridgeFields
<1>4. ASSUME NEW p \in Ports
      PROVE  /\ PortOK(c.port[p], p, K) /\ c.port[p].infoIs = b.port[p].infoIs
             /\ c.port[p].portPrio = b.port[p].portPrio
             /\ c.port[p].operPCost = b.port[p].operPCost
             /\ Assigned(c, p)
  <2> DEFINE q == b.port[p]
  <2>0. PICK x \in AllRoles : \E u :
               Select(b, p, prio, age) = R(p, x, u) /\ Ruled(b, p, prio, x, u)
    BY SelectIs
  <2>1. PICK u : Select(b, p, prio, age) = R(p, x, u) /\ Ruled(b, p, prio, x, u)
    BY <2>0
  <2>2. PortOK(q, p, K) /\ DOMAIN q = Fields
    BY DEF BridgeOK, PortOK
  <2>3. c.port[p] = R(p, x, u)
    BY <1>3, <2>1
  <2>4. PortOK(c.port[p], p, K)
    <3>1. PortOK(R(p, x, u), p, K)
      BY <2>2, SelectStep
    <3> QED
      BY <2>3, <3>1
  <2>5. /\ c.port[p].infoIs = q.infoIs /\ c.port[p].portPrio = q.portPrio
        /\ c.port[p].operPCost = q.operPCost
        /\ c.port[p].selectedRole = x /\ c.port[p].updtInfo = u
    BY <2>2, <2>3, IsField
  <2>6. designPrio(c, p) = <<prio[1], prio[2], b.id, p, p>>
    BY <1>3 DEF designPrio
  <2>7. Assigned(c, p)
    BY <1>3, <2>1, <2>5, <2>6 DEF Assigned, NoWorse, Ruled
  <2> QED
    BY <2>4, <2>5, <2>7
<1>5. BridgeOK(c, K)
  BY <1>2, <1>3, <1>4 DEF BridgeOK
<1>6. Offers(c) = Offers(b)
  <2>1. heard(c) = heard(b) /\ heard(b) \subseteq Ports
    BY <1>4 DEF heard
  <2>2. \A p \in Ports : path(c, p) = path(b, p)
    BY <1>4 DEF path
  <2> QED
    BY <1>3, <2>1, <2>2 DEF Offers, own
<1>7. Chosen(c)
  BY <1>2, <1>3, <1>6 DEF Chosen
<1>8. BInv(c, K)
  BY <1>4, <1>5, <1>7 DEF BInv, Election
<1> QED
  BY <1>3, <1>8 DEF c

-----------------------------------------------------------------------------
(* Every hop of STP_stpm_update preserves the invariant of the bridge.                     *)

\* Machine m of port p can move to state s.
CanMove(b, m, p, s) ==
  \/ m = "brdec" /\ s = brdecHop(b.port[p])
  \/ m = "portrec" /\ s = portrecHop(b.port[p])
  \/ m = "sttrans" /\ s = sttransHop(b.port[p])
  \/ m = "roletrns" /\ s = roletrnsHop(b, p)
  \/ m = "info" /\ s = infoHop(b.port[p])
  \/ m = "pcost" /\ s = pcostHop(b.port[p])
  \/ m = "p2p" /\ s = p2pHop(b.port[p])
  \/ m = "migrate" /\ s = migrateHop(b.port[p])
  \/ m = "topoch" /\ s = topochHop(b.port[p])

\* No machine of port p can move.
Still(b, p) ==
  /\ brdecHop(b.port[p]) = Stay /\ portrecHop(b.port[p]) = Stay /\ sttransHop(b.port[p]) = Stay
  /\ roletrnsHop(b, p) = Stay /\ infoHop(b.port[p]) = Stay /\ pcostHop(b.port[p]) = Stay
  /\ p2pHop(b.port[p]) = Stay /\ migrateHop(b.port[p]) = Stay /\ topochHop(b.port[p]) = Stay

\* The machine that portHop finds can move; if it finds none, none can.
LEMMA PortHop ==
  ASSUME NEW b, NEW p
  PROVE  \/ portHop(b, p)[3] = Stay /\ Still(b, p)
         \/ \E m, s : portHop(b, p) = <<m, p, s>> /\ s # Stay /\ CanMove(b, m, p, s)
<1> DEFINE q == b.port[p]
           try(m, s, others) == IF s # Stay THEN <<m, p, s>> ELSE others
           t9 == try("topoch", topochHop(b.port[p]), NoHop)
           t8 == try("migrate", migrateHop(b.port[p]), t9)
           t7 == try("p2p", p2pHop(b.port[p]), t8)
           t6 == try("pcost", pcostHop(b.port[p]), t7)
           t5 == try("info", infoHop(b.port[p]), t6)
           t4 == try("roletrns", roletrnsHop(b, p), t5)
           t3 == try("sttrans", sttransHop(b.port[p]), t4)
           t2 == try("portrec", portrecHop(b.port[p]), t3)
           t1 == try("brdec", brdecHop(b.port[p]), t2)
           Found(t) == \E m, s : t = <<m, p, s>> /\ s # Stay /\ CanMove(b, m, p, s)
<1>1. portHop(b, p) = t1
  BY DEF portHop
<1>2. NoHop[3] = Stay
  BY DEF NoHop
<1>3. Found(t9) \/ (topochHop(b.port[p]) = Stay /\ t9 = NoHop)
  BY DEF CanMove
<1>4. Found(t8) \/ (migrateHop(b.port[p]) = Stay /\ t8 = t9)
  BY DEF CanMove
<1>5. Found(t7) \/ (p2pHop(b.port[p]) = Stay /\ t7 = t8)
  BY DEF CanMove
<1>6. Found(t6) \/ (pcostHop(b.port[p]) = Stay /\ t6 = t7)
  BY DEF CanMove
<1>7. Found(t5) \/ (infoHop(b.port[p]) = Stay /\ t5 = t6)
  BY DEF CanMove
<1>8. Found(t4) \/ (roletrnsHop(b, p) = Stay /\ t4 = t5)
  BY DEF CanMove
<1>9. Found(t3) \/ (sttransHop(b.port[p]) = Stay /\ t3 = t4)
  BY DEF CanMove
<1>10. Found(t2) \/ (portrecHop(b.port[p]) = Stay /\ t2 = t3)
  BY DEF CanMove
<1>11. Found(t1) \/ (brdecHop(b.port[p]) = Stay /\ t1 = t2)
  BY DEF CanMove
<1> HIDE DEF t1, t2, t3, t4, t5, t6, t7, t8, t9, Found
<1>20. Found(t1) \/ (Still(b, p) /\ t1 = NoHop)
  BY <1>3, <1>4, <1>5, <1>6, <1>7, <1>8, <1>9, <1>10, <1>11 DEF Still
<1> QED
  BY <1>1, <1>2, <1>20 DEF Found

Reselecting(b) == b.rolesel = "BEGIN" \/ \E p \in Ports : b.port[p].reselect
Silent(b) == \A p \in Ports : Still(b, p)

\* What STP_stpm_update does next, and why it stops.
LEMMA NextHop ==
  ASSUME NEW b
  PROVE  \/ Reselecting(b) /\ nextHop(b) = <<"rolesel", 0, "ROLE_SELECTION">>
         \/ /\ ~Reselecting(b)
            /\ \E p \in Ports : \E m, s : /\ nextHop(b) = <<m, p, s>> /\ s # Stay
                                           /\ CanMove(b, m, p, s)
         \/ /\ ~Reselecting(b)
            /\ \E p \in Ports : \E s : /\ nextHop(b) = <<"transmit", p, s>> /\ s # Stay
                                        /\ s = transmitHop(b.port[p])
         \/ ~Reselecting(b) /\ nextHop(b) = NoHop /\ Silent(b)
<1> DEFINE able == {p \in Ports : portHop(b, p)[3] # Stay}
           sending == {p \in Ports : transmitHop(b.port[p]) # Stay}
           P == Largest(able)
           S == Largest(sending)
<1>1. nextHop(b) =
        IF Reselecting(b) THEN <<"rolesel", 0, "ROLE_SELECTION">>
        ELSE IF able # {} THEN portHop(b, P)
        ELSE IF sending # {} THEN <<"transmit", S, transmitHop(b.port[S])>>
        ELSE NoHop
  BY DEF nextHop, Reselecting
<1>2. CASE Reselecting(b)
  BY <1>1, <1>2
<1>3. CASE ~Reselecting(b) /\ able # {}
  <2>1. able \subseteq Ports
    OBVIOUS
  <2>2. P \in able
    <3> HIDE DEF able
    <3> QED
      BY <1>3, <2>1, LargestIs
  <2>3. P \in Ports /\ portHop(b, P)[3] # Stay
    BY <2>2
  <2> HIDE DEF able, sending, P, S
  <2>4. PICK m, s : portHop(b, P) = <<m, P, s>> /\ s # Stay /\ CanMove(b, m, P, s)
    BY <2>3, PortHop
  <2> QED
    BY <1>1, <1>3, <2>3, <2>4
<1>4. CASE ~Reselecting(b) /\ able = {} /\ sending # {}
  <2>1. sending \subseteq Ports
    OBVIOUS
  <2>2. S \in sending
    <3> HIDE DEF sending
    <3> QED
      BY <1>4, <2>1, LargestIs
  <2>3. S \in Ports /\ transmitHop(b.port[S]) # Stay
    BY <2>2
  <2> HIDE DEF able, sending, P, S
  <2> QED
    BY <1>1, <1>4, <2>3
<1>5. CASE ~Reselecting(b) /\ able = {} /\ sending = {}
  <2>1. \A p \in Ports : portHop(b, p)[3] = Stay
    BY <1>5
  <2>2. Silent(b)
    <3> SUFFICES ASSUME NEW p \in Ports PROVE Still(b, p)
      BY DEF Silent
    <3>1. portHop(b, p)[3] = Stay
      BY <2>1
    <3>2. \A m, s : portHop(b, p) = <<m, p, s>> => portHop(b, p)[3] = s
      OBVIOUS
    <3> QED
      BY <3>1, <3>2, PortHop
  <2> QED
    BY <1>1, <1>5, <2>2
<1> QED
  BY <1>2, <1>3, <1>4, <1>5

\* A bridge at rest: no machine can move.
LEMMA AtRest ==
  ASSUME NEW b, nextHop(b) = NoHop
  PROVE  ~Reselecting(b) /\ Silent(b)
<1>1. <<"rolesel", 0, "ROLE_SELECTION">> # NoHop
  BY DEF NoHop
<1>2. \A m, p, s : s # Stay => <<m, p, s>> # NoHop
  BY DEF NoHop
<1> QED
  BY <1>1, <1>2, NextHop

\* Bridge c is b with port p replaced by r.
Moved(b, c, p, r) ==
  /\ DOMAIN c = BridgeFields /\ DOMAIN c.port = Ports
  /\ c.id = b.id /\ c.rolesel = b.rolesel /\ c.rootPrio = b.rootPrio /\ c.rootAge = b.rootAge
  /\ c.out = b.out /\ c.port[p] = r /\ \A o \in Ports \ {p} : c.port[o] = b.port[o]

\* The names of the fields of a bridge.
LEMMA IsBridgeField ==
  /\ "id" \in BridgeFields /\ "rolesel" \in BridgeFields /\ "rootPrio" \in BridgeFields
  /\ "rootAge" \in BridgeFields /\ "port" \in BridgeFields /\ "out" \in BridgeFields
BY DEF BridgeFields

\* A sound port keeps the bridge sound.
LEMMA MovedOK ==
  ASSUME NEW b, NEW c, NEW K, NEW p \in Ports, NEW r, BridgeOK(b, K), Moved(b, c, p, r),
         PortOK(r, p, K)
  PROVE  BridgeOK(c, K)
<1>1. \A o \in Ports : PortOK(c.port[o], o, K)
  BY DEF BridgeOK, Moved
<1> QED
  BY <1>1 DEF BridgeOK, Moved

\* A port that changes nothing the election depends on keeps the invariant.
LEMMA MovedSame ==
  ASSUME NEW b, NEW c, NEW K, NEW p \in Ports, NEW r, BInv(b, K), Moved(b, c, p, r),
         PortOK(r, p, K), Same(b.port[p], r)
  PROVE  BInv(c, K) /\ c.id = b.id
<1>1. BridgeOK(c, K)
  BY MovedOK DEF BInv
<1>2. \A o \in Ports : Same(b.port[o], c.port[o])
  BY DEF Moved, Same
<1>3. c.id = b.id /\ c.rolesel = b.rolesel /\ c.rootPrio = b.rootPrio
  BY DEF Moved
<1> QED
  BY <1>1, <1>2, <1>3, SameElection

\* Changing the state of machine m of port p.
LEMMA StateOf ==
  ASSUME NEW b, NEW K, BridgeOK(b, K), NEW p \in Ports, NEW m, NEW s, NEW q,
         q = [b.port[p] EXCEPT ![m] = s]
  PROVE  Moved(b, [b EXCEPT !.port[p][m] = s], p, q)
BY IsBridgeField DEF BridgeOK, Moved

\* A change of a port after another of the same port.
LEMMA ReplacePort ==
  ASSUME NEW b, NEW c, NEW p \in Ports, NEW q, Moved(b, c, p, q), NEW r
  PROVE  Moved(b, [c EXCEPT !.port[p] = r], p, r)
BY IsBridgeField DEF Moved

\* The machines that write to their own port only.
LEMMA OwnPortHop ==
  ASSUME NEW b, NEW K, BridgeOK(b, K), NEW p \in Ports, NEW s
  PROVE  /\ Moved(b, hop(b, <<"brdec", p, s>>), p, brdecEnter([b.port[p] EXCEPT !.brdec = s]))
         /\ Moved(b, hop(b, <<"portrec", p, s>>), p, portrecEnter([b.port[p] EXCEPT !.portrec = s]))
         /\ Moved(b, hop(b, <<"sttrans", p, s>>), p, sttransEnter([b.port[p] EXCEPT !.sttrans = s]))
         /\ Moved(b, hop(b, <<"pcost", p, s>>), p, pcostEnter([b.port[p] EXCEPT !.pcost = s]))
         /\ Moved(b, hop(b, <<"p2p", p, s>>), p, p2pEnter([b.port[p] EXCEPT !.p2p = s]))
         /\ Moved(b, hop(b, <<"migrate", p, s>>), p, migrateEnter([b.port[p] EXCEPT !.migrate = s]))
         /\ \E d : Moved(b, hop(b, <<"info", p, s>>), p,
                         infoEnter([b.port[p] EXCEPT !.info = s], d, b.rootAge))
<1> DEFINE at(m) == [b EXCEPT !.port[p][m] = s]
           q(m) == [b.port[p] EXCEPT ![m] = s]
<1>1. ASSUME NEW m PROVE Moved(b, at(m), p, q(m))
  BY StateOf
<1>2. ASSUME NEW m PROVE at(m).port[p] = q(m) /\ at(m).rootAge = b.rootAge
  BY <1>1 DEF Moved
<1>3. ASSUME NEW m, m # "rolesel" PROVE hop(b, <<m, p, s>>) = enter(at(m), m, p)
  BY <1>3 DEF hop
<1> HIDE DEF at
<1>4. Moved(b, hop(b, <<"brdec", p, s>>), p, brdecEnter([b.port[p] EXCEPT !.brdec = s]))
  <2>1. hop(b, <<"brdec", p, s>>) =
          [at("brdec") EXCEPT !.port[p] = brdecEnter(at("brdec").port[p])]
    BY <1>3 DEF enter
  <2>2. hop(b, <<"brdec", p, s>>) = [at("brdec") EXCEPT !.port[p] = brdecEnter(q("brdec"))]
    BY <1>2, <2>1
  <2>3. Moved(b, [at("brdec") EXCEPT !.port[p] = brdecEnter(q("brdec"))],
              p, brdecEnter(q("brdec")))
    BY <1>1, ReplacePort
  <2> QED
    BY <2>2, <2>3
<1>5. Moved(b, hop(b, <<"portrec", p, s>>), p, portrecEnter([b.port[p] EXCEPT !.portrec = s]))
  <2>1. hop(b, <<"portrec", p, s>>) =
          [at("portrec") EXCEPT !.port[p] = portrecEnter(at("portrec").port[p])]
    BY <1>3 DEF enter
  <2>2. hop(b, <<"portrec", p, s>>) =
          [at("portrec") EXCEPT !.port[p] = portrecEnter(q("portrec"))]
    BY <1>2, <2>1
  <2>3. Moved(b, [at("portrec") EXCEPT !.port[p] = portrecEnter(q("portrec"))],
              p, portrecEnter(q("portrec")))
    BY <1>1, ReplacePort
  <2> QED
    BY <2>2, <2>3
<1>6. Moved(b, hop(b, <<"sttrans", p, s>>), p, sttransEnter([b.port[p] EXCEPT !.sttrans = s]))
  <2>1. hop(b, <<"sttrans", p, s>>) =
          [at("sttrans") EXCEPT !.port[p] = sttransEnter(at("sttrans").port[p])]
    BY <1>3 DEF enter
  <2>2. hop(b, <<"sttrans", p, s>>) =
          [at("sttrans") EXCEPT !.port[p] = sttransEnter(q("sttrans"))]
    BY <1>2, <2>1
  <2>3. Moved(b, [at("sttrans") EXCEPT !.port[p] = sttransEnter(q("sttrans"))],
              p, sttransEnter(q("sttrans")))
    BY <1>1, ReplacePort
  <2> QED
    BY <2>2, <2>3
<1>7. Moved(b, hop(b, <<"pcost", p, s>>), p, pcostEnter([b.port[p] EXCEPT !.pcost = s]))
  <2>1. hop(b, <<"pcost", p, s>>) =
          [at("pcost") EXCEPT !.port[p] = pcostEnter(at("pcost").port[p])]
    BY <1>3 DEF enter
  <2>2. hop(b, <<"pcost", p, s>>) = [at("pcost") EXCEPT !.port[p] = pcostEnter(q("pcost"))]
    BY <1>2, <2>1
  <2>3. Moved(b, [at("pcost") EXCEPT !.port[p] = pcostEnter(q("pcost"))],
              p, pcostEnter(q("pcost")))
    BY <1>1, ReplacePort
  <2> QED
    BY <2>2, <2>3
<1>8. Moved(b, hop(b, <<"p2p", p, s>>), p, p2pEnter([b.port[p] EXCEPT !.p2p = s]))
  <2>1. hop(b, <<"p2p", p, s>>) = [at("p2p") EXCEPT !.port[p] = p2pEnter(at("p2p").port[p])]
    BY <1>3 DEF enter
  <2>2. hop(b, <<"p2p", p, s>>) = [at("p2p") EXCEPT !.port[p] = p2pEnter(q("p2p"))]
    BY <1>2, <2>1
  <2>3. Moved(b, [at("p2p") EXCEPT !.port[p] = p2pEnter(q("p2p"))], p, p2pEnter(q("p2p")))
    BY <1>1, ReplacePort
  <2> QED
    BY <2>2, <2>3
<1>9. Moved(b, hop(b, <<"migrate", p, s>>), p, migrateEnter([b.port[p] EXCEPT !.migrate = s]))
  <2>1. hop(b, <<"migrate", p, s>>) =
          [at("migrate") EXCEPT !.port[p] = migrateEnter(at("migrate").port[p])]
    BY <1>3 DEF enter
  <2>2. hop(b, <<"migrate", p, s>>) =
          [at("migrate") EXCEPT !.port[p] = migrateEnter(q("migrate"))]
    BY <1>2, <2>1
  <2>3. Moved(b, [at("migrate") EXCEPT !.port[p] = migrateEnter(q("migrate"))],
              p, migrateEnter(q("migrate")))
    BY <1>1, ReplacePort
  <2> QED
    BY <2>2, <2>3
<1>10. \E d : Moved(b, hop(b, <<"info", p, s>>), p,
                    infoEnter([b.port[p] EXCEPT !.info = s], d, b.rootAge))
  <2> DEFINE d == designPrio(at("info"), p)
  <2>1. hop(b, <<"info", p, s>>) =
          [at("info") EXCEPT !.port[p] = infoEnter(at("info").port[p], d, at("info").rootAge)]
    BY <1>3 DEF enter
  <2> HIDE DEF d
  <2>2. hop(b, <<"info", p, s>>) =
          [at("info") EXCEPT !.port[p] = infoEnter(q("info"), d, b.rootAge)]
    BY <1>2, <2>1
  <2>3. Moved(b, [at("info") EXCEPT !.port[p] = infoEnter(q("info"), d, b.rootAge)], p,
              infoEnter(q("info"), d, b.rootAge))
    BY <1>1, ReplacePort
  <2> QED
    BY <2>2, <2>3
<1> QED
  BY <1>4, <1>5, <1>6, <1>7, <1>8, <1>9, <1>10

\* A move that writes to every port.
LEMMA EveryPort ==
  ASSUME NEW b, NEW K, BInv(b, K), NEW f, DOMAIN f = Ports,
         \A o \in Ports : PortOK(f[o], o, K) /\ Same(b.port[o], f[o])
  PROVE  BInv([b EXCEPT !.port = f], K) /\ [b EXCEPT !.port = f].id = b.id
<1> DEFINE c == [b EXCEPT !.port = f]
<1>1. /\ DOMAIN c = BridgeFields /\ c.port = f /\ c.id = b.id /\ c.rolesel = b.rolesel
      /\ c.rootPrio = b.rootPrio /\ c.rootAge = b.rootAge /\ c.out = b.out
  BY IsBridgeField DEF BInv, BridgeOK
<1> HIDE DEF c
<1>2. BridgeOK(c, K)
  BY <1>1 DEF BInv, BridgeOK
<1>3. BInv(c, K)
  BY <1>1, <1>2, SameElection
<1> QED
  BY <1>1, <1>3 DEF c

Owned(b, p) == [b EXCEPT !.port[p] = roletrnsOwn(@)]
Synced(b) == [b EXCEPT !.port = [o \in Ports |-> [b.port[o] EXCEPT !.sync = TRUE]]]
ReRooted(b) == [b EXCEPT !.port = [o \in Ports |-> [b.port[o] EXCEPT !.reRoot = TRUE]]]

\* What the role transition machine does to the bridge.
LEMMA RoletrnsEnterIs ==
  ASSUME NEW b, NEW p
  PROVE  /\ b.port[p].roletrns \in {"ROOT_PROPOSED", "ALTERNATE_PROPOSED"} =>
              roletrnsEnter(b, p) = Synced(Owned(b, p))
         /\ b.port[p].roletrns = "REROOT" => roletrnsEnter(b, p) = ReRooted(Owned(b, p))
         /\ b.port[p].roletrns \notin {"ROOT_PROPOSED", "ALTERNATE_PROPOSED", "REROOT"} =>
              roletrnsEnter(b, p) = Owned(b, p)
<1> DEFINE c == Owned(b, p)
           s == b.port[p].roletrns
<1>1. /\ s \in {"ROOT_PROPOSED", "ALTERNATE_PROPOSED"} =>
           roletrnsEnter(b, p) =
             [c EXCEPT !.port = Evaluated([o \in Ports |-> [c.port[o] EXCEPT !.sync = TRUE]])]
      /\ s = "REROOT" =>
           roletrnsEnter(b, p) =
             [c EXCEPT !.port = Evaluated([o \in Ports |-> [c.port[o] EXCEPT !.reRoot = TRUE]])]
      /\ s \notin {"ROOT_PROPOSED", "ALTERNATE_PROPOSED", "REROOT"} => roletrnsEnter(b, p) = c
  BY DEF roletrnsEnter, Owned
<1> HIDE DEF c
<1>2. /\ Evaluated([o \in Ports |-> [c.port[o] EXCEPT !.sync = TRUE]]) =
           [o \in Ports |-> [c.port[o] EXCEPT !.sync = TRUE]]
      /\ Evaluated([o \in Ports |-> [c.port[o] EXCEPT !.reRoot = TRUE]]) =
           [o \in Ports |-> [c.port[o] EXCEPT !.reRoot = TRUE]]
  BY EvaluatedIs
<1>3. /\ s \in {"ROOT_PROPOSED", "ALTERNATE_PROPOSED"} => roletrnsEnter(b, p) = Synced(c)
      /\ s = "REROOT" => roletrnsEnter(b, p) = ReRooted(c)
      /\ s \notin {"ROOT_PROPOSED", "ALTERNATE_PROPOSED", "REROOT"} => roletrnsEnter(b, p) = c
  BY <1>1, <1>2 DEF Synced, ReRooted
<1> QED
  BY <1>3 DEF c

\* A hop of the role transition machine.
LEMMA RoletrnsStep ==
  ASSUME NEW b, NEW K, BInv(b, K), NEW p \in Ports, NEW s, s = roletrnsHop(b, p), s # Stay
  PROVE  BInv(hop(b, <<"roletrns", p, s>>), K) /\ hop(b, <<"roletrns", p, s>>).id = b.id
<1> DEFINE q == [b.port[p] EXCEPT !.roletrns = s]
           a == [b EXCEPT !.port[p]["roletrns"] = s]
           c == [a EXCEPT !.port[p] = roletrnsOwn(q)]
           r == roletrnsOwn(q)
           h == hop(b, <<"roletrns", p, s>>)
<1> SUFFICES BInv(h, K) /\ h.id = b.id
  OBVIOUS
<1>0. BridgeOK(b, K) /\ PortOK(b.port[p], p, K) /\ DOMAIN b.port[p] = Fields
  BY DEF BInv, BridgeOK, PortOK
<1>1. PortOK(r, p, K) /\ Same(b.port[p], r)
  BY <1>0, RoletrnsHop, RoletrnsOwn
<1>2. Moved(b, a, p, q)
  BY <1>0, StateOf
<1>3. a.port[p] = q /\ q.roletrns = s
  BY <1>0, <1>2, IsField DEF Moved
<1>4. h = roletrnsEnter(a, p)
  BY DEF hop, enter
<1> HIDE DEF q, a
<1>5. Moved(b, c, p, r)
  BY <1>2, ReplacePort
<1>6. /\ s \in {"ROOT_PROPOSED", "ALTERNATE_PROPOSED"} => h = Synced(c)
      /\ s = "REROOT" => h = ReRooted(c)
      /\ s \notin {"ROOT_PROPOSED", "ALTERNATE_PROPOSED", "REROOT"} => h = c
  <2>1. c = Owned(a, p)
    BY <1>3 DEF Owned
  <2>2. s = a.port[p].roletrns
    BY <1>3
  <2> HIDE DEF c, h
  <2> QED
    BY <1>4, <2>1, <2>2, RoletrnsEnterIs
<1> HIDE DEF c, r, h
<1>7. BInv(c, K) /\ c.id = b.id
  BY <1>1, <1>5, MovedSame
<1>8. CASE s \in {"ROOT_PROPOSED", "ALTERNATE_PROPOSED"}
  <2> DEFINE f == [o \in Ports |-> [c.port[o] EXCEPT !.sync = TRUE]]
  <2>1. h = [c EXCEPT !.port = f]
    BY <1>6, <1>8 DEF Synced
  <2>2. \A o \in Ports : PortOK(c.port[o], o, K)
    BY <1>7 DEF BInv, BridgeOK
  <2>3. DOMAIN f = Ports /\ \A o \in Ports : f[o] = [c.port[o] EXCEPT !.sync = TRUE]
    OBVIOUS
  <2> HIDE DEF f
  <2>4. \A o \in Ports : PortOK(f[o], o, K) /\ Same(c.port[o], f[o])
    BY <2>2, <2>3, SyncStep
  <2>5. BInv([c EXCEPT !.port = f], K) /\ [c EXCEPT !.port = f].id = c.id
    BY <1>7, <2>3, <2>4, EveryPort
  <2> QED
    BY <1>7, <2>1, <2>5
<1>9. CASE s = "REROOT"
  <2> DEFINE f == [o \in Ports |-> [c.port[o] EXCEPT !.reRoot = TRUE]]
  <2>1. h = [c EXCEPT !.port = f]
    BY <1>6, <1>9 DEF ReRooted
  <2>2. \A o \in Ports : PortOK(c.port[o], o, K)
    BY <1>7 DEF BInv, BridgeOK
  <2>3. DOMAIN f = Ports /\ \A o \in Ports : f[o] = [c.port[o] EXCEPT !.reRoot = TRUE]
    OBVIOUS
  <2> HIDE DEF f
  <2>4. \A o \in Ports : PortOK(f[o], o, K) /\ Same(c.port[o], f[o])
    BY <2>2, <2>3, ReRootStep
  <2>5. BInv([c EXCEPT !.port = f], K) /\ [c EXCEPT !.port = f].id = c.id
    BY <1>7, <2>3, <2>4, EveryPort
  <2> QED
    BY <1>7, <2>1, <2>5
<1>10. CASE s \notin {"ROOT_PROPOSED", "ALTERNATE_PROPOSED", "REROOT"}
  BY <1>6, <1>7, <1>10
<1> QED
  BY <1>8, <1>9, <1>10

\* A hop of the topology change machine.
LEMMA TopochStep ==
  ASSUME NEW b, NEW K, BInv(b, K), NEW p \in Ports, NEW s,
         s = topochHop(b.port[p]), s # Stay
  PROVE  BInv(hop(b, <<"topoch", p, s>>), K) /\ hop(b, <<"topoch", p, s>>).id = b.id
<1> DEFINE q == [b.port[p] EXCEPT !.topoch = s]
           a == [b EXCEPT !.port[p]["topoch"] = s]
           r == topochOwn(q)
           f == [o \in Ports |-> IF o = p THEN r
                   ELSE [a.port[o] EXCEPT !.tcProp = @ \/ r.topoch \in {"DETECTED", "NOTIFIED_TC"}]]
           c == [a EXCEPT !.port = f]
           h == hop(b, <<"topoch", p, s>>)
<1> SUFFICES BInv(h, K) /\ h.id = b.id
  OBVIOUS
<1>0. BridgeOK(b, K) /\ PortOK(b.port[p], p, K) /\ DOMAIN b.port[p] = Fields
  BY DEF BInv, BridgeOK, PortOK
<1>1. PortOK(r, p, K) /\ Same(b.port[p], r)
  BY <1>0, TopochHop, TopochOwn
<1>2. Moved(b, a, p, q)
  BY <1>0, StateOf
<1>3. a.port[p] = q /\ \A o \in Ports \ {p} : a.port[o] = b.port[o]
  BY <1>2 DEF Moved
<1>4. h = topochEnter(a, p)
  BY DEF hop, enter
<1> HIDE DEF q, a
<1>5. h = c
  BY <1>3, <1>4, EvaluatedIs DEF topochEnter
<1> HIDE DEF h, r
<1>6. BInv(a, K) /\ a.id = b.id
  <2>1. PortOK(q, p, K) /\ Same(b.port[p], q)
    BY <1>0, TopochHop, TopochState DEF q
  <2> QED
    BY <1>2, <2>1, MovedSame
<1>7. DOMAIN f = Ports /\ \A o \in Ports : PortOK(f[o], o, K) /\ Same(a.port[o], f[o])
  <2>1. Same(q, r)
    <3>1. Same(b.port[p], q)
      BY <1>0, TopochHop, TopochState DEF q
    <3> QED
      BY <1>1, <3>1 DEF Same
  <2>2. f[p] = r
    OBVIOUS
  <2>3. ASSUME NEW o \in Ports \ {p} PROVE PortOK(f[o], o, K) /\ Same(a.port[o], f[o])
    <3> DEFINE v == a.port[o].tcProp \/ r.topoch \in {"DETECTED", "NOTIFIED_TC"}
    <3>1. f[o] = [a.port[o] EXCEPT !.tcProp = v]
      OBVIOUS
    <3>2. PortOK(a.port[o], o, K)
      BY <1>6 DEF BInv, BridgeOK
    <3> HIDE DEF v, f
    <3>3. PortOK([a.port[o] EXCEPT !.tcProp = v], o, K)
          /\ Same(a.port[o], [a.port[o] EXCEPT !.tcProp = v])
      BY <3>2, TcPropStep
    <3> QED
      BY <3>1, <3>3
  <2>4. DOMAIN f = Ports
    OBVIOUS
  <2> HIDE DEF f
  <2> QED
    BY <1>1, <1>3, <2>1, <2>2, <2>3, <2>4
<1> HIDE DEF f
<1>8. BInv([a EXCEPT !.port = f], K) /\ [a EXCEPT !.port = f].id = a.id
  BY <1>6, <1>7, EveryPort
<1> QED
  BY <1>5, <1>6, <1>8

\* The states that the transmit machine hops to, and the limit it keeps.
LEMMA TransmitHop ==
  ASSUME NEW q, NEW s, s = transmitHop(q), s # Stay, q.txCount \in 0 .. TxHoldCount
  PROVE  /\ s \in {"TRANSMIT_INIT", "IDLE", "TRANSMIT_PERIODIC", "TRANSMIT_RSTP",
                   "TRANSMIT_CONFIG", "TRANSMIT_TCN"}
         /\ s \in {"TRANSMIT_RSTP", "TRANSMIT_CONFIG", "TRANSMIT_TCN"} =>
              q.txCount + 1 \in 0 .. TxHoldCount
<1>1. CASE q.transmit = "BEGIN"
  BY <1>1 DEF transmitHop
<1>2. CASE q.transmit = "IDLE" /\ q.helloWhen = 0
  BY <1>2 DEF transmitHop
<1>3. CASE q.transmit = "IDLE" /\ q.helloWhen # 0
  <2>1. ~(q.txCount >= TxHoldCount)
    BY <1>3 DEF transmitHop
  <2>2. q.txCount + 1 \in 0 .. TxHoldCount
    BY <2>1 DEF TxHoldCount
  <2>3. s \in {"TRANSMIT_RSTP", "TRANSMIT_CONFIG", "TRANSMIT_TCN"}
    BY <1>3 DEF transmitHop, When
  <2> QED
    BY <2>2, <2>3
<1>4. CASE q.transmit \notin {"BEGIN", "IDLE"}
  BY <1>4 DEF transmitHop
<1> QED
  BY <1>1, <1>2, <1>3, <1>4

\* A bridge sends BPDUs about identifiers it knows.
LEMMA BpduIs ==
  ASSUME NEW b, NEW p \in Ports, NEW K, b.id \in K, b.rootPrio \in Priorities(K),
         b.rootAge \in Nat, b.port[p].selectedRole \in AllRoles,
         b.port[p].transmit \in {"TRANSMIT_RSTP", "TRANSMIT_CONFIG", "TRANSMIT_TCN"}
  PROVE  bpdu(b, p) \in Messages(K)
<1> DEFINE q == b.port[p]
           h == <<b.rootPrio[1], b.rootPrio[2], b.id, p>>
<1>1. h \in Headers(K)
  BY DEF Headers, Priorities
<1>2. CASE q.transmit = "TRANSMIT_TCN"
  <2>1. bpdu(b, p) = [type |-> "tcn"]
    BY <1>2 DEF bpdu
  <2> QED
    BY <2>1 DEF Messages
<1>3. CASE q.transmit = "TRANSMIT_CONFIG"
  <2> DEFINE f == (IF q.tcWhile # 0 THEN {"tc"} ELSE {}) \cup (IF q.tcAck THEN {"tcAck"} ELSE {})
  <2>1. bpdu(b, p) = [type |-> "config", prio |-> h, age |-> b.rootAge, flags |-> f]
    BY <1>3 DEF bpdu
  <2>2. f \in SUBSET Flags
    BY DEF Flags
  <2> HIDE DEF f, h
  <2> QED
    BY <1>1, <2>1, <2>2 DEF Messages
<1>4. CASE q.transmit = "TRANSMIT_RSTP"
  <2> DEFINE r == IF q.selectedRole = "Backup" THEN "Alternate" ELSE q.selectedRole
             f == (IF q.tcWhile # 0 THEN {"tc"} ELSE {})
                  \cup {e \in {"learn", "agree", "proposal"} :
                          CASE e = "learn" -> q.learning
                            [] e = "agree" -> q.agree
                            [] e = "proposal" -> q.proposing}
  <2>1. bpdu(b, p) = [type |-> "rstp", prio |-> h, age |-> b.rootAge, role |-> r, flags |-> f]
    BY <1>4 DEF bpdu
  <2>2. f \in SUBSET Flags
    BY DEF Flags
  <2>3. r \in AllRoles
    BY DEF AllRoles
  <2> HIDE DEF f, h, r
  <2> QED
    BY <1>1, <2>1, <2>2, <2>3 DEF Messages
<1> QED
  BY <1>2, <1>3, <1>4

\* A hop of the transmit machine.
LEMMA TransmitStep ==
  ASSUME NEW b, NEW K, BInv(b, K), NEW p \in Ports, NEW s,
         s = transmitHop(b.port[p]), s # Stay
  PROVE  BInv(hop(b, <<"transmit", p, s>>), K) /\ hop(b, <<"transmit", p, s>>).id = b.id
<1> DEFINE q == [b.port[p] EXCEPT !.transmit = s]
           a == [b EXCEPT !.port[p]["transmit"] = s]
           h == hop(b, <<"transmit", p, s>>)
<1> SUFFICES BInv(h, K) /\ h.id = b.id
  OBVIOUS
<1>0. BridgeOK(b, K) /\ PortOK(b.port[p], p, K) /\ DOMAIN b.port[p] = Fields
  BY DEF BInv, BridgeOK, PortOK
<1>1. /\ s \in {"TRANSMIT_INIT", "IDLE", "TRANSMIT_PERIODIC", "TRANSMIT_RSTP",
                "TRANSMIT_CONFIG", "TRANSMIT_TCN"}
      /\ s \in {"TRANSMIT_RSTP", "TRANSMIT_CONFIG", "TRANSMIT_TCN"} =>
           b.port[p].txCount + 1 \in 0 .. TxHoldCount
  BY <1>0, TransmitHop DEF PortOK, TimersOK
<1>2. Moved(b, a, p, q)
  BY <1>0, StateOf
<1>3. a.port[p] = q /\ q.transmit = s
  BY <1>0, <1>2, IsField DEF Moved
<1>4. h = transmitEnter(a, p)
  BY DEF hop, enter
<1>5. DOMAIN q = Fields /\ q.txCount = b.port[p].txCount
      /\ q.selectedRole = b.port[p].selectedRole /\ q.newInfo = b.port[p].newInfo
  BY <1>0, IsField
<1> HIDE DEF a, h
<1>6. CASE s = "TRANSMIT_INIT"
  <2> DEFINE r == [b.port[p] EXCEPT !.transmit = s, !.newInfo = TRUE, !.txCount = 0]
  <2>1. h = [a EXCEPT !.port[p] = r]
    BY <1>3, <1>4, <1>6 DEF transmitEnter
  <2>2. PortOK(r, p, K) /\ Same(b.port[p], r)
    BY <1>0, TransmitInit
  <2> HIDE DEF r
  <2>3. Moved(b, h, p, r)
    BY <1>2, <2>1, ReplacePort
  <2> QED
    BY <2>2, <2>3, MovedSame
<1>7. CASE s = "IDLE"
  <2> DEFINE r == [b.port[p] EXCEPT !.transmit = s, !.helloWhen = HelloTime]
  <2>1. h = [a EXCEPT !.port[p] = r]
    <3>1. h = [a EXCEPT !.port[p] = [a.port[p] EXCEPT !.helloWhen = HelloTime]]
      BY <1>3, <1>4, <1>7 DEF transmitEnter
    <3> QED
      BY <1>3, <3>1
  <2>2. PortOK(r, p, K) /\ Same(b.port[p], r)
    BY <1>0, TransmitIdle
  <2> HIDE DEF r
  <2>3. Moved(b, h, p, r)
    BY <1>2, <2>1, ReplacePort
  <2> QED
    BY <2>2, <2>3, MovedSame
<1>8. CASE s = "TRANSMIT_PERIODIC"
  <2> DEFINE v == q.newInfo \/ periodic(q)
             r == [b.port[p] EXCEPT !.transmit = s, !.newInfo = v]
  <2>1. h = [a EXCEPT !.port[p] = r]
    <3>1. h = [a EXCEPT !.port[p] = [a.port[p] EXCEPT !.newInfo = @ \/ periodic(a.port[p])]]
      BY <1>3, <1>4, <1>8 DEF transmitEnter
    <3> QED
      BY <1>3, <3>1
  <2> HIDE DEF v
  <2>2. PortOK(r, p, K) /\ Same(b.port[p], r)
    BY <1>0, TransmitPeriodic
  <2> HIDE DEF r
  <2>3. Moved(b, h, p, r)
    BY <1>2, <2>1, ReplacePort
  <2> QED
    BY <2>2, <2>3, MovedSame
<1>9. CASE s \in {"TRANSMIT_RSTP", "TRANSMIT_CONFIG", "TRANSMIT_TCN"}
  <2> DEFINE v == q.tcAck /\ q.transmit = "TRANSMIT_TCN"
             n == b.port[p].txCount + 1
             r == [b.port[p] EXCEPT !.transmit = s, !.newInfo = FALSE, !.txCount = n, !.tcAck = v]
             m == bpdu(a, p)
  <2>1. h = [a EXCEPT !.port[p] = r, !.out = Append(@, <<p, m>>)]
    <3>1. h = [a EXCEPT !.port[p] = [q EXCEPT !.newInfo = FALSE, !.txCount = @ + 1,
                                              !.tcAck = @ /\ q.transmit = "TRANSMIT_TCN"],
                        !.out = Append(@, <<p, m>>)]
      BY <1>3, <1>4, <1>9 DEF transmitEnter
    <3>2. [q EXCEPT !.newInfo = FALSE, !.txCount = @ + 1,
                    !.tcAck = @ /\ q.transmit = "TRANSMIT_TCN"] = r
      BY <1>5
    <3> HIDE DEF m, r, q
    <3> QED
      BY <3>1, <3>2
  <2>2. m \in Messages(K)
    <3>1. b.port[p].selectedRole \in AllRoles
      BY <1>0 DEF PortOK, RolesOK
    <3> QED
      BY <1>0, <1>2, <1>3, <1>5, <1>9, <3>1, BpduIs DEF Moved, BridgeOK
  <2>3. n \in 0 .. TxHoldCount
    BY <1>1, <1>9
  <2> HIDE DEF v, n, m
  <2>4. PortOK(r, p, K) /\ Same(b.port[p], r)
    BY <1>0, <2>3, TransmitSent
  <2> HIDE DEF r, q
  <2>5. /\ DOMAIN h = BridgeFields /\ DOMAIN h.port = Ports
        /\ h.id = b.id /\ h.rolesel = b.rolesel /\ h.rootPrio = b.rootPrio
        /\ h.rootAge = b.rootAge /\ h.out = Append(b.out, <<p, m>>)
        /\ h.port[p] = r /\ \A o \in Ports \ {p} : h.port[o] = b.port[o]
    BY <1>2, <2>1, IsBridgeField DEF Moved
  <2>6. h.out \in Seq(Ports \X Messages(K))
    BY <1>0, <2>2, <2>5 DEF BridgeOK
  <2>7. \A o \in Ports : PortOK(h.port[o], o, K) /\ Same(b.port[o], h.port[o])
    BY <1>0, <2>4, <2>5 DEF BridgeOK, Same
  <2>8. BridgeOK(h, K)
    BY <1>0, <2>5, <2>6, <2>7 DEF BridgeOK
  <2> QED
    BY <2>5, <2>7, <2>8, SameElection
<1> QED
  BY <1>1, <1>6, <1>7, <1>8, <1>9

\* The machines that leave alone what the election depends on.
LEMMA PlainStep ==
  ASSUME NEW b, NEW K, BInv(b, K), NEW p \in Ports, NEW m, NEW s, CanMove(b, m, p, s), s # Stay,
         m \in {"brdec", "portrec", "sttrans", "p2p", "migrate"}
  PROVE  BInv(hop(b, <<m, p, s>>), K) /\ hop(b, <<m, p, s>>).id = b.id
<1>0. BridgeOK(b, K) /\ PortOK(b.port[p], p, K)
  BY DEF BInv, BridgeOK
<1>1. CASE m = "brdec"
  <2> DEFINE r == brdecEnter([b.port[p] EXCEPT !.brdec = s])
  <2>0. s = brdecHop(b.port[p])
    BY <1>1 DEF CanMove
  <2>1. PortOK(r, p, K) /\ Same(b.port[p], r)
    BY <1>0, <2>0, BrdecStep
  <2>2. Moved(b, hop(b, <<"brdec", p, s>>), p, r)
    BY <1>0, OwnPortHop
  <2> HIDE DEF r
  <2> QED
    BY <1>1, <2>1, <2>2, MovedSame
<1>2. CASE m = "portrec"
  <2> DEFINE r == portrecEnter([b.port[p] EXCEPT !.portrec = s])
  <2>1. PortOK(r, p, K) /\ Same(b.port[p], r)
    BY <1>0, PortrecStep
  <2>2. Moved(b, hop(b, <<"portrec", p, s>>), p, r)
    BY <1>0, OwnPortHop
  <2> HIDE DEF r
  <2> QED
    BY <1>2, <2>1, <2>2, MovedSame
<1>3. CASE m = "sttrans"
  <2> DEFINE r == sttransEnter([b.port[p] EXCEPT !.sttrans = s])
  <2>0. s = sttransHop(b.port[p])
    BY <1>3 DEF CanMove
  <2>1. PortOK(r, p, K) /\ Same(b.port[p], r)
    BY <1>0, <2>0, SttransStep
  <2>2. Moved(b, hop(b, <<"sttrans", p, s>>), p, r)
    BY <1>0, OwnPortHop
  <2> HIDE DEF r
  <2> QED
    BY <1>3, <2>1, <2>2, MovedSame
<1>4. CASE m = "p2p"
  <2> DEFINE r == p2pEnter([b.port[p] EXCEPT !.p2p = s])
  <2>1. PortOK(r, p, K) /\ Same(b.port[p], r)
    BY <1>0, P2pStep
  <2>2. Moved(b, hop(b, <<"p2p", p, s>>), p, r)
    BY <1>0, OwnPortHop
  <2> HIDE DEF r
  <2> QED
    BY <1>4, <2>1, <2>2, MovedSame
<1>5. CASE m = "migrate"
  <2> DEFINE r == migrateEnter([b.port[p] EXCEPT !.migrate = s])
  <2>0. s = migrateHop(b.port[p])
    BY <1>5 DEF CanMove
  <2>1. PortOK(r, p, K) /\ Same(b.port[p], r)
    BY <1>0, <2>0, MigrateStep
  <2>2. Moved(b, hop(b, <<"migrate", p, s>>), p, r)
    BY <1>0, OwnPortHop
  <2> HIDE DEF r
  <2> QED
    BY <1>5, <2>1, <2>2, MovedSame
<1> QED
  BY <1>1, <1>2, <1>3, <1>4, <1>5

\* The path cost machine: a new cost calls for another selection.
LEMMA PcostHop ==
  ASSUME NEW b, NEW K, BInv(b, K), NEW p \in Ports, NEW s, s = pcostHop(b.port[p]), s # Stay
  PROVE  BInv(hop(b, <<"pcost", p, s>>), K) /\ hop(b, <<"pcost", p, s>>).id = b.id
<1> DEFINE r == pcostEnter([b.port[p] EXCEPT !.pcost = s])
           c == hop(b, <<"pcost", p, s>>)
<1>0. BridgeOK(b, K) /\ PortOK(b.port[p], p, K)
  BY DEF BInv, BridgeOK
<1>1. PortOK(r, p, K) /\ (r.pcost = "AUTO" \/ r.reselect)
  BY <1>0, PcostStep
<1>2. Moved(b, c, p, r)
  BY <1>0, OwnPortHop
<1> HIDE DEF r, c
<1>3. BridgeOK(c, K) /\ c.id = b.id /\ c.port[p] = r
  BY <1>0, <1>1, <1>2, MovedOK DEF Moved
<1>4. BInv(c, K)
  BY <1>1, <1>3, NoElection
<1> QED
  BY <1>3, <1>4 DEF c

\* A hop of the port information machine.
LEMMA InfoHopStep ==
  ASSUME NEW b, NEW K, BInv(b, K), NEW p \in Ports, NEW s, s = infoHop(b.port[p]), s # Stay
  PROVE  BInv(hop(b, <<"info", p, s>>), K) /\ hop(b, <<"info", p, s>>).id = b.id
<1> DEFINE c == hop(b, <<"info", p, s>>)
<1>0. BridgeOK(b, K) /\ PortOK(b.port[p], p, K) /\ b.rootAge \in Nat
  BY DEF BInv, BridgeOK
<1>1. PICK d : Moved(b, c, p, infoEnter([b.port[p] EXCEPT !.info = s], d, b.rootAge))
  BY <1>0, OwnPortHop
<1> DEFINE r == infoEnter([b.port[p] EXCEPT !.info = s], d, b.rootAge)
<1>2. PortOK(r, p, K) /\ (r.reselect \/ Same(b.port[p], r) \/ Mined(b.port[p], r))
  BY <1>0, InfoStep
<1>3. Moved(b, c, p, r)
  BY <1>1
<1> HIDE DEF r, c
<1>4. /\ BridgeOK(c, K) /\ c.id = b.id /\ c.port[p] = r /\ c.rolesel = b.rolesel
      /\ c.rootPrio = b.rootPrio /\ \A o \in Ports \ {p} : c.port[o] = b.port[o]
  BY <1>0, <1>2, <1>3, MovedOK DEF Moved
<1>5. CASE r.reselect
  BY <1>4, <1>5, NoElection DEF c
<1>6. CASE Same(b.port[p], r)
  BY <1>2, <1>3, <1>6, MovedSame DEF c
<1>7. CASE Mined(b.port[p], r)
  BY <1>4, <1>7, MinedElection DEF c
<1> QED
  BY <1>2, <1>5, <1>6, <1>7

\* Every hop keeps the invariant of the bridge.
LEMMA HopStep ==
  ASSUME NEW b, NEW K, K \subseteq Nat, BInv(b, K), nextHop(b) # NoHop
  PROVE  BInv(hop(b, nextHop(b)), K) /\ hop(b, nextHop(b)).id = b.id
<1>1. CASE nextHop(b) = <<"rolesel", 0, "ROLE_SELECTION">>
  <2>1. hop(b, nextHop(b)) = rolesel(b)
    BY <1>1 DEF hop
  <2> QED
    BY <2>1, RoleselStep DEF BInv
<1>2. ASSUME NEW p \in Ports, NEW m, NEW s, nextHop(b) = <<m, p, s>>, s # Stay,
             CanMove(b, m, p, s)
      PROVE  BInv(hop(b, nextHop(b)), K) /\ hop(b, nextHop(b)).id = b.id
  <2>1. CASE m \in {"brdec", "portrec", "sttrans", "p2p", "migrate"}
    BY <1>2, <2>1, PlainStep
  <2>2. CASE m = "roletrns"
    <3>1. s = roletrnsHop(b, p)
      BY <1>2, <2>2 DEF CanMove
    <3> QED
      BY <1>2, <2>2, <3>1, RoletrnsStep
  <2>3. CASE m = "info"
    <3>1. s = infoHop(b.port[p])
      BY <1>2, <2>3 DEF CanMove
    <3> QED
      BY <1>2, <2>3, <3>1, InfoHopStep
  <2>4. CASE m = "pcost"
    <3>1. s = pcostHop(b.port[p])
      BY <1>2, <2>4 DEF CanMove
    <3> QED
      BY <1>2, <2>4, <3>1, PcostHop
  <2>5. CASE m = "topoch"
    <3>1. s = topochHop(b.port[p])
      BY <1>2, <2>5 DEF CanMove
    <3> QED
      BY <1>2, <2>5, <3>1, TopochStep
  <2> QED
    BY <1>2, <2>1, <2>2, <2>3, <2>4, <2>5 DEF CanMove
<1>3. ASSUME NEW p \in Ports, NEW s, nextHop(b) = <<"transmit", p, s>>, s # Stay,
             s = transmitHop(b.port[p])
      PROVE  BInv(hop(b, nextHop(b)), K) /\ hop(b, nextHop(b)).id = b.id
  BY <1>3, TransmitStep
<1> QED
  BY <1>1, <1>2, <1>3, NextHop

-----------------------------------------------------------------------------
(* STP_stpm_update.                                                                        *)

\* Counting from 0 up to n: what cannot fail first never fails.
LEMMA UpTo ==
  ASSUME NEW N \in Nat, NEW Good, 0 \in Good,
         \A n \in 1 .. N : n - 1 \in Good => n \in Good
  PROVE  \A n \in 0 .. N : n \in Good
<1> DEFINE Bad == {n \in 0 .. N : n \notin Good}
<1> SUFFICES ASSUME Bad # {} PROVE FALSE
  OBVIOUS
<1>1. Bad \subseteq Nat
  OBVIOUS
<1>2. PICK n \in Bad : \A k \in Bad : n <= k
  BY <1>1, LeastExists
<1>3. n \in 1 .. N /\ n - 1 \in 0 .. N
  BY <1>2
<1>4. n - 1 \notin Bad
  BY <1>2, <1>3
<1> QED
  BY <1>2, <1>3, <1>4

At(c) == [bridge |-> c, next |-> nextHop(c)]
Further(r) == IF r.next = NoHop THEN r ELSE At(hop(r.bridge, r.next))
Round(b, f, N) == [n \in 0 .. N |-> IF n = 0 THEN At(b) ELSE Further(f[n - 1])]

\* The recursion of rounds defines a function.
LEMMA RoundsExist ==
  ASSUME NEW b, NEW N \in Nat
  PROVE  \E f : f = Round(b, f, N)
<1> DEFINE Good == {n \in Nat : \E f : f = Round(b, f, n)}
<1>1. 0 \in Good
  <2> DEFINE f == [n \in 0 .. 0 |-> At(b)]
  <2>1. f = Round(b, f, 0)
    BY DEF Round
  <2> QED
    BY <2>1
<1>2. ASSUME NEW n \in 1 .. N, n - 1 \in Good PROVE n \in Good
  <2>1. PICK f : f = Round(b, f, n - 1)
    BY <1>2
  <2> DEFINE g == [k \in 0 .. n |-> IF k < n THEN f[k] ELSE Further(f[n - 1])]
  <2>2. ASSUME NEW k \in 0 .. n
        PROVE  g[k] = IF k = 0 THEN At(b) ELSE Further(g[k - 1])
    <3>1. CASE k < n
      <4>1. k \in 0 .. n - 1
        BY <3>1
      <4>2. f[k] = IF k = 0 THEN At(b) ELSE Further(f[k - 1])
        BY <2>1, <4>1 DEF Round
      <4>3. k # 0 => g[k - 1] = f[k - 1]
        BY <3>1
      <4> QED
        BY <3>1, <4>2, <4>3
    <3>2. CASE k = n
      BY <3>2
    <3> QED
      BY <3>1, <3>2
  <2>3. g = Round(b, g, n)
    <3>1. g = [k \in 0 .. n |-> g[k]]
      OBVIOUS
    <3> HIDE DEF g
    <3> QED
      BY <2>2, <3>1 DEF Round
  <2> HIDE DEF g
  <2> QED
    BY <2>3
<1> HIDE DEF Good
<1>3. N \in Good
  BY <1>1, <1>2, UpTo
<1> QED
  BY <1>3 DEF Good

\* So rounds is one.
LEMMA RoundsIs == \A b : rounds(b) = Round(b, rounds(b), MaxLoops)
<1> SUFFICES ASSUME NEW b PROVE rounds(b) = Round(b, rounds(b), MaxLoops)
  OBVIOUS
<1>1. \E f : f = Round(b, f, MaxLoops)
  BY RoundsExist, LoopsAssumption
<1>2. rounds(b) = CHOOSE f : f = Round(b, f, MaxLoops)
  BY Zenon DEF rounds, Round, At, Further
<1> QED
  BY <1>1, <1>2

\* A call leaves the bridge with its identifier, as the invariant wants it, and at rest.
LEMMA UpdateStep ==
  ASSUME NEW b, NEW K, K \subseteq Nat, BInv(b, K), Update(b) # Hung
  PROVE  /\ BInv(Update(b), K) /\ Update(b).id = b.id
         /\ ~Reselecting(Update(b)) /\ Silent(Update(b))
<1> DEFINE f == rounds(b)
           Good == {n \in 0 .. MaxLoops :
                      /\ BInv(f[n].bridge, K) /\ f[n].bridge.id = b.id
                      /\ f[n].next = nextHop(f[n].bridge)}
<1>0. MaxLoops \in Nat
  BY LoopsAssumption
<1>1. f = Round(b, f, MaxLoops)
  BY RoundsIs
<1> HIDE DEF f
<1>2. 0 \in Good
  <2>1. f[0] = At(b)
    BY <1>0, <1>1 DEF Round
  <2> QED
    BY <1>0, <2>1 DEF At
<1>3. ASSUME NEW n \in 1 .. MaxLoops, n - 1 \in Good PROVE n \in Good
  <2> DEFINE r == f[n - 1]
  <2>1. f[n] = Further(r)
    BY <1>0, <1>1 DEF Round
  <2>2. BInv(r.bridge, K) /\ r.bridge.id = b.id /\ r.next = nextHop(r.bridge)
    BY <1>3
  <2> HIDE DEF r
  <2>3. CASE r.next = NoHop
    <3>1. f[n] = r
      BY <2>1, <2>3 DEF Further
    <3> QED
      BY <2>2, <3>1
  <2>4. CASE r.next # NoHop
    <3>1. f[n] = At(hop(r.bridge, r.next))
      BY <2>1, <2>4 DEF Further
    <3>2. BInv(hop(r.bridge, r.next), K) /\ hop(r.bridge, r.next).id = b.id
      BY <2>2, <2>4, HopStep
    <3> QED
      BY <3>1, <3>2 DEF At
  <2> QED
    BY <2>3, <2>4
<1> HIDE DEF Good
<1>4. MaxLoops \in Good
  BY <1>0, <1>2, <1>3, UpTo
<1>5. /\ BInv(f[MaxLoops].bridge, K) /\ f[MaxLoops].bridge.id = b.id
      /\ f[MaxLoops].next = nextHop(f[MaxLoops].bridge)
  BY <1>4 DEF Good
<1>6. f[MaxLoops].next = NoHop /\ Update(b) = f[MaxLoops].bridge
  BY DEF Update, f
<1> QED
  BY <1>5, <1>6, AtRest

-----------------------------------------------------------------------------
(* The loop of STP_stpm_update ends.  What a port has still to do is ranked in eight       *)
(* levels; a hop lowers the rank of its port at some level and raises no port at a level   *)
(* before that one.  So the numbers of a level, added up over the ports, are the digits of *)
(* a number that every hop makes smaller - whichever machine hops, in whichever order.     *)
One(condition) == IF condition THEN 1 ELSE 0

\* Level 1: what has come in from outside and sets off an election - a message, an expiry, a
\* link that went up or down, a path cost - and the settings that follow from it.
CostLeft(q) == (IF q.pcost = "BEGIN" THEN 2 ELSE One(q.pcost = "AUTO"))
               + 2 * One(q.operSpeed # q.usedSpeed)
EdgeLeft(q) ==
  IF ~q.enabled /\ q.adminEdge
    THEN IF q.brdec = "BEGIN" THEN 3
         ELSE IF q.brdec = "NOT_EDGE" THEN 1 ELSE 2 * One(~q.operEdge)
    ELSE IF q.brdec = "BEGIN" THEN 2 ELSE One(q.brdec = "EDGE")
MessageLeft(q) == 6 * One(q.rcvdBpdu) + (IF q.info = "RECEIVE" THEN 4 ELSE 5 * One(q.rcvdMsg))
LinkLeft(q) == 12 * One(q.info = "BEGIN") + One(q.infoIs = "Received") + One(q.portrec = "BEGIN")
               + 2 * One(IF q.enabled THEN q.info = "DISABLED" ELSE q.infoIs # "Disabled")
InputRank(q) == CostLeft(q) + EdgeLeft(q) + MessageLeft(q) + LinkLeft(q)
InputFields == {"pcost", "operSpeed", "usedSpeed", "enabled", "adminEdge", "brdec", "operEdge",
                "rcvdBpdu", "rcvdMsg", "info", "infoIs", "portrec"}

\* Level 2: an election.
ElectionRank(q) == One(q.reselect)

\* Level 3: what it has decided, to be taken over by the role and by the information.
OrderRank(q) == One(q.updtInfo) + One(q.role # q.selectedRole)
                + (IF q.roletrns = "BEGIN" THEN 3 ELSE One(q.roletrns = "INIT_PORT"))
OrderFields == {"updtInfo", "role", "selectedRole", "roletrns"}

\* Level 4: what the port has still to say to the others and to the neighbours; the version of
\* the protocol and the kind of link.
TalkLeft(q) == One(q.proposed) + One(~q.agree) + One(~q.proposing)
               + One(q.roletrns \in RootStates /\ ~q.forward /\ ~q.reRoot)
VersionLeft(q) ==
  LET both == One(q.rcvdRSTP /\ q.rcvdSTP)
  IN IF q.enabled
       THEN 4 * One(q.mcheck)
            + (IF q.migrate = "BEGIN" THEN 8
               ELSE IF q.migrate = "CHECKING_RSTP" THEN One(q.mdelayWhile = 0)
               ELSE IF q.migrate = "SELECTING_STP" THEN 1 ELSE 2 * both)
       ELSE IF q.migrate = "BEGIN" THEN 5
            ELSE IF q.migrate = "CHECKING_RSTP" THEN One(q.mdelayWhile # MigrateTime)
            ELSE IF q.migrate = "SELECTING_STP" THEN 3 ELSE 2 + 2 * both
DuplexLeft(q) == 2 * One(q.p2p_recompute) + One(q.p2p # "STABLE")
RequestRank(q) == TalkLeft(q) + VersionLeft(q) + DuplexLeft(q)
TalkFields == {"proposed", "agree", "proposing", "roletrns", "forward", "reRoot"}
VersionFields == {"rcvdRSTP", "rcvdSTP", "enabled", "mcheck", "migrate", "mdelayWhile"}
DuplexFields == {"p2p_recompute", "p2p"}

\* Level 5: the requests of other ports that a port has not met, and how far it is from
\* discarding, if it has to, or else from forwarding.
SyncLeft(q) == One(q.sync) + One(~q.synced) + One(q.reRoot) + One(q.disputed)
Retires(q) == (q.sync /\ ~q.synced) \/ (q.reRoot /\ q.rrWhile # 0)
StateLeft(q) ==
  IF q.role = "Root" \/ (q.role = "Designated" /\ ~Retires(q))
    THEN One(~q.learn) + One(~q.forward)
    ELSE IF q.role = "Designated" THEN One(q.learn) + One(q.forward) ELSE 0
WaitRank(q) == 3 * SyncLeft(q) + StateLeft(q)
WaitFields == {"sync", "synced", "reRoot", "disputed", "learn", "forward", "role", "rrWhile"}

\* Level 6: the machines that pass through a state, the timers to be set, the port state to be
\* reached, and the topology changes that other ports will hear of.
RoleLeft(q) ==
  One(q.roletrns \in DOMAIN Resting \cup {"DISABLE_PORT"})
  + One(\/ q.roletrns = "DISABLED_PORT" /\ q.fdWhile # MaxAge
        \/ q.roletrns = "ROOT_PORT" /\ q.rrWhile # ForwardDelay
        \/ q.roletrns = "ALTERNATE_PORT" /\ q.fdWhile # forward_del(q))
  + 2 * One(q.role = "Backup" /\ q.rbWhile # 2 * HelloTime)
FlowLeft(q) ==
  IF q.sttrans = "BEGIN" THEN 4
  ELSE IF q.sttrans = "DISCARDING" THEN One(q.learn) + One(q.learn /\ q.forward)
  ELSE IF q.sttrans = "LEARNING" THEN One(q.forward \/ ~q.learn)
  ELSE IF q.forward THEN 0 ELSE 1 + One(q.learn)
NewsLeft(q) ==
  (IF q.topoch = "NOTIFIED_TCN" THEN 1 ELSE 2 * One(q.rcvdTcn)) + One(q.rcvdTc)
  + One(/\ active(q) /\ q.forward /\ ~q.operEdge
        /\ q.topoch \in {"BEGIN", "INACTIVE", "LEARNING"})
PassLeft(q) == One(q.edgeDelayWhile # MigrateTime) + One(q.info \in Judged \cup {"UPDATE"})
WorkRank(q) == RoleLeft(q) + FlowLeft(q) + NewsLeft(q) + PassLeft(q)
RoleFields == {"roletrns", "fdWhile", "rrWhile", "sendRSTP", "role", "rbWhile"}
FlowFields == {"sttrans", "learn", "forward"}
NewsFields == {"topoch", "rcvdTcn", "rcvdTc", "role", "forward", "operEdge"}
PassFields == {"edgeDelayWhile", "info"}

\* Level 7: the topology changes heard of.
NoticeRank(q) ==
  2 * One(q.tcProp) + 2 * One(q.rcvdTcAck)
  + (IF q.topoch = "ACTIVE" THEN 2
     ELSE IF q.topoch = "LEARNING" THEN One(~q.learn)
     ELSE IF q.topoch = "INACTIVE" THEN One(q.learn) ELSE 3)
NoticeFields == {"tcProp", "rcvdTcAck", "topoch", "learn"}

\* Level 8: what is to be sent.
SendRank(q) == 2 * One(q.newInfo)
               + (IF q.transmit = "BEGIN" THEN 4
                  ELSE IF q.transmit = "IDLE" THEN 4 * One(q.helloWhen = 0) ELSE 1)

\* A rank of each level.
Rank(q, k) ==
  CASE k = 1 -> InputRank(q) [] k = 2 -> ElectionRank(q) [] k = 3 -> OrderRank(q)
    [] k = 4 -> RequestRank(q) [] k = 5 -> WaitRank(q) [] k = 6 -> WorkRank(q)
    [] k = 7 -> NoticeRank(q) [] k = 8 -> SendRank(q)

\* The port r is no higher than q up to level k, and lower at some level up to k.
NoHigher(q, r, k) == \A j \in 1 .. k : Rank(r, j) <= Rank(q, j)
Falls(q, r, k) == \E j \in 1 .. k : Rank(r, j) < Rank(q, j) /\ NoHigher(q, r, j - 1)

\* The level of a number, one by one.
LEMMA RankIs ==
  ASSUME NEW q
  PROVE  /\ Rank(q, 1) = InputRank(q) /\ Rank(q, 2) = ElectionRank(q)
         /\ Rank(q, 3) = OrderRank(q) /\ Rank(q, 4) = RequestRank(q)
         /\ Rank(q, 5) = WaitRank(q) /\ Rank(q, 6) = WorkRank(q)
         /\ Rank(q, 7) = NoticeRank(q) /\ Rank(q, 8) = SendRank(q)
BY DEF Rank

\* What is left to do is counted in small numbers.
LEMMA LeftAre ==
  ASSUME NEW q
  PROVE  /\ CostLeft(q) \in 0 .. 4 /\ EdgeLeft(q) \in 0 .. 3 /\ MessageLeft(q) \in 0 .. 11
         /\ LinkLeft(q) \in 0 .. 16
         /\ TalkLeft(q) \in 0 .. 4 /\ VersionLeft(q) \in 0 .. 12 /\ DuplexLeft(q) \in 0 .. 3
         /\ SyncLeft(q) \in 0 .. 4 /\ StateLeft(q) \in 0 .. 2
         /\ RoleLeft(q) \in 0 .. 4 /\ FlowLeft(q) \in 0 .. 4 /\ NewsLeft(q) \in 0 .. 4
         /\ PassLeft(q) \in 0 .. 2
<1>0. \A c : One(c) \in {0, 1}
  BY DEF One
<1>1. CostLeft(q) \in 0 .. 4 /\ EdgeLeft(q) \in 0 .. 3
  BY <1>0 DEF CostLeft, EdgeLeft
<1>2. MessageLeft(q) \in 0 .. 11 /\ LinkLeft(q) \in 0 .. 16
  BY <1>0 DEF MessageLeft, LinkLeft
<1>3. TalkLeft(q) \in 0 .. 4 /\ DuplexLeft(q) \in 0 .. 3
  BY <1>0 DEF TalkLeft, DuplexLeft
<1>4. VersionLeft(q) \in 0 .. 12
  BY <1>0 DEF VersionLeft
<1>5. SyncLeft(q) \in 0 .. 4 /\ StateLeft(q) \in 0 .. 2
  BY <1>0 DEF SyncLeft, StateLeft
<1>6. RoleLeft(q) \in 0 .. 4
  BY DEF RoleLeft, One
<1>7. FlowLeft(q) \in 0 .. 4
  BY <1>0 DEF FlowLeft
<1>8. NewsLeft(q) \in 0 .. 4
  BY DEF NewsLeft, One
<1>9. PassLeft(q) \in 0 .. 2
  BY <1>0 DEF PassLeft
<1> QED
  BY <1>1, <1>2, <1>3, <1>4, <1>5, <1>6, <1>7, <1>8, <1>9

\* So are the ranks.
LEMMA RanksAre ==
  ASSUME NEW q
  PROVE  /\ InputRank(q) \in 0 .. 40 /\ ElectionRank(q) \in 0 .. 40 /\ OrderRank(q) \in 0 .. 40
         /\ RequestRank(q) \in 0 .. 40 /\ WaitRank(q) \in 0 .. 40 /\ WorkRank(q) \in 0 .. 40
         /\ NoticeRank(q) \in 0 .. 40 /\ SendRank(q) \in 0 .. 40
<1>0. \A c : One(c) \in {0, 1}
  BY DEF One
<1>1. InputRank(q) \in 0 .. 40
  BY LeftAre DEF InputRank
<1>2. ElectionRank(q) \in 0 .. 40
  BY <1>0 DEF ElectionRank
<1>3. OrderRank(q) \in 0 .. 40
  BY <1>0 DEF OrderRank
<1>4. RequestRank(q) \in 0 .. 40
  BY LeftAre DEF RequestRank
<1>5. WaitRank(q) \in 0 .. 40
  BY LeftAre DEF WaitRank
<1>6. WorkRank(q) \in 0 .. 40
  BY LeftAre DEF WorkRank
<1>7. NoticeRank(q) \in 0 .. 40
  BY <1>0 DEF NoticeRank
<1>8. SendRank(q) \in 0 .. 40
  BY <1>0 DEF SendRank
<1> QED
  BY <1>1, <1>2, <1>3, <1>4, <1>5, <1>6, <1>7, <1>8

\* A port falls at the first level that tells it apart.
LEMMA FallsAt1 ==
  ASSUME NEW q, NEW r, InputRank(r) < InputRank(q)
  PROVE  \A k \in 1 .. 8 : Falls(q, r, k)
BY RankIs DEF Falls, NoHigher

\* The levels of the inputs and of the election.
Undisturbed(q, r) == InputRank(r) <= InputRank(q) /\ ElectionRank(r) <= ElectionRank(q)
\* And those of its results and of the requests.
Steady(q, r) ==
  Undisturbed(q, r) /\ OrderRank(r) <= OrderRank(q) /\ RequestRank(r) <= RequestRank(q)

\* Level 3.
LEMMA FallsAt3 ==
  ASSUME NEW q, NEW r, Undisturbed(q, r), OrderRank(r) < OrderRank(q)
  PROVE  \A k \in 3 .. 8 : Falls(q, r, k)
<1>1. Rank(r, 3) < Rank(q, 3) /\ NoHigher(q, r, 3 - 1)
  BY RankIs DEF Undisturbed, NoHigher
<1> QED
  BY <1>1 DEF Falls

\* Level 4.
LEMMA FallsAt4 ==
  ASSUME NEW q, NEW r, Undisturbed(q, r), OrderRank(r) <= OrderRank(q),
         RequestRank(r) < RequestRank(q)
  PROVE  \A k \in 4 .. 8 : Falls(q, r, k)
<1>1. Rank(r, 4) < Rank(q, 4) /\ NoHigher(q, r, 4 - 1)
  BY RankIs DEF Undisturbed, NoHigher
<1> QED
  BY <1>1 DEF Falls

\* Level 5.
LEMMA FallsAt5 ==
  ASSUME NEW q, NEW r, Steady(q, r), WaitRank(r) < WaitRank(q)
  PROVE  \A k \in 5 .. 8 : Falls(q, r, k)
<1>1. Rank(r, 5) < Rank(q, 5) /\ NoHigher(q, r, 5 - 1)
  BY RankIs DEF Steady, Undisturbed, NoHigher
<1> QED
  BY <1>1 DEF Falls

\* Level 6.
LEMMA FallsAt6 ==
  ASSUME NEW q, NEW r, Steady(q, r), WaitRank(r) <= WaitRank(q), WorkRank(r) < WorkRank(q)
  PROVE  \A k \in 6 .. 8 : Falls(q, r, k)
<1>1. Rank(r, 6) < Rank(q, 6) /\ NoHigher(q, r, 6 - 1)
  BY RankIs DEF Steady, Undisturbed, NoHigher
<1> QED
  BY <1>1 DEF Falls

\* Level 7.
LEMMA FallsAt7 ==
  ASSUME NEW q, NEW r, Steady(q, r), WaitRank(r) <= WaitRank(q), WorkRank(r) <= WorkRank(q),
         NoticeRank(r) < NoticeRank(q)
  PROVE  \A k \in 7 .. 8 : Falls(q, r, k)
<1>1. Rank(r, 7) < Rank(q, 7) /\ NoHigher(q, r, 7 - 1)
  BY RankIs DEF Steady, Undisturbed, NoHigher
<1> QED
  BY <1>1 DEF Falls

\* Level 8.
LEMMA FallsAt8 ==
  ASSUME NEW q, NEW r, Steady(q, r), WaitRank(r) <= WaitRank(q), WorkRank(r) <= WorkRank(q),
         NoticeRank(r) <= NoticeRank(q), SendRank(r) < SendRank(q)
  PROVE  Falls(q, r, 8)
<1>1. Rank(r, 8) < Rank(q, 8) /\ NoHigher(q, r, 8 - 1)
  BY RankIs DEF Steady, Undisturbed, NoHigher
<1> QED
  BY <1>1 DEF Falls

-----------------------------------------------------------------------------
(* What a machine does not write leaves the ranks that do not depend on it alone.          *)
Alike(q, r, F) == \A f \in F : r[f] = q[f]

\* Level by level, and part by part.
LEMMA InputAlike ==
  ASSUME NEW q, NEW r, Alike(q, r, InputFields)
  PROVE  InputRank(r) = InputRank(q)
<1>1. /\ r.pcost = q.pcost /\ r.operSpeed = q.operSpeed /\ r.usedSpeed = q.usedSpeed
      /\ r.enabled = q.enabled /\ r.adminEdge = q.adminEdge /\ r.brdec = q.brdec
      /\ r.operEdge = q.operEdge /\ r.rcvdBpdu = q.rcvdBpdu /\ r.rcvdMsg = q.rcvdMsg
      /\ r.info = q.info /\ r.infoIs = q.infoIs /\ r.portrec = q.portrec
  BY DEF Alike, InputFields
<1> QED
  BY <1>1 DEF InputRank, CostLeft, EdgeLeft, MessageLeft, LinkLeft

\* What an election has decided: one that its fields determine.
LEMMA OrderAlike ==
  ASSUME NEW q, NEW r, Alike(q, r, OrderFields)
  PROVE  OrderRank(r) = OrderRank(q)
<1>1. /\ r.updtInfo = q.updtInfo /\ r.role = q.role /\ r.selectedRole = q.selectedRole
      /\ r.roletrns = q.roletrns
  BY DEF Alike, OrderFields
<1> QED
  BY <1>1 DEF OrderRank

\* What is still to be said.
LEMMA TalkAlike ==
  ASSUME NEW q, NEW r, Alike(q, r, TalkFields)
  PROVE  TalkLeft(r) = TalkLeft(q)
<1>1. /\ r.proposed = q.proposed /\ r.agree = q.agree /\ r.proposing = q.proposing
      /\ r.roletrns = q.roletrns /\ r.forward = q.forward /\ r.reRoot = q.reRoot
  BY DEF Alike, TalkFields
<1> QED
  BY <1>1 DEF TalkLeft

\* What is left of the change of version.
LEMMA VersionAlike ==
  ASSUME NEW q, NEW r, Alike(q, r, VersionFields)
  PROVE  VersionLeft(r) = VersionLeft(q)
<1>1. /\ r.rcvdRSTP = q.rcvdRSTP /\ r.rcvdSTP = q.rcvdSTP /\ r.enabled = q.enabled
      /\ r.mcheck = q.mcheck /\ r.migrate = q.migrate /\ r.mdelayWhile = q.mdelayWhile
  BY DEF Alike, VersionFields
<1> QED
  BY <1>1 DEF VersionLeft

\* What is left to find out about the kind of link.
LEMMA DuplexAlike ==
  ASSUME NEW q, NEW r, Alike(q, r, DuplexFields)
  PROVE  DuplexLeft(r) = DuplexLeft(q)
<1>1. /\ r.p2p_recompute = q.p2p_recompute /\ r.p2p = q.p2p
  BY DEF Alike, DuplexFields
<1> QED
  BY <1>1 DEF DuplexLeft

\* The rank of the fifth level.
LEMMA WaitAlike ==
  ASSUME NEW q, NEW r, Alike(q, r, WaitFields)
  PROVE  WaitRank(r) = WaitRank(q)
<1>1. /\ r.sync = q.sync /\ r.synced = q.synced /\ r.reRoot = q.reRoot
      /\ r.disputed = q.disputed /\ r.learn = q.learn /\ r.forward = q.forward
      /\ r.role = q.role /\ r.rrWhile = q.rrWhile
  BY DEF Alike, WaitFields
<1> QED
  BY <1>1 DEF WaitRank, SyncLeft, StateLeft, Retires

\* What the role machine has left.
LEMMA RoleAlike ==
  ASSUME NEW q, NEW r, Alike(q, r, RoleFields)
  PROVE  RoleLeft(r) = RoleLeft(q)
<1>1. /\ r.roletrns = q.roletrns /\ r.fdWhile = q.fdWhile /\ r.rrWhile = q.rrWhile
      /\ r.sendRSTP = q.sendRSTP /\ r.role = q.role /\ r.rbWhile = q.rbWhile
  BY DEF Alike, RoleFields
<1> QED
  BY <1>1 DEF RoleLeft, forward_del

\* What the state machine has left.
LEMMA FlowAlike ==
  ASSUME NEW q, NEW r, Alike(q, r, FlowFields)
  PROVE  FlowLeft(r) = FlowLeft(q)
<1>1. /\ r.sttrans = q.sttrans /\ r.learn = q.learn /\ r.forward = q.forward
  BY DEF Alike, FlowFields
<1> QED
  BY <1>1 DEF FlowLeft

\* The topology changes others will hear of.
LEMMA NewsAlike ==
  ASSUME NEW q, NEW r, Alike(q, r, NewsFields)
  PROVE  NewsLeft(r) = NewsLeft(q)
<1>1. /\ r.topoch = q.topoch /\ r.rcvdTcn = q.rcvdTcn /\ r.rcvdTc = q.rcvdTc
      /\ r.role = q.role /\ r.forward = q.forward /\ r.operEdge = q.operEdge
  BY DEF Alike, NewsFields
<1> QED
  BY <1>1 DEF NewsLeft, active

\* The states passed through.
LEMMA PassAlike ==
  ASSUME NEW q, NEW r, Alike(q, r, PassFields)
  PROVE  PassLeft(r) = PassLeft(q)
<1>1. /\ r.edgeDelayWhile = q.edgeDelayWhile /\ r.info = q.info
  BY DEF Alike, PassFields
<1> QED
  BY <1>1 DEF PassLeft

\* The rank of the seventh level.
LEMMA NoticeAlike ==
  ASSUME NEW q, NEW r, Alike(q, r, NoticeFields)
  PROVE  NoticeRank(r) = NoticeRank(q)
<1>1. /\ r.tcProp = q.tcProp /\ r.rcvdTcAck = q.rcvdTcAck /\ r.topoch = q.topoch
      /\ r.learn = q.learn
  BY DEF Alike, NoticeFields
<1> QED
  BY <1>1 DEF NoticeRank

\* The first two levels, and the first four.
LEMMA UndisturbedAlike ==
  ASSUME NEW q, NEW r, Alike(q, r, InputFields), r.reselect = q.reselect
  PROVE  Undisturbed(q, r)
BY InputAlike, RanksAre DEF Undisturbed, ElectionRank

\* The first four levels, field by field.
LEMMA SteadyAlike ==
  ASSUME NEW q, NEW r, Alike(q, r, InputFields), r.reselect = q.reselect,
         Alike(q, r, OrderFields), Alike(q, r, TalkFields), Alike(q, r, VersionFields),
         Alike(q, r, DuplexFields)
  PROVE  Steady(q, r)
<1>1. RequestRank(r) = RequestRank(q)
  BY TalkAlike, VersionAlike, DuplexAlike DEF RequestRank
<1> QED
  BY <1>1, UndisturbedAlike, OrderAlike, RanksAre DEF Steady


-----------------------------------------------------------------------------
(* What a hop of each machine does to the ranks of its port.                               *)

\* Parts of a level.
LEMMA InputFalls ==
  ASSUME NEW q, NEW r,
         CostLeft(r) + EdgeLeft(r) + MessageLeft(r) + LinkLeft(r)
           < CostLeft(q) + EdgeLeft(q) + MessageLeft(q) + LinkLeft(q)
  PROVE  Falls(q, r, 8)
BY FallsAt1 DEF InputRank

\* Bridge detection.
LEMMA BrdecFalls ==
  ASSUME NEW q, NEW p, NEW K, PortOK(q, p, K), NEW s, s = brdecHop(q), s # Stay
  PROVE  Falls(q, brdecEnter([q EXCEPT !.brdec = s]), 8)
<1> DEFINE r == brdecEnter([q EXCEPT !.brdec = s])
<1>1. r = [q EXCEPT !.brdec = s, !.operEdge = (s = "EDGE")]
  BY IsField DEF brdecEnter, PortOK, r
<1> HIDE DEF r
<1>2. /\ r.brdec = s /\ (s = "EDGE" <=> r.operEdge) /\ r.adminEdge = q.adminEdge
      /\ r.enabled = q.enabled
  BY <1>1, IsField DEF PortOK
<1>3. CostLeft(r) = CostLeft(q) /\ MessageLeft(r) = MessageLeft(q) /\ LinkLeft(r) = LinkLeft(q)
  BY <1>1, IsField DEF PortOK, CostLeft, MessageLeft, LinkLeft
<1>4. q.brdec \in {"BEGIN", "EDGE", "NOT_EDGE"}
  BY DEF PortOK, StatesOK
<1>5. EdgeLeft(r) < EdgeLeft(q)
  BY <1>2, <1>4 DEF EdgeLeft, One, brdecHop, When, Stay
<1>6. Falls(q, r, 8)
  BY <1>3, <1>5, LeftAre, InputFalls
<1> QED
  BY <1>6 DEF r

\* Port receive: a message is passed on or thrown away.
LEMMA PortrecFalls ==
  ASSUME NEW q, NEW p, NEW K, PortOK(q, p, K), NEW s, s = portrecHop(q), s # Stay
  PROVE  Falls(q, portrecEnter([q EXCEPT !.portrec = s]), 8)
<1> DEFINE r == portrecEnter([q EXCEPT !.portrec = s])
<1> SUFFICES Falls(q, r, 8)
  BY DEF r
<1>1. s \in {"DISCARD", "RECEIVE"}
  BY DEF portrecHop, When
<1>2. CASE s = "RECEIVE"
  <2>1. r = [q EXCEPT !.portrec = s, !.rcvdSTP = @ \/ q.msg.type # "rstp",
                      !.rcvdRSTP = @ \/ q.msg.type = "rstp",
                      !.operEdge = FALSE, !.rcvdBpdu = FALSE, !.rcvdMsg = TRUE,
                      !.edgeDelayWhile = MigrateTime]
    BY <1>2, IsField DEF portrecEnter, PortOK, r
  <2>2. /\ q.rcvdBpdu /\ (q.portrec = "RECEIVE" => ~q.rcvdMsg) /\ q.portrec # "BEGIN" /\ q.enabled
    BY <1>2 DEF portrecHop, When, Stay
  <2> HIDE DEF r
  <2>3. /\ r.portrec = s /\ ~r.operEdge /\ ~r.rcvdBpdu /\ r.rcvdMsg /\ r.enabled = q.enabled
        /\ r.adminEdge = q.adminEdge /\ r.brdec = q.brdec /\ r.info = q.info
        /\ r.infoIs = q.infoIs
    BY <2>1, IsField DEF PortOK
  <2>4. CostLeft(r) = CostLeft(q)
    BY <2>1, IsField DEF PortOK, CostLeft
  <2>5. EdgeLeft(r) = EdgeLeft(q)
    BY <2>2, <2>3 DEF EdgeLeft
  <2>6. LinkLeft(r) = LinkLeft(q)
    BY <1>2, <2>2, <2>3 DEF LinkLeft, One
  <2>7. MessageLeft(r) < MessageLeft(q)
    BY <1>2, <2>2, <2>3 DEF MessageLeft, One
  <2> QED
    BY <2>4, <2>5, <2>6, <2>7, LeftAre, InputFalls
<1>3. CASE s = "DISCARD"
  <2>1. r = [q EXCEPT !.portrec = s, !.rcvdBpdu = FALSE, !.rcvdRSTP = FALSE, !.rcvdSTP = FALSE,
                      !.rcvdMsg = FALSE, !.msg = NoMsg, !.edgeDelayWhile = MigrateTime]
    BY <1>3, IsField DEF portrecEnter, PortOK, r
  <2> HIDE DEF r
  <2>2. /\ r.portrec = s /\ ~r.rcvdBpdu /\ ~r.rcvdMsg /\ r.enabled = q.enabled
        /\ r.info = q.info /\ r.infoIs = q.infoIs /\ ~r.rcvdRSTP /\ ~r.rcvdSTP
        /\ r.edgeDelayWhile = MigrateTime /\ r.mcheck = q.mcheck /\ r.migrate = q.migrate
        /\ r.mdelayWhile = q.mdelayWhile /\ r.reselect = q.reselect
    BY <2>1, IsField DEF PortOK
  <2>3. CostLeft(r) = CostLeft(q) /\ EdgeLeft(r) = EdgeLeft(q)
    BY <2>1, IsField DEF PortOK, CostLeft, EdgeLeft
  <2>4. MessageLeft(r) <= MessageLeft(q) /\ (q.rcvdBpdu => MessageLeft(r) < MessageLeft(q))
    BY <2>2 DEF MessageLeft, One
  <2>5. LinkLeft(r) <= LinkLeft(q) /\ (q.portrec = "BEGIN" => LinkLeft(r) < LinkLeft(q))
    <3> DEFINE a == One(q.infoIs = "Received")
               e == One(IF q.enabled THEN q.info = "DISABLED" ELSE q.infoIs # "Disabled")
               f == One(q.info = "BEGIN")
    <3>1. LinkLeft(q) = 12 * f + a + One(q.portrec = "BEGIN") + 2 * e
      BY DEF LinkLeft
    <3>2. LinkLeft(r) = 12 * f + a + One(r.portrec = "BEGIN") + 2 * e
      BY <2>2 DEF LinkLeft
    <3>3. a \in 0 .. 1 /\ e \in 0 .. 1 /\ f \in 0 .. 1
      BY DEF One
    <3>4. One(r.portrec = "BEGIN") = 0
      BY <2>2, <1>3 DEF One
    <3>5. /\ One(q.portrec = "BEGIN") \in 0 .. 1
          /\ q.portrec = "BEGIN" => One(q.portrec = "BEGIN") = 1
      BY DEF One
    <3> HIDE DEF a, e, f
    <3> QED
      BY <3>1, <3>2, <3>3, <3>4, <3>5
  <2>6. CASE q.rcvdBpdu \/ q.portrec = "BEGIN"
    BY <2>3, <2>4, <2>5, <2>6, LeftAre, InputFalls
  <2>7. CASE ~(q.rcvdBpdu \/ q.portrec = "BEGIN")
    <3>1. q.edgeDelayWhile # MigrateTime
      BY <2>7, <1>3 DEF portrecHop, When, Stay
    <3>2. InputRank(r) <= InputRank(q)
      BY <2>3, <2>4, <2>5, LeftAre DEF InputRank
    <3>3. Undisturbed(q, r)
      BY <3>2, <2>2, RanksAre DEF Undisturbed, ElectionRank
    <3>4. OrderRank(r) = OrderRank(q) /\ TalkLeft(r) = TalkLeft(q) /\ DuplexLeft(r) = DuplexLeft(q)
      BY <2>1, IsField DEF PortOK, OrderRank, TalkLeft, DuplexLeft
    <3>5. VersionLeft(r) <= VersionLeft(q)
      BY <2>2 DEF VersionLeft, One
    <3>6. RequestRank(r) <= RequestRank(q)
      BY <3>4, <3>5, LeftAre DEF RequestRank
    <3>7. WaitRank(r) = WaitRank(q)
      <4>1. Alike(q, r, WaitFields)
        BY <2>1, IsField DEF PortOK, Alike, WaitFields
      <4> QED
        BY <4>1, WaitAlike
    <3>8. WorkRank(r) < WorkRank(q)
      <4>1. Alike(q, r, RoleFields) /\ Alike(q, r, FlowFields) /\ Alike(q, r, NewsFields)
        BY <2>1, IsField DEF PortOK, Alike, RoleFields, FlowFields, NewsFields
      <4>2. PassLeft(r) < PassLeft(q)
        BY <2>2, <3>1 DEF PassLeft, One
      <4> QED
        BY <4>1, <4>2, RoleAlike, FlowAlike, NewsAlike, LeftAre DEF WorkRank
    <3>9. Steady(q, r)
      BY <3>3, <3>4, <3>6, RanksAre DEF Steady
    <3> QED
      BY <3>7, <3>8, <3>9, RanksAre, FallsAt6
  <2> QED
    BY <2>6, <2>7
<1> QED
  BY <1>1, <1>2, <1>3


\* The levels before that of the work, for a hop that leaves them alone.
LEMMA SteadyFalls ==
  ASSUME NEW q, NEW r, Alike(q, r, InputFields), r.reselect = q.reselect,
         Alike(q, r, OrderFields), Alike(q, r, TalkFields), Alike(q, r, VersionFields),
         Alike(q, r, DuplexFields), Alike(q, r, WaitFields)
  PROVE  /\ Steady(q, r) /\ WaitRank(r) = WaitRank(q)
         /\ WorkRank(r) < WorkRank(q) => \A k \in 6 .. 8 : Falls(q, r, k)
<1>1. Steady(q, r)
  BY SteadyAlike
<1>2. WaitRank(r) = WaitRank(q)
  BY WaitAlike
<1> QED
  BY <1>1, <1>2, RanksAre, FallsAt6

\* Port state transition.
LEMMA SttransFalls ==
  ASSUME NEW q, NEW p, NEW K, PortOK(q, p, K), NEW s, s = sttransHop(q), s # Stay
  PROVE  Falls(q, sttransEnter([q EXCEPT !.sttrans = s]), 8)
<1> DEFINE r == sttransEnter([q EXCEPT !.sttrans = s])
<1> SUFFICES Falls(q, r, 8)
  BY DEF r
<1>0. /\ q.sttrans \in {"BEGIN", "DISCARDING", "LEARNING", "FORWARDING"}
      /\ DOMAIN q = Fields
  BY DEF PortOK, StatesOK
<1>1. r = [q EXCEPT !.sttrans = s, !.learning = (s # "DISCARDING"),
                    !.forwarding = (s = "FORWARDING")]
  BY IsField DEF sttransEnter, PortOK, r
<1> HIDE DEF r
<1>2. r.sttrans = s /\ r.learn = q.learn /\ r.forward = q.forward
  BY <1>0, <1>1, IsField
<1>3. /\ Alike(q, r, InputFields) /\ Alike(q, r, OrderFields) /\ Alike(q, r, TalkFields)
      /\ r.reselect = q.reselect
  BY <1>0, <1>1, IsField DEF Alike, InputFields, OrderFields, TalkFields
<1>4. Alike(q, r, VersionFields) /\ Alike(q, r, DuplexFields) /\ Alike(q, r, WaitFields)
  BY <1>0, <1>1, IsField DEF Alike, VersionFields, DuplexFields, WaitFields
<1>5. Alike(q, r, RoleFields) /\ Alike(q, r, NewsFields) /\ Alike(q, r, PassFields)
  BY <1>0, <1>1, IsField DEF Alike, RoleFields, NewsFields, PassFields
<1>6. FlowLeft(r) < FlowLeft(q)
  BY <1>0, <1>2 DEF FlowLeft, One, sttransHop, When, Stay
<1>7. WorkRank(r) < WorkRank(q)
  BY <1>5, <1>6, RoleAlike, NewsAlike, PassAlike, LeftAre DEF WorkRank
<1> QED
  BY <1>3, <1>4, <1>7, SteadyFalls

\* Port protocol migration.
LEMMA MigrateFalls ==
  ASSUME NEW q, NEW p, NEW K, PortOK(q, p, K), NEW s, s = migrateHop(q), s # Stay
  PROVE  Falls(q, migrateEnter([q EXCEPT !.migrate = s]), 8)
<1> DEFINE r == migrateEnter([q EXCEPT !.migrate = s])
           Others == {"p2p_recompute", "p2p", "reselect"} \cup InputFields \cup OrderFields
                     \cup TalkFields
<1> SUFFICES Falls(q, r, 8)
  BY DEF r
<1>0. /\ q.migrate \in {"BEGIN", "CHECKING_RSTP", "SELECTING_STP", "SENSING"}
      /\ DOMAIN q = Fields /\ s \in {"CHECKING_RSTP", "SELECTING_STP", "SENSING"}
  BY DEF PortOK, StatesOK, migrateHop, When
<1>1. /\ r.migrate = s /\ r.enabled = q.enabled
      /\ s = "CHECKING_RSTP" => /\ ~r.mcheck /\ r.mdelayWhile = MigrateTime
                                /\ r.rcvdRSTP = q.rcvdRSTP /\ r.rcvdSTP = q.rcvdSTP
      /\ s = "SELECTING_STP" => /\ r.mcheck = q.mcheck /\ r.mdelayWhile = MigrateTime
                                /\ r.rcvdRSTP = q.rcvdRSTP /\ r.rcvdSTP = q.rcvdSTP
      /\ s = "SENSING" => /\ r.mcheck = q.mcheck /\ r.mdelayWhile = q.mdelayWhile
                          /\ ~r.rcvdRSTP /\ ~r.rcvdSTP
  BY <1>0, IsField DEF migrateEnter, r
<1>2. Alike(q, r, Others)
  BY <1>0, IsField
     DEF migrateEnter, r, Alike, Others, InputFields, OrderFields, TalkFields
<1> HIDE DEF r
<1>3. VersionLeft(r) < VersionLeft(q)
  <2>1. MigrateTime # 0
    BY DEF MigrateTime
  <2> QED
    BY <1>0, <1>1, <2>1 DEF VersionLeft, One, migrateHop, When, Stay
<1>4. /\ Alike(q, r, InputFields) /\ Alike(q, r, OrderFields) /\ Alike(q, r, TalkFields)
      /\ Alike(q, r, DuplexFields) /\ r.reselect = q.reselect
  BY <1>2 DEF Alike, DuplexFields
<1>5. RequestRank(r) < RequestRank(q)
  BY <1>3, <1>4, TalkAlike, DuplexAlike, LeftAre DEF RequestRank
<1>6. Undisturbed(q, r) /\ OrderRank(r) = OrderRank(q)
  BY <1>4, UndisturbedAlike, OrderAlike
<1> QED
  BY <1>5, <1>6, RanksAre, FallsAt4

\* Point-to-point.
LEMMA P2pFalls ==
  ASSUME NEW q, NEW p, NEW K, PortOK(q, p, K), NEW s, s = p2pHop(q), s # Stay
  PROVE  Falls(q, p2pEnter([q EXCEPT !.p2p = s]), 8)
<1> DEFINE r == p2pEnter([q EXCEPT !.p2p = s])
           Others == {"reselect"} \cup VersionFields \cup InputFields \cup OrderFields
                     \cup TalkFields
<1> SUFFICES Falls(q, r, 8)
  BY DEF r
<1>0. DOMAIN q = Fields /\ s \in {"STABLE", "RECOMPUTE"}
  BY DEF PortOK, p2pHop, When
<1>1. /\ r.p2p = s
      /\ s = "RECOMPUTE" => ~r.p2p_recompute
      /\ s = "STABLE" => r.p2p_recompute = q.p2p_recompute
  BY <1>0, IsField DEF p2pEnter, r
<1>2. Alike(q, r, Others)
  BY <1>0, IsField
     DEF p2pEnter, r, Alike, Others, InputFields, OrderFields, TalkFields, VersionFields
<1> HIDE DEF r
<1>3. DuplexLeft(r) < DuplexLeft(q)
  BY <1>0, <1>1 DEF DuplexLeft, One, p2pHop, When, Stay
<1>4. /\ Alike(q, r, InputFields) /\ Alike(q, r, OrderFields) /\ Alike(q, r, TalkFields)
      /\ Alike(q, r, VersionFields) /\ r.reselect = q.reselect
  BY <1>2 DEF Alike
<1>5. RequestRank(r) < RequestRank(q)
  BY <1>3, <1>4, TalkAlike, VersionAlike, LeftAre DEF RequestRank
<1>6. Undisturbed(q, r) /\ OrderRank(r) = OrderRank(q)
  BY <1>4, UndisturbedAlike, OrderAlike
<1> QED
  BY <1>5, <1>6, RanksAre, FallsAt4

\* Path cost.
LEMMA PcostFalls ==
  ASSUME NEW q, NEW p, NEW K, PortOK(q, p, K), NEW s, s = pcostHop(q), s # Stay
  PROVE  Falls(q, pcostEnter([q EXCEPT !.pcost = s]), 8)
<1> DEFINE r == pcostEnter([q EXCEPT !.pcost = s])
<1> SUFFICES Falls(q, r, 8)
  BY DEF r
<1>0. /\ DOMAIN q = Fields /\ q.pcost \in {"BEGIN", "AUTO", "STABLE"}
      /\ s \in {"AUTO", "STABLE"}
  BY DEF PortOK, StatesOK, pcostHop, When
<1>1. /\ r.pcost = s /\ r.operSpeed = q.operSpeed
      /\ s = "AUTO" => r.usedSpeed = q.operSpeed
      /\ s = "STABLE" => r.usedSpeed = q.usedSpeed
  BY <1>0, IsField DEF pcostEnter, r
<1>2. Alike(q, r, InputFields \ {"pcost", "usedSpeed"})
  BY <1>0, IsField DEF pcostEnter, r, Alike, InputFields
<1> HIDE DEF r
<1>3. /\ r.enabled = q.enabled /\ r.adminEdge = q.adminEdge /\ r.brdec = q.brdec
      /\ r.operEdge = q.operEdge /\ r.rcvdBpdu = q.rcvdBpdu /\ r.rcvdMsg = q.rcvdMsg
      /\ r.info = q.info /\ r.infoIs = q.infoIs /\ r.portrec = q.portrec
  BY <1>2 DEF Alike, InputFields
<1>4. EdgeLeft(r) = EdgeLeft(q) /\ MessageLeft(r) = MessageLeft(q) /\ LinkLeft(r) = LinkLeft(q)
  BY <1>3 DEF EdgeLeft, MessageLeft, LinkLeft
<1>5. CostLeft(r) < CostLeft(q)
  BY <1>0, <1>1 DEF CostLeft, One, pcostHop, When, Stay
<1> QED
  BY <1>4, <1>5, LeftAre, InputFalls


\* What the information machine writes, as far as the first level goes.
InfoWritten == {"info", "infoIs", "rcvdMsg"}

\* A message that has been judged is gone.
LEMMA JudgedIs ==
  ASSUME NEW q, DOMAIN q = Fields, NEW s \in Judged, NEW d, NEW age
  PROVE  LET r == infoEnter([q EXCEPT !.info = s], d, age)
         IN /\ r.info = s /\ ~r.rcvdMsg /\ r.infoIs \in {q.infoIs, "Received"}
            /\ Alike(q, r, InputFields \ InfoWritten)
<1> DEFINE y == [q EXCEPT !.info = s]
           z == setTcFlags(y)
           r == infoEnter(y, d, age)
<1> SUFFICES /\ r.info = s /\ ~r.rcvdMsg /\ r.infoIs \in {q.infoIs, "Received"}
             /\ Alike(q, r, InputFields \ InfoWritten)
  OBVIOUS
<1>1. DOMAIN y = Fields /\ y.info = s /\ y.infoIs = q.infoIs
      /\ Alike(q, y, InputFields \ InfoWritten)
  BY IsField DEF Alike, InputFields, InfoWritten
<1> HIDE DEF y
<1>2. DOMAIN z = Fields /\ z.info = s /\ z.infoIs = q.infoIs
      /\ Alike(q, z, InputFields \ InfoWritten)
  BY <1>1, IsField DEF setTcFlags, Alike, InputFields, InfoWritten
<1> HIDE DEF z
<1>3. ASSUME NEW x, DOMAIN x = Fields, x.info = s, x.infoIs \in {q.infoIs, "Received"},
             Alike(q, x, InputFields \ InfoWritten),
             NEW w, w = [x EXCEPT !.rcvdMsg = FALSE, !.msg = NoMsg]
      PROVE  /\ w.info = s /\ ~w.rcvdMsg /\ w.infoIs \in {q.infoIs, "Received"}
             /\ Alike(q, w, InputFields \ InfoWritten)
  BY <1>3, IsField DEF Alike, InputFields, InfoWritten
<1>4. CASE s = "SUPERIOR_DESIGNATED"
  <2> DEFINE x == superiorDesignated(y)
  <2>1. r = [x EXCEPT !.rcvdMsg = FALSE, !.msg = NoMsg]
    BY <1>1, <1>4 DEF infoEnter
  <2>2. /\ DOMAIN x = Fields /\ x.info = s /\ x.infoIs = "Received"
        /\ Alike(q, x, InputFields \ InfoWritten)
    BY <1>2, IsField DEF superiorDesignated, z, Alike, InputFields, InfoWritten
  <2> HIDE DEF x, r
  <2> QED
    BY <2>1, <2>2, <1>3
<1>5. CASE s = "REPEATED_DESIGNATED"
  <2> DEFINE x == [z EXCEPT !.rcvdInfoWhile = 3 * HelloTime]
  <2>1. r = [x EXCEPT !.rcvdMsg = FALSE, !.msg = NoMsg]
    BY <1>1, <1>5 DEF infoEnter, z
  <2>2. /\ DOMAIN x = Fields /\ x.info = s /\ x.infoIs = q.infoIs
        /\ Alike(q, x, InputFields \ InfoWritten)
    BY <1>2, IsField DEF Alike, InputFields, InfoWritten
  <2> HIDE DEF x, r
  <2> QED
    BY <2>1, <2>2, <1>3
<1>6. CASE s = "INFERIOR_DESIGNATED"
  <2> DEFINE x == inferiorDesignated(y)
  <2>1. r = [x EXCEPT !.rcvdMsg = FALSE, !.msg = NoMsg]
    BY <1>1, <1>6 DEF infoEnter
  <2>2. /\ DOMAIN x = Fields /\ x.info = s /\ x.infoIs = q.infoIs
        /\ Alike(q, x, InputFields \ InfoWritten)
    BY <1>1, IsField DEF inferiorDesignated, Alike, InputFields, InfoWritten
  <2> HIDE DEF x, r
  <2> QED
    BY <2>1, <2>2, <1>3
<1>7. CASE s = "NOT_DESIGNATED"
  <2> DEFINE x == notDesignated(y)
  <2>1. r = [x EXCEPT !.rcvdMsg = FALSE, !.msg = NoMsg]
    BY <1>1, <1>7 DEF infoEnter
  <2>2. /\ DOMAIN x = Fields /\ x.info = s /\ x.infoIs = q.infoIs
        /\ Alike(q, x, InputFields \ InfoWritten)
    BY <1>2, IsField DEF notDesignated, z, Alike, InputFields, InfoWritten
  <2> HIDE DEF x, r
  <2> QED
    BY <2>1, <2>2, <1>3
<1>8. CASE s = "OTHER"
  <2>1. r = [y EXCEPT !.rcvdMsg = FALSE, !.msg = NoMsg]
    BY <1>1, <1>8 DEF infoEnter
  <2> QED
    BY <2>1, <1>1, <1>3
<1> QED
  BY <1>4, <1>5, <1>6, <1>7, <1>8 DEF Judged


\* Where the information machine goes, and from where.
LEMMA InfoHopIs ==
  ASSUME NEW q, NEW p, NEW K, PortOK(q, p, K), NEW s, s = infoHop(q), s # Stay
  PROVE  \/ /\ s = "DISABLED"
            /\ \/ q.info = "BEGIN" \/ (~q.enabled /\ q.infoIs # "Disabled")
               \/ q.info = "DISABLED" /\ q.rcvdMsg
         \/ /\ s = "AGED"
            /\ \/ q.info = "DISABLED" /\ q.enabled /\ ~q.rcvdMsg
               \/ q.info = "CURRENT" /\ q.infoIs = "Received" /\ ~q.rcvdMsg
         \/ s = "UPDATE" /\ q.info \in {"AGED", "CURRENT"} /\ q.selected /\ q.updtInfo
         \/ s = "RECEIVE" /\ q.info = "CURRENT" /\ q.rcvdMsg
         \/ s \in Judged /\ q.info = "RECEIVE"
         \/ s = "CURRENT" /\ q.info \in Judged \cup {"UPDATE"}
<1>1. q.info \in InfoStates /\ (q.info \in {"BEGIN", "DISABLED"} <=> q.infoIs = "Disabled")
  BY DEF PortOK, InfoOK
<1>2. CASE q.info = "BEGIN" \/ (~q.enabled /\ q.infoIs # "Disabled")
  BY <1>2 DEF infoHop
<1> DEFINE on == ~(q.info = "BEGIN" \/ (~q.enabled /\ q.infoIs # "Disabled"))
<1>3. CASE on /\ q.info = "DISABLED"
  BY <1>3 DEF infoHop, When
<1>4. CASE on /\ q.info = "AGED"
  BY <1>4 DEF infoHop, When
<1>5. CASE on /\ q.info = "CURRENT"
  BY <1>5 DEF infoHop, When, expired
<1>6. CASE on /\ q.info = "RECEIVE"
  <2>1. s = rcvInfo(q)
    BY <1>6 DEF infoHop
  <2> QED
    BY <1>6, <2>1, RcvInfo
<1>7. CASE on /\ q.info \in Judged \cup {"UPDATE"}
  BY <1>7 DEF infoHop, Judged
<1> QED
  BY <1>1, <1>2, <1>3, <1>4, <1>5, <1>6, <1>7 DEF InfoStates, Judged

\* Port information.
LEMMA InfoFalls ==
  ASSUME NEW q, NEW p, NEW K, PortOK(q, p, K), NEW s, s = infoHop(q), s # Stay,
         NEW d, NEW age
  PROVE  Falls(q, infoEnter([q EXCEPT !.info = s], d, age), 8)
<1> DEFINE r == infoEnter([q EXCEPT !.info = s], d, age)
<1> SUFFICES Falls(q, r, 8)
  BY DEF r
<1>0. /\ DOMAIN q = Fields /\ q.info \in InfoStates
      /\ q.info \in {"BEGIN", "DISABLED"} <=> q.infoIs = "Disabled"
      /\ q.infoIs \in {"Disabled", "Aged", "Mine", "Received"}
  BY DEF PortOK, InfoOK
<1>part. ASSUME Alike(q, r, InputFields \ InfoWritten),
                MessageLeft(r) + LinkLeft(r) < MessageLeft(q) + LinkLeft(q)
         PROVE  Falls(q, r, 8)
  <2> HIDE DEF r
  <2>1. /\ r.pcost = q.pcost /\ r.operSpeed = q.operSpeed /\ r.usedSpeed = q.usedSpeed
        /\ r.enabled = q.enabled /\ r.adminEdge = q.adminEdge /\ r.brdec = q.brdec
        /\ r.operEdge = q.operEdge
    BY <1>part DEF Alike, InputFields, InfoWritten
  <2>2. CostLeft(r) = CostLeft(q) /\ EdgeLeft(r) = EdgeLeft(q)
    BY <2>1 DEF CostLeft, EdgeLeft
  <2> QED
    BY <1>part, <2>2, LeftAre, InputFalls
<1>same. ASSUME Alike(q, r, InputFields \ InfoWritten)
         PROVE  /\ r.rcvdBpdu = q.rcvdBpdu /\ r.enabled = q.enabled /\ r.portrec = q.portrec
  BY <1>same DEF Alike, InputFields, InfoWritten
<1>1. CASE s = "DISABLED"
  <2>1. Alike(q, r, InputFields \ InfoWritten)
    BY <1>0, <1>1, IsField DEF infoEnter, r, Alike, InputFields, InfoWritten
  <2>2. r.info = "DISABLED" /\ r.infoIs = "Disabled" /\ ~r.rcvdMsg
    BY <1>0, <1>1, IsField DEF infoEnter, r
  <2>3. /\ r.rcvdBpdu = q.rcvdBpdu /\ r.enabled = q.enabled /\ r.portrec = q.portrec
    BY <2>1, <1>same
  <2>4. \/ q.info = "BEGIN" \/ (~q.enabled /\ q.infoIs # "Disabled")
        \/ q.info = "DISABLED" /\ q.rcvdMsg
    BY <1>1, InfoHopIs DEF Judged
  <2> HIDE DEF r
  <2>5. MessageLeft(r) <= MessageLeft(q)
        /\ (q.info = "DISABLED" /\ q.rcvdMsg => MessageLeft(r) < MessageLeft(q))
    BY <2>2, <2>3 DEF MessageLeft, One
  <2>6. /\ LinkLeft(r) <= LinkLeft(q)
        /\ q.info = "BEGIN" \/ (~q.enabled /\ q.infoIs # "Disabled") => LinkLeft(r) < LinkLeft(q)
    <3>1. LinkLeft(r) = One(q.portrec = "BEGIN") + 2 * One(q.enabled)
      BY <2>2, <2>3 DEF LinkLeft, One
    <3>2. One(q.portrec = "BEGIN") \in 0 .. 1
      BY DEF One
    <3>3. CASE q.info = "BEGIN"
      BY <1>0, <3>1, <3>2, <3>3 DEF LinkLeft, One
    <3>4. CASE q.info # "BEGIN" /\ ~q.enabled /\ q.infoIs # "Disabled"
      BY <1>0, <3>1, <3>2, <3>4 DEF LinkLeft, One
    <3>5. CASE q.info = "DISABLED"
      BY <1>0, <3>1, <3>2, <3>5 DEF LinkLeft, One
    <3> QED
      BY <2>4, <3>3, <3>4, <3>5
  <2> QED
    BY <2>1, <2>4, <2>5, <2>6, LeftAre, <1>part
<1>2. CASE s = "AGED"
  <2>1. Alike(q, r, InputFields \ InfoWritten)
    BY <1>0, <1>2, IsField DEF infoEnter, r, Alike, InputFields, InfoWritten
  <2>2. r.info = "AGED" /\ r.infoIs = "Aged" /\ r.rcvdMsg = q.rcvdMsg
    BY <1>0, <1>2, IsField DEF infoEnter, r
  <2>3. /\ r.rcvdBpdu = q.rcvdBpdu /\ r.enabled = q.enabled /\ r.portrec = q.portrec
    BY <2>1, <1>same
  <2>4. \/ q.info = "DISABLED" /\ q.enabled /\ ~q.rcvdMsg
        \/ q.info = "CURRENT" /\ q.infoIs = "Received" /\ ~q.rcvdMsg
    BY <1>2, InfoHopIs DEF Judged
  <2> HIDE DEF r
  <2>5. MessageLeft(r) = MessageLeft(q)
    BY <2>2, <2>3, <2>4 DEF MessageLeft
  <2>6. LinkLeft(r) < LinkLeft(q)
    <3>1. LinkLeft(r) = One(q.portrec = "BEGIN") + 2 * One(~q.enabled)
      BY <2>2, <2>3 DEF LinkLeft, One
    <3>2. One(q.portrec = "BEGIN") \in 0 .. 1
      BY DEF One
    <3>3. CASE q.info = "DISABLED" /\ q.enabled
      BY <1>0, <3>1, <3>2, <3>3 DEF LinkLeft, One
    <3>4. CASE q.info = "CURRENT" /\ q.infoIs = "Received"
      BY <1>0, <3>1, <3>2, <3>4 DEF LinkLeft, One
    <3> QED
      BY <2>4, <3>3, <3>4
  <2> QED
    BY <2>1, <2>5, <2>6, LeftAre, <1>part
<1>3. CASE s = "RECEIVE"
  <2>1. Alike(q, r, InputFields \ InfoWritten)
    BY <1>0, <1>3, IsField DEF infoEnter, r, Alike, InputFields, InfoWritten
  <2>2. r.info = "RECEIVE" /\ r.infoIs = q.infoIs /\ r.rcvdMsg = q.rcvdMsg
    BY <1>0, <1>3, IsField DEF infoEnter, r
  <2>3. /\ r.rcvdBpdu = q.rcvdBpdu /\ r.enabled = q.enabled /\ r.portrec = q.portrec
    BY <2>1, <1>same
  <2>4. q.info = "CURRENT" /\ q.rcvdMsg
    BY <1>3, InfoHopIs DEF Judged
  <2> HIDE DEF r
  <2>5. MessageLeft(r) < MessageLeft(q)
    BY <2>2, <2>3, <2>4 DEF MessageLeft, One
  <2>6. LinkLeft(r) = LinkLeft(q)
    BY <2>2, <2>3, <2>4 DEF LinkLeft, One
  <2> QED
    BY <2>1, <2>5, <2>6, LeftAre, <1>part
<1>4. CASE s \in Judged
  <2>0. r.info = s /\ ~r.rcvdMsg /\ r.infoIs \in {q.infoIs, "Received"}
    BY <1>0, <1>4, JudgedIs
  <2>1. Alike(q, r, InputFields \ InfoWritten)
    BY <1>0, <1>4, JudgedIs
  <2>3. /\ r.rcvdBpdu = q.rcvdBpdu /\ r.enabled = q.enabled /\ r.portrec = q.portrec
    BY <2>1, <1>same
  <2>4. q.info = "RECEIVE" /\ s \notin {"BEGIN", "DISABLED", "RECEIVE"}
    BY <1>4, InfoHopIs DEF Judged
  <2> HIDE DEF r
  <2>5. MessageLeft(r) + 4 = MessageLeft(q)
    BY <2>0, <2>3, <2>4 DEF MessageLeft, One
  <2>6. LinkLeft(r) <= LinkLeft(q) + 1
    <3>1. q.infoIs # "Disabled" /\ r.infoIs # "Disabled"
      BY <1>0, <2>0, <2>4
    <3> DEFINE u == One(q.portrec = "BEGIN") + 2 * One(~q.enabled)
    <3>2. LinkLeft(r) = One(r.infoIs = "Received") + u
      BY <2>0, <2>3, <2>4, <3>1 DEF LinkLeft, One
    <3>3. LinkLeft(q) = One(q.infoIs = "Received") + u
      BY <2>4, <3>1 DEF LinkLeft, One
    <3>4. /\ One(q.infoIs = "Received") \in 0 .. 1 /\ One(r.infoIs = "Received") \in 0 .. 1
          /\ u \in 0 .. 3
      BY DEF One
    <3> HIDE DEF u
    <3> QED
      BY <3>2, <3>3, <3>4
  <2> QED
    BY <2>1, <2>5, <2>6, LeftAre, <1>part
<1>5. CASE s = "UPDATE"
  <2>1. Alike(q, r, InputFields \ InfoWritten)
    BY <1>0, <1>5, IsField DEF infoEnter, r, Alike, InputFields, InfoWritten
  <2>2. /\ r.info = "UPDATE" /\ r.infoIs = "Mine" /\ r.rcvdMsg = q.rcvdMsg
        /\ ~r.updtInfo /\ r.reselect = q.reselect /\ r.role = q.role
        /\ r.selectedRole = q.selectedRole /\ r.roletrns = q.roletrns
    BY <1>0, <1>5, IsField DEF infoEnter, r
  <2>3. /\ r.pcost = q.pcost /\ r.operSpeed = q.operSpeed /\ r.usedSpeed = q.usedSpeed
        /\ r.enabled = q.enabled /\ r.adminEdge = q.adminEdge /\ r.brdec = q.brdec
        /\ r.operEdge = q.operEdge /\ r.rcvdBpdu = q.rcvdBpdu /\ r.portrec = q.portrec
    BY <2>1 DEF Alike, InputFields, InfoWritten
  <2>4. q.info \in {"AGED", "CURRENT"} /\ q.updtInfo
    BY <1>5, InfoHopIs DEF Judged
  <2> HIDE DEF r
  <2>5. MessageLeft(r) = MessageLeft(q)
    BY <2>2, <2>3, <2>4 DEF MessageLeft
  <2>6. LinkLeft(r) <= LinkLeft(q)
    <3>1. LinkLeft(r) = One(q.portrec = "BEGIN") + 2 * One(~q.enabled)
      BY <2>2, <2>3 DEF LinkLeft, One
    <3>2. One(q.portrec = "BEGIN") \in 0 .. 1
      BY DEF One
    <3> QED
      BY <1>0, <2>4, <3>1, <3>2 DEF LinkLeft, One
  <2>7. CostLeft(r) = CostLeft(q) /\ EdgeLeft(r) = EdgeLeft(q)
    BY <2>3 DEF CostLeft, EdgeLeft
  <2>8. InputRank(r) <= InputRank(q)
    BY <2>5, <2>6, <2>7, LeftAre DEF InputRank
  <2>9. Undisturbed(q, r)
    BY <2>8, <2>2, RanksAre DEF Undisturbed, ElectionRank
  <2>10. OrderRank(r) < OrderRank(q)
    BY <2>2, <2>4 DEF OrderRank, One
  <2> QED
    BY <2>9, <2>10, FallsAt3
<1>6. CASE s = "CURRENT"
  <2>1. r = [q EXCEPT !.info = s]
    BY <1>0, <1>6, IsField DEF infoEnter, r
  <2> HIDE DEF r
  <2>2. q.info \in Judged \cup {"UPDATE"}
    BY <1>6, InfoHopIs DEF Judged
  <2>3. /\ Alike(q, r, InputFields \ {"info"}) /\ Alike(q, r, OrderFields)
        /\ Alike(q, r, TalkFields) /\ r.reselect = q.reselect /\ r.info = "CURRENT"
    BY <1>0, <1>6, <2>1, IsField DEF Alike, InputFields, OrderFields, TalkFields
  <2>4. Alike(q, r, VersionFields) /\ Alike(q, r, DuplexFields) /\ Alike(q, r, WaitFields)
    BY <1>0, <2>1, IsField DEF Alike, VersionFields, DuplexFields, WaitFields
  <2>5. Alike(q, r, RoleFields) /\ Alike(q, r, NewsFields) /\ Alike(q, r, FlowFields)
        /\ r.edgeDelayWhile = q.edgeDelayWhile
    BY <1>0, <2>1, IsField DEF Alike, RoleFields, NewsFields, FlowFields
  <2>6. /\ r.pcost = q.pcost /\ r.operSpeed = q.operSpeed /\ r.usedSpeed = q.usedSpeed
        /\ r.enabled = q.enabled /\ r.adminEdge = q.adminEdge /\ r.brdec = q.brdec
        /\ r.operEdge = q.operEdge /\ r.rcvdBpdu = q.rcvdBpdu /\ r.rcvdMsg = q.rcvdMsg
        /\ r.infoIs = q.infoIs /\ r.portrec = q.portrec
    BY <2>3 DEF Alike, InputFields
  <2>7. InputRank(r) = InputRank(q)
    <3>1. q.info \notin {"BEGIN", "DISABLED", "RECEIVE"}
      BY <2>2 DEF Judged
    <3>2. CostLeft(r) = CostLeft(q) /\ EdgeLeft(r) = EdgeLeft(q)
      BY <2>6 DEF CostLeft, EdgeLeft
    <3>3. MessageLeft(r) = MessageLeft(q)
      BY <2>3, <2>6, <3>1 DEF MessageLeft
    <3>4. LinkLeft(r) = LinkLeft(q)
      BY <2>3, <2>6, <3>1 DEF LinkLeft, One
    <3> QED
      BY <3>2, <3>3, <3>4 DEF InputRank
  <2>8. Undisturbed(q, r)
    BY <2>3, <2>7, RanksAre DEF Undisturbed, ElectionRank
  <2>9. Steady(q, r)
    <3>1. RequestRank(r) = RequestRank(q)
      BY <2>3, <2>4, TalkAlike, VersionAlike, DuplexAlike DEF RequestRank
    <3> QED
      BY <2>3, <2>8, <3>1, OrderAlike, RanksAre DEF Steady
  <2>10. WorkRank(r) < WorkRank(q)
    <3>1. PassLeft(r) < PassLeft(q)
      BY <2>2, <2>3, <2>5 DEF PassLeft, One, Judged
    <3> QED
      BY <2>5, <3>1, RoleAlike, NewsAlike, FlowAlike, LeftAre DEF WorkRank
  <2> QED
    BY <2>4, <2>9, <2>10, WaitAlike, RanksAre, FallsAt6
<1> QED
  BY <1>0, <1>1, <1>2, <1>3, <1>4, <1>5, <1>6, InfoHopIs


\* A transition table that does not stay gives the state of a row whose condition holds.
LEMMA FirstHolds ==
  ASSUME NEW n \in Nat, NEW table, DOMAIN table = 1 .. n, First(table) # Stay
  PROVE  \E i \in 1 .. n : table[i][1] /\ First(table) = table[i][2]
<1> DEFINE on == {i \in DOMAIN table : table[i][1]}
<1>1. First(table) = IF on = {} THEN Stay ELSE table[Smallest(on)][2]
  BY DEF First
<1>2. on # {} /\ on \subseteq Nat /\ on \subseteq 1 .. n
  BY <1>1
<1>3. Smallest(on) \in on
  BY <1>2, SmallestIs
<1> QED
  BY <1>1, <1>2, <1>3

\* Where the topology change machine goes, and from where.
LEMMA TopochHopIs ==
  ASSUME NEW q, NEW p, NEW K, PortOK(q, p, K), NEW s, s = topochHop(q), s # Stay
  PROVE  \/ s = "INACTIVE" /\ q.topoch = "BEGIN"
         \/ s = "INACTIVE" /\ q.topoch = "LEARNING" /\ ~q.learn
         \/ s = "LEARNING" /\ q.topoch = "INACTIVE" /\ q.learn
         \/ s = "LEARNING" /\ q.topoch = "LEARNING" /\ noticed(q)
         \/ s = "LEARNING" /\ q.topoch = "ACTIVE" /\ (~active(q) \/ q.operEdge)
         \/ /\ s = "DETECTED" /\ q.topoch = "LEARNING"
            /\ active(q) /\ q.forward /\ ~q.operEdge
         \/ s = "NOTIFIED_TCN" /\ q.topoch = "ACTIVE" /\ q.rcvdTcn
         \/ s = "NOTIFIED_TC" /\ q.topoch = "ACTIVE" /\ q.rcvdTc
         \/ s = "NOTIFIED_TC" /\ q.topoch = "NOTIFIED_TCN"
         \/ s = "PROPAGATING" /\ q.topoch = "ACTIVE" /\ q.tcProp
         \/ s = "ACKNOWLEDGED" /\ q.topoch = "ACTIVE" /\ q.rcvdTcAck
         \/ /\ s = "ACTIVE"
            /\ q.topoch \in {"DETECTED", "NOTIFIED_TC", "PROPAGATING", "ACKNOWLEDGED"}
<1>0. q.topoch \in {"BEGIN", "INACTIVE", "LEARNING", "DETECTED", "ACTIVE", "NOTIFIED_TCN",
                    "NOTIFIED_TC", "PROPAGATING", "ACKNOWLEDGED"}
  BY DEF PortOK, StatesOK
<1>1. CASE q.topoch = "ACTIVE"
  <2> DEFINE table == <<
         << ~active(q) \/ q.operEdge, "LEARNING" >>, << q.rcvdTcn, "NOTIFIED_TCN" >>,
         << q.rcvdTc, "NOTIFIED_TC" >>, << q.tcProp, "PROPAGATING" >>,
         << q.rcvdTcAck, "ACKNOWLEDGED" >> >>
  <2>1. DOMAIN table = 1 .. 5
    OBVIOUS
  <2>2. /\ table[1][2] = "LEARNING" /\ (table[1][1] => ~active(q) \/ q.operEdge)
        /\ table[2][2] = "NOTIFIED_TCN" /\ (table[2][1] => q.rcvdTcn)
        /\ table[3][2] = "NOTIFIED_TC" /\ (table[3][1] => q.rcvdTc)
        /\ table[4][2] = "PROPAGATING" /\ (table[4][1] => q.tcProp)
        /\ table[5][2] = "ACKNOWLEDGED" /\ (table[5][1] => q.rcvdTcAck)
    OBVIOUS
  <2>3. s = First(table)
    BY <1>1 DEF topochHop
  <2> HIDE DEF table
  <2>4. PICK i \in 1 .. 5 : table[i][1] /\ s = table[i][2]
    BY <2>1, <2>3, FirstHolds
  <2>5. \/ s = "LEARNING" /\ (~active(q) \/ q.operEdge)
        \/ s = "NOTIFIED_TCN" /\ q.rcvdTcn
        \/ s = "NOTIFIED_TC" /\ q.rcvdTc
        \/ s = "PROPAGATING" /\ q.tcProp
        \/ s = "ACKNOWLEDGED" /\ q.rcvdTcAck
    <3>1. i = 1 \/ i = 2 \/ i = 3 \/ i = 4 \/ i = 5
      OBVIOUS
    <3> QED
      BY <2>2, <2>4, <3>1
  <2> QED
    BY <1>1, <2>5
<1>2. CASE q.topoch # "ACTIVE"
  BY <1>0, <1>2 DEF topochHop, When
<1> QED
  BY <1>1, <1>2

\* The fields that the levels before that of the work depend on.
Before == {"reselect"} \cup InputFields \cup OrderFields \cup TalkFields \cup VersionFields
          \cup DuplexFields \cup WaitFields

\* A hop that leaves them alone.
LEMMA BeforeAlike ==
  ASSUME NEW q, NEW r, Alike(q, r, Before)
  PROVE  Steady(q, r) /\ WaitRank(r) = WaitRank(q)
<1>1. /\ Alike(q, r, InputFields) /\ r.reselect = q.reselect /\ Alike(q, r, OrderFields)
      /\ Alike(q, r, TalkFields) /\ Alike(q, r, VersionFields) /\ Alike(q, r, DuplexFields)
      /\ Alike(q, r, WaitFields)
  BY DEF Alike, Before
<1> QED
  BY <1>1, SteadyAlike, WaitAlike

\* Topology change.  A hop whose news the other ports hear of lowers the level of the work.
LEMMA TopochFalls ==
  ASSUME NEW q, NEW p, NEW K, PortOK(q, p, K), NEW s, s = topochHop(q), s # Stay
  PROVE  LET r == topochOwn([q EXCEPT !.topoch = s])
         IN /\ Falls(q, r, 8) /\ r.topoch = s
            /\ s \in {"DETECTED", "NOTIFIED_TC"} => Falls(q, r, 6)
<1> DEFINE y == [q EXCEPT !.topoch = s]
           r == topochOwn(y)
<1> SUFFICES /\ Falls(q, r, 8) /\ r.topoch = s
             /\ s \in {"DETECTED", "NOTIFIED_TC"} => Falls(q, r, 6)
  OBVIOUS
<1>0. /\ DOMAIN q = Fields
      /\ s \in {"INACTIVE", "LEARNING", "DETECTED", "ACTIVE", "NOTIFIED_TCN", "NOTIFIED_TC",
                "PROPAGATING", "ACKNOWLEDGED"}
  BY TopochHop DEF PortOK
<1> DEFINE Others == Before \cup RoleFields \cup FlowFields \cup PassFields
<1>1. DOMAIN y = Fields /\ y.topoch = s /\ \A f \in Fields \ {"topoch"} : y[f] = q[f]
  BY <1>0, IsField
<1>2. Others \subseteq Fields \ {"topoch"}
  BY DEF Others, Before, RoleFields, FlowFields, PassFields, InputFields, OrderFields, TalkFields,
         VersionFields, DuplexFields, WaitFields, Fields
<1>3. /\ "topoch" \notin Others /\ "tcWhile" \notin Others /\ "newInfo" \notin Others
      /\ "tcAck" \notin Others /\ "rcvdTc" \notin Others /\ "rcvdTcn" \notin Others
      /\ "rcvdTcAck" \notin Others /\ "tcProp" \notin Others /\ Others \subseteq Fields
  BY <1>2 DEF Others, Before, RoleFields, FlowFields, PassFields, InputFields, OrderFields,
              TalkFields, VersionFields, DuplexFields, WaitFields
<1> HIDE DEF y, Others
<1>4. /\ r.topoch = s /\ \A f \in Others : r[f] = y[f]
      /\ DOMAIN r = Fields
      /\ s \in {"INACTIVE", "DETECTED", "ACTIVE", "NOTIFIED_TCN"} =>
           /\ r.rcvdTc = q.rcvdTc /\ r.rcvdTcn = q.rcvdTcn /\ r.rcvdTcAck = q.rcvdTcAck
           /\ r.tcProp = q.tcProp
      /\ s = "LEARNING" => ~r.rcvdTc /\ ~r.rcvdTcn /\ ~r.rcvdTcAck /\ ~r.tcProp
      /\ s = "NOTIFIED_TC" =>
           ~r.rcvdTc /\ ~r.rcvdTcn /\ r.rcvdTcAck = q.rcvdTcAck /\ r.tcProp = q.tcProp
      /\ s = "PROPAGATING" =>
           /\ r.rcvdTc = q.rcvdTc /\ r.rcvdTcn = q.rcvdTcn /\ r.rcvdTcAck = q.rcvdTcAck
           /\ ~r.tcProp
      /\ s = "ACKNOWLEDGED" =>
           /\ r.rcvdTc = q.rcvdTc /\ r.rcvdTcn = q.rcvdTcn /\ ~r.rcvdTcAck
           /\ r.tcProp = q.tcProp
  <2> DEFINE z == newTcWhile(y)
  <2>0. DOMAIN z = Fields /\ \A f \in Fields \ {"tcWhile", "newInfo"} : z[f] = y[f]
    BY <1>1, IsField DEF newTcWhile
  <2>1. CASE s = "INACTIVE"
    <3>1. r = [y EXCEPT !.tcWhile = 0, !.tcAck = FALSE]
      BY <1>1, <2>1, IsField DEF topochOwn
    <3> HIDE DEF r
    <3> QED
      BY <1>1, <1>3, <2>1, <3>1, IsField
  <2>2. CASE s = "LEARNING"
    <3>1. r = [y EXCEPT !.rcvdTc = FALSE, !.rcvdTcn = FALSE, !.rcvdTcAck = FALSE,
                       !.tcProp = FALSE]
      BY <1>1, <2>2, IsField DEF topochOwn
    <3> HIDE DEF r
    <3> QED
      BY <1>1, <1>3, <2>2, <3>1, IsField
  <2>3. CASE s = "ACTIVE"
    <3>1. r = y
      BY <1>1, <2>3, IsField DEF topochOwn
    <3> HIDE DEF r
    <3> QED
      BY <1>1, <1>3, <2>3, <3>1, IsField
  <2>4. CASE s = "NOTIFIED_TC"
    <3>1. \E v : r = [y EXCEPT !.rcvdTcn = FALSE, !.rcvdTc = FALSE, !.tcAck = v]
      BY <1>1, <2>4, IsField DEF topochOwn
    <3> HIDE DEF r
    <3> QED
      BY <1>1, <1>3, <2>4, <3>1, IsField
  <2>5. CASE s = "ACKNOWLEDGED"
    <3>1. r = [y EXCEPT !.tcWhile = 0, !.rcvdTcAck = FALSE]
      BY <1>1, <2>5, IsField DEF topochOwn
    <3> HIDE DEF r
    <3> QED
      BY <1>1, <1>3, <2>5, <3>1, IsField
  <2>6. CASE s = "DETECTED"
    <3>1. r = [z EXCEPT !.newInfo = TRUE]
      BY <1>1, <2>6 DEF topochOwn
    <3> HIDE DEF r, z
    <3> QED
      BY <1>1, <1>3, <2>0, <2>6, <3>1, IsField
  <2>7. CASE s = "NOTIFIED_TCN"
    <3>1. r = z
      BY <1>1, <2>7 DEF topochOwn
    <3> HIDE DEF r, z
    <3> QED
      BY <1>1, <1>3, <2>0, <2>7, <3>1, IsField
  <2>8. CASE s = "PROPAGATING"
    <3>1. r = [z EXCEPT !.tcProp = FALSE]
      BY <1>1, <2>8 DEF topochOwn
    <3> HIDE DEF r, z
    <3> QED
      BY <1>1, <1>3, <2>0, <2>8, <3>1, IsField
  <2> QED
    BY <1>0, <2>1, <2>2, <2>3, <2>4, <2>5, <2>6, <2>7, <2>8
<1> HIDE DEF r
<1>5. \A f \in Others : r[f] = q[f]
  BY <1>1, <1>2, <1>4
<1>6. Alike(q, r, Before) /\ Alike(q, r, RoleFields) /\ Alike(q, r, FlowFields)
      /\ Alike(q, r, PassFields)
  BY <1>5 DEF Alike, Others
<1>7. Steady(q, r) /\ WaitRank(r) = WaitRank(q)
  BY <1>6, BeforeAlike
<1>8. r.role = q.role /\ r.forward = q.forward /\ r.operEdge = q.operEdge /\ r.learn = q.learn
  BY <1>6 DEF Alike, Before, InputFields, WaitFields
<1>9. /\ NewsLeft(r) <= NewsLeft(q)
      /\ s \in {"DETECTED", "NOTIFIED_TC", "NOTIFIED_TCN"} => NewsLeft(r) < NewsLeft(q)
      /\ NewsLeft(r) < NewsLeft(q) \/ NoticeRank(r) < NoticeRank(q)
  <2>0. \A c : One(c) \in 0 .. 1
    BY DEF One
  <2> DEFINE third(x) == One(/\ active(x) /\ x.forward /\ ~x.operEdge
                             /\ x.topoch \in {"BEGIN", "INACTIVE", "LEARNING"})
             both(x) == IF x.topoch = "NOTIFIED_TCN" THEN 1 ELSE 2 * One(x.rcvdTcn)
             act(x) == active(x) /\ x.forward /\ ~x.operEdge
  <2>2. /\ NewsLeft(r) = both(r) + One(r.rcvdTc) + third(r)
        /\ NewsLeft(q) = both(q) + One(q.rcvdTc) + third(q)
    BY DEF NewsLeft
  <2>3. /\ both(q) \in 0 .. 2 /\ both(r) \in 0 .. 2 /\ third(q) \in 0 .. 1 /\ third(r) \in 0 .. 1
        /\ One(q.rcvdTc) \in 0 .. 1 /\ One(r.rcvdTc) \in 0 .. 1
    BY DEF One
  <2>4. /\ (act(q) /\ q.topoch \in {"BEGIN", "INACTIVE", "LEARNING"}) => third(q) = 1
        /\ ~(act(q) /\ q.topoch \in {"BEGIN", "INACTIVE", "LEARNING"}) => third(q) = 0
        /\ (act(r) /\ r.topoch \in {"BEGIN", "INACTIVE", "LEARNING"}) => third(r) = 1
        /\ ~(act(r) /\ r.topoch \in {"BEGIN", "INACTIVE", "LEARNING"}) => third(r) = 0
    BY DEF One
  <2>5. act(r) <=> act(q)
    BY <1>8 DEF active
  <2> HIDE DEF third, act
  <2>6. \/ s = "INACTIVE" /\ q.topoch = "BEGIN"
        \/ s = "INACTIVE" /\ q.topoch = "LEARNING" /\ ~q.learn
        \/ s = "LEARNING" /\ q.topoch = "INACTIVE" /\ q.learn
        \/ s = "LEARNING" /\ q.topoch = "LEARNING" /\ noticed(q)
        \/ s = "LEARNING" /\ q.topoch = "ACTIVE" /\ ~act(q)
        \/ s = "DETECTED" /\ q.topoch = "LEARNING" /\ act(q)
        \/ s = "NOTIFIED_TCN" /\ q.topoch = "ACTIVE" /\ q.rcvdTcn
        \/ s = "NOTIFIED_TC" /\ q.topoch = "ACTIVE" /\ q.rcvdTc
        \/ s = "NOTIFIED_TC" /\ q.topoch = "NOTIFIED_TCN"
        \/ s = "PROPAGATING" /\ q.topoch = "ACTIVE" /\ q.tcProp
        \/ s = "ACKNOWLEDGED" /\ q.topoch = "ACTIVE" /\ q.rcvdTcAck
        \/ /\ s = "ACTIVE"
           /\ q.topoch \in {"DETECTED", "NOTIFIED_TC", "PROPAGATING", "ACKNOWLEDGED"}
    BY TopochHopIs DEF act
  <2>7. third(r) <= third(q) /\ (s = "DETECTED" => third(r) < third(q))
    BY <1>4, <2>3, <2>4, <2>5, <2>6
  <2>8. /\ both(r) <= both(q) /\ One(r.rcvdTc) <= One(q.rcvdTc)
        /\ s = "NOTIFIED_TCN" => both(r) < both(q)
        /\ s = "NOTIFIED_TC" => both(r) < both(q) \/ One(r.rcvdTc) < One(q.rcvdTc)
        /\ s = "LEARNING" /\ q.rcvdTcn /\ q.topoch = "LEARNING" => both(r) < both(q)
        /\ s = "LEARNING" /\ q.rcvdTc => One(r.rcvdTc) < One(q.rcvdTc)
    BY <1>4, <2>6 DEF One
  <2>9. \/ s \in {"DETECTED", "NOTIFIED_TC", "NOTIFIED_TCN"}
        \/ s = "LEARNING" /\ q.topoch = "LEARNING" /\ (q.rcvdTcn \/ q.rcvdTc)
        \/ NoticeRank(r) < NoticeRank(q)
    BY <1>4, <1>8, <2>6 DEF NoticeRank, One, noticed
  <2> HIDE DEF both
  <2>10. /\ NewsLeft(r) <= NewsLeft(q)
         /\ s \in {"DETECTED", "NOTIFIED_TC", "NOTIFIED_TCN"} => NewsLeft(r) < NewsLeft(q)
         /\ s = "LEARNING" /\ q.topoch = "LEARNING" /\ (q.rcvdTcn \/ q.rcvdTc) =>
              NewsLeft(r) < NewsLeft(q)
    BY <2>2, <2>3, <2>7, <2>8
  <2> QED
    BY <2>9, <2>10
<1>10. /\ WorkRank(r) <= WorkRank(q) /\ (NewsLeft(r) < NewsLeft(q) => WorkRank(r) < WorkRank(q))
  BY <1>6, <1>9, RoleAlike, FlowAlike, PassAlike, LeftAre DEF WorkRank
<1>11. NewsLeft(r) < NewsLeft(q) => Falls(q, r, 6) /\ Falls(q, r, 8)
  BY <1>7, <1>10, RanksAre, FallsAt6
<1>12. NoticeRank(r) < NoticeRank(q) => Falls(q, r, 8)
  BY <1>7, <1>10, RanksAre, FallsAt7
<1> QED
  BY <1>4, <1>9, <1>11, <1>12


\* Transmit: what it leaves of the messages to send.
SendFields == {"transmit", "newInfo", "txCount", "tcAck", "helloWhen"}

\* A hop of the transmit machine concerns the last level only.
LEMMA TransmitFalls ==
  ASSUME NEW q, NEW s, s = transmitHop(q), s # Stay, NEW r,
         Alike(q, r, Fields \ SendFields), r.transmit = s,
         s = "IDLE" => r.newInfo = q.newInfo /\ r.helloWhen = HelloTime,
         s \in {"TRANSMIT_RSTP", "TRANSMIT_CONFIG", "TRANSMIT_TCN"} => ~r.newInfo
  PROVE  Falls(q, r, 8)
<1>1. /\ Alike(q, r, Before) /\ Alike(q, r, RoleFields) /\ Alike(q, r, FlowFields)
      /\ Alike(q, r, NewsFields) /\ Alike(q, r, PassFields) /\ Alike(q, r, NoticeFields)
  <2> DEFINE Others == Before \cup RoleFields \cup FlowFields \cup NewsFields \cup PassFields
                       \cup NoticeFields
  <2>1. Others \subseteq Fields
    BY DEF Others, Before, RoleFields, FlowFields, NewsFields, PassFields, NoticeFields,
           InputFields, OrderFields, TalkFields, VersionFields, DuplexFields, WaitFields, Fields
  <2>2. /\ "transmit" \notin Others /\ "newInfo" \notin Others /\ "txCount" \notin Others
        /\ "tcAck" \notin Others /\ "helloWhen" \notin Others
    BY DEF Others, Before, RoleFields, FlowFields, NewsFields, PassFields, NoticeFields,
           InputFields, OrderFields, TalkFields, VersionFields, DuplexFields, WaitFields
  <2>3. \A f \in Others : r[f] = q[f]
    <3> HIDE DEF Others
    <3> QED
      BY <2>1, <2>2 DEF Alike, SendFields
  <2> QED
    BY <2>3 DEF Alike
<1>2. Steady(q, r) /\ WaitRank(r) = WaitRank(q)
  BY <1>1, BeforeAlike
<1>3. WorkRank(r) = WorkRank(q) /\ NoticeRank(r) = NoticeRank(q)
  BY <1>1, RoleAlike, FlowAlike, NewsAlike, PassAlike, NoticeAlike DEF WorkRank
<1>4. SendRank(r) < SendRank(q)
  <2>1. HelloTime # 0
    BY TimesAssumption
  <2>2. CASE q.transmit = "BEGIN"
    <3>1. s = "TRANSMIT_INIT"
      BY <2>2 DEF transmitHop
    <3> QED
      BY <2>2, <3>1 DEF SendRank, One
  <2>3. CASE q.transmit = "IDLE" /\ q.helloWhen = 0
    <3>1. s = "TRANSMIT_PERIODIC"
      BY <2>3 DEF transmitHop
    <3> QED
      BY <2>3, <3>1 DEF SendRank, One
  <2>4. CASE q.transmit = "IDLE" /\ q.helloWhen # 0
    <3>1. s \in {"TRANSMIT_RSTP", "TRANSMIT_CONFIG", "TRANSMIT_TCN"} /\ q.newInfo
      BY <2>4 DEF transmitHop, When
    <3> QED
      BY <2>4, <3>1 DEF SendRank, One
  <2>5. CASE q.transmit \notin {"BEGIN", "IDLE"}
    <3>1. s = "IDLE"
      BY <2>5 DEF transmitHop
    <3> QED
      BY <2>1, <2>5, <3>1 DEF SendRank, One
  <2> QED
    BY <2>2, <2>3, <2>4, <2>5
<1> QED
  BY <1>2, <1>3, <1>4, RanksAre, FallsAt8

-----------------------------------------------------------------------------
(* From the port to the bridge.                                                            *)

\* At some level a port of c is lower than that of b, and no port is higher at that level or at
\* a level before it.
Lowers(b, c) ==
  \E k \in 1 .. 8 : /\ \E p \in Ports : Rank(c.port[p], k) < Rank(b.port[p], k)
                    /\ \A o \in Ports : NoHigher(b.port[o], c.port[o], k)

\* Ranks are numbers.
LEMMA RankNat ==
  ASSUME NEW q, NEW k \in 1 .. 8
  PROVE  Rank(q, k) \in 0 .. 40
<1>1. k = 1 \/ k = 2 \/ k = 3 \/ k = 4 \/ k = 5 \/ k = 6 \/ k = 7 \/ k = 8
  OBVIOUS
<1> QED
  BY <1>1, RankIs, RanksAre

\* A port falls, and the others rise at no level up to that one.
LEMMA PortLowers ==
  ASSUME NEW b, NEW c, NEW p \in Ports, NEW k \in 1 .. 8, Falls(b.port[p], c.port[p], k),
         \A o \in Ports \ {p} : NoHigher(b.port[o], c.port[o], k)
  PROVE  Lowers(b, c)
<1>1. PICK j \in 1 .. k : /\ Rank(c.port[p], j) < Rank(b.port[p], j)
                          /\ NoHigher(b.port[p], c.port[p], j - 1)
  BY DEF Falls
<1>2. j \in 1 .. 8
  OBVIOUS
<1>3. ASSUME NEW o \in Ports PROVE NoHigher(b.port[o], c.port[o], j)
  <2>1. CASE o = p
    <3> SUFFICES ASSUME NEW i \in 1 .. j PROVE Rank(c.port[p], i) <= Rank(b.port[p], i)
      BY <2>1 DEF NoHigher
    <3>0. i \in 1 .. 8
      BY <1>2
    <3>1. Rank(c.port[p], i) \in 0 .. 40 /\ Rank(b.port[p], i) \in 0 .. 40
      BY <3>0, RankNat
    <3>2. CASE i = j
      BY <1>1, <3>1, <3>2
    <3>3. CASE i # j
      <4>1. i \in 1 .. j - 1
        BY <1>2, <3>3
      <4> QED
        BY <1>1, <4>1 DEF NoHigher
    <3> QED
      BY <3>2, <3>3
  <2>2. CASE o # p
    <3>1. NoHigher(b.port[o], c.port[o], k)
      BY <2>2
    <3> QED
      BY <3>1, <1>2 DEF NoHigher
  <2> QED
    BY <2>1, <2>2
<1> QED
  BY <1>1, <1>2, <1>3 DEF Lowers

\* Nothing is higher than itself.
LEMMA NoHigherSelf ==
  ASSUME NEW q, NEW k \in 1 .. 8
  PROVE  NoHigher(q, q, k)
<1> SUFFICES ASSUME NEW j \in 1 .. k PROVE Rank(q, j) <= Rank(q, j)
  BY DEF NoHigher
<1>1. j \in 1 .. 8
  OBVIOUS
<1> QED
  BY <1>1, RankNat

\* A hop that writes to its own port only.
OnlyAt(b, c, p) == \A o \in Ports \ {p} : c.port[o] = b.port[o]

\* It is enough that the port falls.
LEMMA OwnLowers ==
  ASSUME NEW b, NEW c, NEW p \in Ports, Falls(b.port[p], c.port[p], 8), OnlyAt(b, c, p)
  PROVE  Lowers(b, c)
<1>1. 8 \in 1 .. 8
  OBVIOUS
<1>2. \A o \in Ports \ {p} : NoHigher(b.port[o], c.port[o], 8)
  BY <1>1, NoHigherSelf DEF OnlyAt
<1> QED
  BY <1>1, <1>2, PortLowers

\* The machines that write to their own port only.
LEMMA PlainLowers ==
  ASSUME NEW b, NEW K, BridgeOK(b, K), NEW p \in Ports, NEW m, NEW s, CanMove(b, m, p, s),
         s # Stay, m \in {"brdec", "portrec", "sttrans", "p2p", "migrate", "pcost", "info"}
  PROVE  Lowers(b, hop(b, <<m, p, s>>)) /\ hop(b, <<m, p, s>>).rolesel = b.rolesel
<1>0. PortOK(b.port[p], p, K)
  BY DEF BridgeOK
<1> DEFINE q == b.port[p]
           h == hop(b, <<m, p, s>>)
<1>1. ASSUME NEW r, Moved(b, h, p, r), Falls(q, r, 8)
      PROVE  Lowers(b, h) /\ h.rolesel = b.rolesel
  <2>1. /\ h.port[p] = r /\ h.rolesel = b.rolesel
        /\ OnlyAt(b, h, p)
    BY <1>1 DEF Moved, OnlyAt
  <2>2. Falls(b.port[p], h.port[p], 8)
    BY <1>1, <2>1
  <2> HIDE DEF h
  <2>3. Lowers(b, h)
    BY <2>1, <2>2, OwnLowers
  <2> QED
    BY <2>1, <2>3
<1>2. CASE m = "brdec"
  <2>1. s = brdecHop(q)
    BY <1>2 DEF CanMove
  <2>2. Falls(q, brdecEnter([q EXCEPT !.brdec = s]), 8)
    BY <1>0, <2>1, BrdecFalls
  <2> QED
    BY <1>1, <1>2, <2>2, OwnPortHop
<1>3. CASE m = "portrec"
  <2>1. s = portrecHop(q)
    BY <1>3 DEF CanMove
  <2>2. Falls(q, portrecEnter([q EXCEPT !.portrec = s]), 8)
    BY <1>0, <2>1, PortrecFalls
  <2> QED
    BY <1>1, <1>3, <2>2, OwnPortHop
<1>4. CASE m = "sttrans"
  <2>1. s = sttransHop(q)
    BY <1>4 DEF CanMove
  <2>2. Falls(q, sttransEnter([q EXCEPT !.sttrans = s]), 8)
    BY <1>0, <2>1, SttransFalls
  <2> QED
    BY <1>1, <1>4, <2>2, OwnPortHop
<1>5. CASE m = "p2p"
  <2>1. s = p2pHop(q)
    BY <1>5 DEF CanMove
  <2>2. Falls(q, p2pEnter([q EXCEPT !.p2p = s]), 8)
    BY <1>0, <2>1, P2pFalls
  <2> QED
    BY <1>1, <1>5, <2>2, OwnPortHop
<1>6. CASE m = "migrate"
  <2>1. s = migrateHop(q)
    BY <1>6 DEF CanMove
  <2>2. Falls(q, migrateEnter([q EXCEPT !.migrate = s]), 8)
    BY <1>0, <2>1, MigrateFalls
  <2> QED
    BY <1>1, <1>6, <2>2, OwnPortHop
<1>7. CASE m = "pcost"
  <2>1. s = pcostHop(q)
    BY <1>7 DEF CanMove
  <2>2. Falls(q, pcostEnter([q EXCEPT !.pcost = s]), 8)
    BY <1>0, <2>1, PcostFalls
  <2> QED
    BY <1>1, <1>7, <2>2, OwnPortHop
<1>8. CASE m = "info"
  <2>1. s = infoHop(q)
    BY <1>8 DEF CanMove
  <2>2. PICK d : Moved(b, h, p, infoEnter([q EXCEPT !.info = s], d, b.rootAge))
    BY <1>8, OwnPortHop
  <2>3. Falls(q, infoEnter([q EXCEPT !.info = s], d, b.rootAge), 8)
    BY <1>0, <2>1, InfoFalls
  <2> QED
    BY <1>1, <2>2, <2>3
<1> QED
  BY <1>2, <1>3, <1>4, <1>5, <1>6, <1>7, <1>8


\* The transmit machine.
LEMMA TransmitLowers ==
  ASSUME NEW b, NEW K, BridgeOK(b, K), NEW p \in Ports, NEW s,
         s = transmitHop(b.port[p]), s # Stay
  PROVE  /\ Lowers(b, hop(b, <<"transmit", p, s>>))
         /\ hop(b, <<"transmit", p, s>>).rolesel = b.rolesel
<1> DEFINE q == [b.port[p] EXCEPT !.transmit = s]
           a == [b EXCEPT !.port[p]["transmit"] = s]
           h == hop(b, <<"transmit", p, s>>)
<1> SUFFICES Lowers(b, h) /\ h.rolesel = b.rolesel
  OBVIOUS
<1>0. PortOK(b.port[p], p, K) /\ DOMAIN b.port[p] = Fields
  BY DEF BridgeOK, PortOK
<1>1. s \in {"TRANSMIT_INIT", "IDLE", "TRANSMIT_PERIODIC", "TRANSMIT_RSTP", "TRANSMIT_CONFIG",
             "TRANSMIT_TCN"}
  BY <1>0, TransmitHop DEF PortOK, TimersOK
<1>2. Moved(b, a, p, q)
  BY StateOf
<1>3. a.port[p] = q /\ q.transmit = s
  BY <1>0, <1>2, IsField DEF Moved
<1>4. h = transmitEnter(a, p)
  BY DEF hop, enter
<1>5. DOMAIN q = Fields /\ q.newInfo = b.port[p].newInfo
      /\ \A f \in Fields \ SendFields : q[f] = b.port[p][f]
  BY <1>0, IsField DEF SendFields
<1> HIDE DEF a, h
<1>6. ASSUME NEW r, h.port[p] = r, OnlyAt(b, h, p), h.rolesel = b.rolesel,
             DOMAIN r = Fields, \A f \in Fields \ SendFields : r[f] = q[f], r.transmit = s,
             s = "IDLE" => r.newInfo = q.newInfo /\ r.helloWhen = HelloTime,
             s \in {"TRANSMIT_RSTP", "TRANSMIT_CONFIG", "TRANSMIT_TCN"} => ~r.newInfo
      PROVE  Lowers(b, h) /\ h.rolesel = b.rolesel
  <2>1. Alike(b.port[p], r, Fields \ SendFields)
    BY <1>5, <1>6 DEF Alike
  <2>2. s = "IDLE" => r.newInfo = b.port[p].newInfo /\ r.helloWhen = HelloTime
    BY <1>5, <1>6
  <2> HIDE DEF q
  <2>3. Falls(b.port[p], r, 8)
    BY <1>6, <2>1, <2>2, TransmitFalls
  <2>4. Falls(b.port[p], h.port[p], 8)
    BY <1>6, <2>3
  <2> QED
    BY <1>6, <2>4, OwnLowers
<1>7. \A f \in SendFields : f \in Fields
  BY DEF SendFields, Fields
<1> HIDE DEF q
<1>8. CASE s = "TRANSMIT_INIT"
  <2> DEFINE r == [q EXCEPT !.newInfo = TRUE, !.txCount = 0]
  <2>1. h = [a EXCEPT !.port[p] = r]
    BY <1>3, <1>4, <1>8 DEF transmitEnter
  <2>2. /\ DOMAIN r = Fields /\ \A f \in Fields \ SendFields : r[f] = q[f]
        /\ r.transmit = s
    BY <1>3, <1>5, IsField DEF SendFields
  <2> HIDE DEF r
  <2>3. h.port[p] = r /\ OnlyAt(b, h, p) /\ h.rolesel = b.rolesel
    BY <1>2, <2>1, ReplacePort DEF Moved, OnlyAt
  <2> QED
    BY <1>6, <1>8, <2>2, <2>3
<1>9. CASE s = "IDLE"
  <2> DEFINE r == [q EXCEPT !.helloWhen = HelloTime]
  <2>1. h = [a EXCEPT !.port[p] = r]
    <3>1. h = [a EXCEPT !.port[p] = [a.port[p] EXCEPT !.helloWhen = HelloTime]]
      BY <1>3, <1>4, <1>9 DEF transmitEnter
    <3> QED
      BY <1>3, <3>1
  <2>2. /\ DOMAIN r = Fields /\ \A f \in Fields \ SendFields : r[f] = q[f]
        /\ r.transmit = s /\ r.newInfo = q.newInfo /\ r.helloWhen = HelloTime
    BY <1>3, <1>5, IsField DEF SendFields
  <2> HIDE DEF r
  <2>3. h.port[p] = r /\ OnlyAt(b, h, p) /\ h.rolesel = b.rolesel
    BY <1>2, <2>1, ReplacePort DEF Moved, OnlyAt
  <2> QED
    BY <1>6, <1>9, <2>2, <2>3
<1>10. CASE s = "TRANSMIT_PERIODIC"
  <2> DEFINE v == q.newInfo \/ periodic(q)
             r == [q EXCEPT !.newInfo = v]
  <2>1. h = [a EXCEPT !.port[p] = r]
    <3>1. h = [a EXCEPT !.port[p] = [a.port[p] EXCEPT !.newInfo = @ \/ periodic(a.port[p])]]
      BY <1>3, <1>4, <1>10 DEF transmitEnter
    <3> QED
      BY <1>3, <3>1
  <2> HIDE DEF v
  <2>2. /\ DOMAIN r = Fields /\ \A f \in Fields \ SendFields : r[f] = q[f]
        /\ r.transmit = s
    BY <1>3, <1>5, IsField DEF SendFields
  <2> HIDE DEF r
  <2>3. h.port[p] = r /\ OnlyAt(b, h, p) /\ h.rolesel = b.rolesel
    BY <1>2, <2>1, ReplacePort DEF Moved, OnlyAt
  <2> QED
    BY <1>6, <1>10, <2>2, <2>3
<1>11. CASE s \in {"TRANSMIT_RSTP", "TRANSMIT_CONFIG", "TRANSMIT_TCN"}
  <2> DEFINE m == bpdu(a, p)
             r == [q EXCEPT !.newInfo = FALSE, !.txCount = @ + 1,
                            !.tcAck = @ /\ q.transmit = "TRANSMIT_TCN"]
  <2>1. h = [a EXCEPT !.port[p] = r, !.out = Append(@, <<p, m>>)]
    BY <1>3, <1>4, <1>11 DEF transmitEnter
  <2>2. /\ DOMAIN r = Fields /\ \A f \in Fields \ SendFields : r[f] = q[f]
        /\ r.transmit = s /\ ~r.newInfo
    BY <1>3, <1>5, IsField DEF SendFields
  <2> HIDE DEF m, r
  <2>3. h.port[p] = r /\ OnlyAt(b, h, p) /\ h.rolesel = b.rolesel
    BY <1>2, <2>1, IsBridgeField DEF Moved, OnlyAt
  <2> QED
    BY <1>6, <1>11, <2>2, <2>3
<1> QED
  BY <1>1, <1>8, <1>9, <1>10, <1>11

\* Hearing of a topology change raises a port at the last levels only.
LEMMA TcPropRises ==
  ASSUME NEW q, DOMAIN q = Fields, NEW v
  PROVE  /\ NoHigher(q, [q EXCEPT !.tcProp = v], 6)
         /\ (v <=> q.tcProp) => NoHigher(q, [q EXCEPT !.tcProp = v], 8)
<1> DEFINE r == [q EXCEPT !.tcProp = v]
           Others == Before \cup RoleFields \cup FlowFields \cup NewsFields \cup PassFields
<1>1. Others \subseteq Fields
  BY DEF Others, Before, RoleFields, FlowFields, NewsFields, PassFields,
         InputFields, OrderFields, TalkFields, VersionFields, DuplexFields, WaitFields, Fields
<1>2. "tcProp" \notin Others
  BY DEF Others, Before, RoleFields, FlowFields, NewsFields, PassFields,
         InputFields, OrderFields, TalkFields, VersionFields, DuplexFields, WaitFields
<1>3. \A f \in Others : r[f] = q[f]
  <2> HIDE DEF Others
  <2> QED
    BY <1>1, <1>2
<1>9. r.topoch = q.topoch /\ r.learn = q.learn /\ r.rcvdTcAck = q.rcvdTcAck
      /\ r.newInfo = q.newInfo /\ r.transmit = q.transmit /\ r.helloWhen = q.helloWhen
  OBVIOUS
<1>10. r.tcProp = v
  BY DEF Fields
<1> HIDE DEF r
<1>4. /\ Alike(q, r, Before) /\ Alike(q, r, RoleFields) /\ Alike(q, r, FlowFields)
      /\ Alike(q, r, NewsFields) /\ Alike(q, r, PassFields)
  BY <1>3 DEF Alike
<1>5. Steady(q, r) /\ WaitRank(r) = WaitRank(q)
  BY <1>4, BeforeAlike
<1>6. WorkRank(r) = WorkRank(q)
  BY <1>4, RoleAlike, FlowAlike, NewsAlike, PassAlike DEF WorkRank
<1>7. NoHigher(q, r, 6)
  BY <1>5, <1>6, RankIs, RanksAre DEF NoHigher, Steady, Undisturbed
<1>11. ASSUME v <=> q.tcProp PROVE NoHigher(q, r, 8)
  <2>1. One(r.tcProp) = One(q.tcProp)
    BY <1>10, <1>11 DEF One
  <2>2. NoticeRank(r) = NoticeRank(q) /\ SendRank(r) = SendRank(q)
    BY <1>9, <2>1 DEF NoticeRank, SendRank
  <2> QED
    BY <1>5, <1>6, <2>2, RankIs, RanksAre DEF NoHigher, Steady, Undisturbed
<1> QED
  BY <1>7, <1>11 DEF r

\* The topology change machine.
LEMMA TopochLowers ==
  ASSUME NEW b, NEW K, BridgeOK(b, K), NEW p \in Ports, NEW s,
         s = topochHop(b.port[p]), s # Stay
  PROVE  /\ Lowers(b, hop(b, <<"topoch", p, s>>))
         /\ hop(b, <<"topoch", p, s>>).rolesel = b.rolesel
<1> DEFINE q == [b.port[p] EXCEPT !.topoch = s]
           a == [b EXCEPT !.port[p]["topoch"] = s]
           r == topochOwn(q)
           f == [o \in Ports |-> IF o = p THEN r
                   ELSE [a.port[o] EXCEPT !.tcProp = @ \/ r.topoch \in {"DETECTED", "NOTIFIED_TC"}]]
           c == [a EXCEPT !.port = f]
           h == hop(b, <<"topoch", p, s>>)
<1> SUFFICES Lowers(b, h) /\ h.rolesel = b.rolesel
  OBVIOUS
<1>0. \A o \in Ports : PortOK(b.port[o], o, K) /\ DOMAIN b.port[o] = Fields
  BY DEF BridgeOK, PortOK
<1>1. /\ Falls(b.port[p], r, 8) /\ r.topoch = s
      /\ s \in {"DETECTED", "NOTIFIED_TC"} => Falls(b.port[p], r, 6)
  BY <1>0, TopochFalls
<1>2. Moved(b, a, p, q)
  BY StateOf
<1>3. a.port[p] = q /\ \A o \in Ports \ {p} : a.port[o] = b.port[o]
  BY <1>2 DEF Moved
<1>4. h = topochEnter(a, p)
  BY DEF hop, enter
<1> HIDE DEF q, a
<1>5. h = c
  BY <1>3, <1>4, EvaluatedIs DEF topochEnter
<1> HIDE DEF h, r
<1>6. h.port = f /\ h.rolesel = b.rolesel
  BY <1>2, <1>5, IsBridgeField DEF Moved
<1>7. h.port[p] = r
  BY <1>6
<1>8. ASSUME NEW o \in Ports \ {p}
      PROVE  h.port[o] = [b.port[o] EXCEPT
                            !.tcProp = @ \/ s \in {"DETECTED", "NOTIFIED_TC"}]
  BY <1>1, <1>3, <1>6
<1> HIDE DEF f, c
<1>9. CASE s \in {"DETECTED", "NOTIFIED_TC"}
  <2>1. Falls(b.port[p], h.port[p], 6)
    BY <1>1, <1>7, <1>9
  <2>2. ASSUME NEW o \in Ports \ {p} PROVE NoHigher(b.port[o], h.port[o], 6)
    <3> DEFINE v == b.port[o].tcProp \/ s \in {"DETECTED", "NOTIFIED_TC"}
    <3>1. h.port[o] = [b.port[o] EXCEPT !.tcProp = v]
      BY <1>8
    <3> HIDE DEF v
    <3>2. NoHigher(b.port[o], [b.port[o] EXCEPT !.tcProp = v], 6)
      BY <1>0, TcPropRises
    <3> QED
      BY <3>1, <3>2
  <2>3. 6 \in 1 .. 8
    OBVIOUS
  <2> QED
    BY <1>6, <2>1, <2>2, <2>3, PortLowers
<1>10. CASE s \notin {"DETECTED", "NOTIFIED_TC"}
  <2>1. Falls(b.port[p], h.port[p], 8)
    BY <1>1, <1>7
  <2>2. ASSUME NEW o \in Ports \ {p} PROVE NoHigher(b.port[o], h.port[o], 8)
    <3> DEFINE v == b.port[o].tcProp \/ s \in {"DETECTED", "NOTIFIED_TC"}
    <3>1. h.port[o] = [b.port[o] EXCEPT !.tcProp = v]
      BY <1>8
    <3>2. v <=> b.port[o].tcProp
      BY <1>10
    <3> HIDE DEF v
    <3>3. NoHigher(b.port[o], [b.port[o] EXCEPT !.tcProp = v], 8)
      BY <1>0, <3>2, TcPropRises
    <3> QED
      BY <3>1, <3>3
  <2>3. 8 \in 1 .. 8
    OBVIOUS
  <2> QED
    BY <1>6, <2>1, <2>2, <2>3, PortLowers
<1> QED
  BY <1>9, <1>10


-----------------------------------------------------------------------------
(* The role transition machine.  Each of its hops has a reason that entering the state      *)
(* takes away.                                                                             *)
RootWhy(q, s) ==
  \/ s = "REROOT" /\ ~q.forward /\ ~q.reRoot
  \/ s = "ROOT_AGREED" /\ (~q.agree \/ q.proposed)
  \/ s = "ROOT_PROPOSED" /\ q.proposed
  \/ s = "ROOT_FORWARD" /\ ~q.forward
  \/ s = "ROOT_LEARN" /\ ~q.learn
  \/ s = "REROOTED" /\ q.reRoot /\ q.forward
  \/ s = "ROOT_PORT" /\ q.rrWhile # ForwardDelay
DesignatedWhy(q, s) ==
  \/ s = "DESIGNATED_PROPOSE" /\ ~q.proposing
  \/ s = "DESIGNATED_RETIRED" /\ q.reRoot
  \/ s = "DESIGNATED_SYNCED" /\ (q.sync \/ ~q.synced)
  \/ s = "DESIGNATED_FORWARD" /\ ~q.forward /\ ~Retires(q)
  \/ s = "DESIGNATED_LEARN" /\ ~q.learn /\ ~Retires(q)
  \/ s = "DESIGNATED_DISCARD" /\ (Retires(q) \/ q.disputed) /\ (q.learn \/ q.forward)
AlternateWhy(q, s) ==
  \/ s = "ALTERNATE_PROPOSED" /\ q.proposed
  \/ s = "ALTERNATE_AGREED" /\ (~q.agree \/ q.proposed)
  \/ s = "BACKUP_PORT" /\ q.role = "Backup" /\ q.rbWhile # 2 * HelloTime
  \/ s = "ALTERNATE_PORT" /\ (q.fdWhile # forward_del(q) \/ q.sync \/ q.reRoot \/ ~q.synced)
DisabledWhy(q, s) ==
  /\ s = "DISABLED_PORT"
  /\ q.roletrns = "DISABLED_PORT" => q.fdWhile # MaxAge \/ q.sync \/ q.reRoot \/ ~q.synced

\* Why a Root port hops.
LEMMA RootHopIs ==
  ASSUME NEW q, NEW synced, NEW rerooted, NEW s, s = rootHop(q, synced, rerooted), s # Stay
  PROVE  RootWhy(q, s)
<1> DEFINE may == q.fdWhile = 0 \/ (rerooted /\ q.rbWhile = 0)
           table == <<
             << ~q.forward /\ ~q.reRoot, "REROOT" >>,
             << (synced /\ ~q.agree) \/ (q.proposed /\ q.agree), "ROOT_AGREED" >>,
             << q.proposed /\ ~q.agree, "ROOT_PROPOSED" >>,
             << may /\ q.learn /\ ~q.forward, "ROOT_FORWARD" >>,
             << may /\ ~q.learn, "ROOT_LEARN" >>,
             << q.reRoot /\ q.forward, "REROOTED" >>,
             << q.rrWhile # ForwardDelay, "ROOT_PORT" >> >>
<1>1. DOMAIN table = 1 .. 7
  OBVIOUS
<1>2. /\ table[1][2] = "REROOT" /\ (table[1][1] => ~q.forward /\ ~q.reRoot)
      /\ table[2][2] = "ROOT_AGREED" /\ (table[2][1] => ~q.agree \/ q.proposed)
      /\ table[3][2] = "ROOT_PROPOSED" /\ (table[3][1] => q.proposed)
      /\ table[4][2] = "ROOT_FORWARD" /\ (table[4][1] => ~q.forward)
      /\ table[5][2] = "ROOT_LEARN" /\ (table[5][1] => ~q.learn)
      /\ table[6][2] = "REROOTED" /\ (table[6][1] => q.reRoot /\ q.forward)
      /\ table[7][2] = "ROOT_PORT" /\ (table[7][1] => q.rrWhile # ForwardDelay)
  OBVIOUS
<1>3. s = First(table)
  BY DEF rootHop
<1> HIDE DEF table
<1>4. PICK i \in 1 .. 7 : table[i][1] /\ s = table[i][2]
  BY <1>1, <1>3, FirstHolds
<1>5. i = 1 \/ i = 2 \/ i = 3 \/ i = 4 \/ i = 5 \/ i = 6 \/ i = 7
  OBVIOUS
<1> QED
  BY <1>2, <1>4, <1>5 DEF RootWhy

\* Why a Designated port hops.
LEMMA DesignatedHopIs ==
  ASSUME NEW q, NEW s, s = designatedHop(q), s # Stay
  PROVE  DesignatedWhy(q, s)
<1> DEFINE may == /\ q.fdWhile = 0 \/ q.agreed \/ q.operEdge
                  /\ q.rrWhile = 0 \/ ~q.reRoot
                  /\ ~q.sync
           table == <<
             << ~q.forward /\ ~q.agreed /\ ~q.proposing /\ ~q.operEdge, "DESIGNATED_PROPOSE" >>,
             << q.rrWhile = 0 /\ q.reRoot, "DESIGNATED_RETIRED" >>,
             << IF q.synced THEN q.sync
                            ELSE (~q.learning /\ ~q.forwarding) \/ q.agreed \/ q.operEdge,
                "DESIGNATED_SYNCED" >>,
             << may /\ q.learn /\ ~q.forward, "DESIGNATED_FORWARD" >>,
             << may /\ ~q.learn, "DESIGNATED_LEARN" >>,
             << /\ (q.sync /\ ~q.synced) \/ (q.reRoot /\ q.rrWhile # 0) \/ q.disputed
                /\ ~q.operEdge /\ (q.learn \/ q.forward), "DESIGNATED_DISCARD" >> >>
<1>1. DOMAIN table = 1 .. 6
  OBVIOUS
<1>2. /\ table[1][2] = "DESIGNATED_PROPOSE" /\ (table[1][1] => ~q.proposing)
      /\ table[2][2] = "DESIGNATED_RETIRED" /\ (table[2][1] => q.reRoot)
      /\ table[3][2] = "DESIGNATED_SYNCED" /\ (table[3][1] => q.sync \/ ~q.synced)
  OBVIOUS
<1>3. /\ table[4][2] = "DESIGNATED_FORWARD" /\ (table[4][1] => ~q.forward /\ ~Retires(q))
      /\ table[5][2] = "DESIGNATED_LEARN" /\ (table[5][1] => ~q.learn /\ ~Retires(q))
  BY DEF Retires
<1>4. /\ table[6][2] = "DESIGNATED_DISCARD"
      /\ (table[6][1] => (Retires(q) \/ q.disputed) /\ (q.learn \/ q.forward))
  BY DEF Retires
<1>5. s = First(table)
  BY DEF designatedHop
<1> HIDE DEF table
<1>6. PICK i \in 1 .. 6 : table[i][1] /\ s = table[i][2]
  BY <1>1, <1>5, FirstHolds
<1>7. i = 1 \/ i = 2 \/ i = 3 \/ i = 4 \/ i = 5 \/ i = 6
  OBVIOUS
<1> QED
  BY <1>2, <1>3, <1>4, <1>6, <1>7 DEF DesignatedWhy

\* Why an Alternate or a Backup port hops.
LEMMA AlternateHopIs ==
  ASSUME NEW q, NEW synced, NEW s, s = alternateHop(q, synced), s # Stay
  PROVE  AlternateWhy(q, s)
<1> DEFINE table == <<
  << ~q.agree /\ q.proposed, "ALTERNATE_PROPOSED" >>,
  << (synced /\ ~q.agree) \/ (q.proposed /\ q.agree), "ALTERNATE_AGREED" >>,
  << q.rbWhile # 2 * HelloTime /\ q.role = "Backup", "BACKUP_PORT" >>,
  << q.fdWhile # forward_del(q) \/ q.sync \/ q.reRoot \/ ~q.synced, "ALTERNATE_PORT" >> >>
<1>1. DOMAIN table = 1 .. 4
  OBVIOUS
<1>2. /\ table[1][2] = "ALTERNATE_PROPOSED" /\ (table[1][1] => q.proposed)
      /\ table[2][2] = "ALTERNATE_AGREED" /\ (table[2][1] => ~q.agree \/ q.proposed)
      /\ table[3][2] = "BACKUP_PORT"
      /\ (table[3][1] => q.role = "Backup" /\ q.rbWhile # 2 * HelloTime)
      /\ table[4][2] = "ALTERNATE_PORT"
      /\ (table[4][1] => q.fdWhile # forward_del(q) \/ q.sync \/ q.reRoot \/ ~q.synced)
  OBVIOUS
<1>3. s = First(table)
  BY DEF alternateHop
<1> HIDE DEF table
<1>4. PICK i \in 1 .. 4 : table[i][1] /\ s = table[i][2]
  BY <1>1, <1>3, FirstHolds
<1>5. i = 1 \/ i = 2 \/ i = 3 \/ i = 4
  OBVIOUS
<1> QED
  BY <1>2, <1>4, <1>5 DEF AlternateWhy

\* Where the role transition machine goes, and why.
RoleWhy(q, s) ==
  \/ q.roletrns = "BEGIN" /\ s = "INIT_PORT"
  \/ q.roletrns # "BEGIN" /\ q.role # q.selectedRole /\ s = OfRole[q.selectedRole]
  \/ q.roletrns \in DOMAIN Resting /\ s = Resting[q.roletrns]
  \/ q.roletrns \in {"DISABLE_PORT", "DISABLED_PORT"} /\ DisabledWhy(q, s)
  \/ q.roletrns = "ROOT_PORT" /\ RootWhy(q, s)
  \/ q.roletrns = "DESIGNATED_PORT" /\ DesignatedWhy(q, s)
  \/ q.roletrns = "ALTERNATE_PORT" /\ AlternateWhy(q, s)

\* There is no other reason for a hop of the role machine.
LEMMA RoletrnsHopIs ==
  ASSUME NEW b, NEW p, NEW K, PortOK(b.port[p], p, K),
         NEW s, s = roletrnsHop(b, p), s # Stay
  PROVE  RoleWhy(b.port[p], s)
<1> DEFINE q == b.port[p]
           ready == q.selected /\ ~q.updtInfo
<1>0. q.roletrns \in RootStates \cup DesignatedStates \cup OtherStates
  BY DEF PortOK, StatesOK
<1>1. CASE q.roletrns = "BEGIN"
  <2>1. s = "INIT_PORT"
    BY <1>1 DEF roletrnsHop
  <2> QED
    BY <1>1, <2>1 DEF RoleWhy
<1>2. CASE q.roletrns # "BEGIN" /\ ready /\ q.role # q.selectedRole
  <2>1. s = OfRole[q.selectedRole]
    BY <1>2 DEF roletrnsHop
  <2> QED
    BY <1>2, <2>1 DEF RoleWhy
<1>3. CASE q.roletrns # "BEGIN" /\ ~(ready /\ q.role # q.selectedRole)
  <2>1. CASE q.roletrns \in DOMAIN Resting
    <3>1. s = Resting[q.roletrns]
      BY <1>3, <2>1 DEF roletrnsHop
    <3> QED
      BY <2>1, <3>1 DEF RoleWhy
  <2>2. CASE q.roletrns \notin DOMAIN Resting
    <3>1. s = CASE q.roletrns \in {"DISABLE_PORT", "DISABLED_PORT"} -> disabledHop(q)
                [] q.roletrns = "ROOT_PORT" -> rootHop(q, allSynced(b), reRooted(b, p))
                [] q.roletrns = "DESIGNATED_PORT" -> designatedHop(q)
                [] q.roletrns = "ALTERNATE_PORT" -> alternateHop(q, allSynced(b))
      BY <1>3, <2>2 DEF roletrnsHop
    <3>2. CASE q.roletrns \in {"DISABLE_PORT", "DISABLED_PORT"}
      <4>1. DisabledWhy(q, s)
        BY <3>1, <3>2 DEF disabledHop, When, DisabledWhy
      <4> QED
        BY <3>2, <4>1 DEF RoleWhy
    <3>3. CASE q.roletrns = "ROOT_PORT"
      BY <3>1, <3>3, RootHopIs DEF RoleWhy
    <3>4. CASE q.roletrns = "DESIGNATED_PORT"
      BY <3>1, <3>4, DesignatedHopIs DEF RoleWhy
    <3>5. CASE q.roletrns = "ALTERNATE_PORT"
      BY <3>1, <3>5, AlternateHopIs DEF RoleWhy
    <3> QED
      BY <1>0, <1>3, <2>2, <3>2, <3>3, <3>4, <3>5, RestingAre
  <2> QED
    BY <2>1, <2>2
<1> QED
  BY <1>1, <1>2, <1>3


\* What the machine may write to a port.
RoleWrites ==
  {"roletrns", "role", "learn", "forward", "synced", "sync", "reRoot", "rrWhile", "fdWhile",
   "rbWhile", "proposed", "agree", "proposing", "disputed", "newInfo", "agreed",
   "edgeDelayWhile"}

\* None of it concerns the first two levels, the version of the protocol or the kind of link.
LEMMA RoleLeaves ==
  ASSUME NEW q, NEW r, Alike(q, r, Fields \ RoleWrites)
  PROVE  /\ Undisturbed(q, r) /\ VersionLeft(r) = VersionLeft(q) /\ DuplexLeft(r) = DuplexLeft(q)
         /\ r.updtInfo = q.updtInfo /\ r.selectedRole = q.selectedRole
         /\ r.sttrans = q.sttrans /\ r.info = q.info /\ r.topoch = q.topoch
         /\ r.rcvdTcn = q.rcvdTcn /\ r.rcvdTc = q.rcvdTc /\ r.operEdge = q.operEdge
         /\ r.sendRSTP = q.sendRSTP
<1> DEFINE Others == {"reselect", "updtInfo", "selectedRole", "sttrans", "info", "topoch",
                      "rcvdTcn", "rcvdTc", "operEdge", "sendRSTP"}
                     \cup InputFields \cup VersionFields \cup DuplexFields
<1>1. Others \subseteq Fields
  BY DEF Others, InputFields, VersionFields, DuplexFields, Fields
<1>2. Others \cap RoleWrites = {}
  BY DEF Others, InputFields, VersionFields, DuplexFields, RoleWrites
<1>3. \A f \in Others : r[f] = q[f]
  <2> HIDE DEF Others
  <2> QED
    BY <1>1, <1>2 DEF Alike
<1>4. /\ Alike(q, r, InputFields) /\ Alike(q, r, VersionFields) /\ Alike(q, r, DuplexFields)
      /\ r.reselect = q.reselect
      /\ r.updtInfo = q.updtInfo /\ r.selectedRole = q.selectedRole
      /\ r.sttrans = q.sttrans /\ r.info = q.info /\ r.topoch = q.topoch
      /\ r.rcvdTcn = q.rcvdTcn /\ r.rcvdTc = q.rcvdTc /\ r.operEdge = q.operEdge
      /\ r.sendRSTP = q.sendRSTP
  BY <1>3 DEF Alike
<1> QED
  BY <1>4, UndisturbedAlike, VersionAlike, DuplexAlike

\* So a port falls at level 3 by the role,
LEMMA RoleFallsAt3 ==
  ASSUME NEW q, NEW r, Alike(q, r, Fields \ RoleWrites), OrderRank(r) < OrderRank(q)
  PROVE  Falls(q, r, 8)
BY RoleLeaves, FallsAt3

\* at level 4 by what is to be said,
LEMMA RoleFallsAt4 ==
  ASSUME NEW q, NEW r, Alike(q, r, Fields \ RoleWrites), OrderRank(r) <= OrderRank(q),
         TalkLeft(r) < TalkLeft(q)
  PROVE  Falls(q, r, 4) /\ Falls(q, r, 8)
<1>1. RequestRank(r) < RequestRank(q)
  BY RoleLeaves, LeftAre DEF RequestRank
<1> QED
  BY <1>1, RoleLeaves, FallsAt4

\* at level 5 by the requests and the states,
LEMMA RoleFallsAt5 ==
  ASSUME NEW q, NEW r, Alike(q, r, Fields \ RoleWrites), OrderRank(r) <= OrderRank(q),
         TalkLeft(r) <= TalkLeft(q), WaitRank(r) < WaitRank(q)
  PROVE  Falls(q, r, 8)
<1>1. RequestRank(r) <= RequestRank(q)
  BY RoleLeaves, LeftAre DEF RequestRank
<1> QED
  BY <1>1, RoleLeaves, FallsAt5 DEF Steady

\* and at level 6 by the machine itself.
LEMMA RoleFallsAt6 ==
  ASSUME NEW q, NEW r, Alike(q, r, Fields \ RoleWrites), OrderRank(r) <= OrderRank(q),
         TalkLeft(r) <= TalkLeft(q), WaitRank(r) <= WaitRank(q),
         r.role = q.role, r.learn = q.learn, r.forward = q.forward,
         r.edgeDelayWhile = q.edgeDelayWhile, RoleLeft(r) < RoleLeft(q)
  PROVE  Falls(q, r, 8)
<1>1. RequestRank(r) <= RequestRank(q)
  BY RoleLeaves, LeftAre DEF RequestRank
<1>2. FlowLeft(r) = FlowLeft(q) /\ NewsLeft(r) = NewsLeft(q) /\ PassLeft(r) = PassLeft(q)
  <2>1. Alike(q, r, FlowFields) /\ Alike(q, r, NewsFields) /\ Alike(q, r, PassFields)
    BY RoleLeaves DEF Alike, FlowFields, NewsFields, PassFields
  <2> QED
    BY <2>1, FlowAlike, NewsAlike, PassAlike
<1>3. WorkRank(r) < WorkRank(q)
  BY <1>2, LeftAre DEF WorkRank
<1> QED
  BY <1>1, <1>3, RoleLeaves, FallsAt6 DEF Steady

\* Between states of a machine that is under way the order changes with the role only.
LEMMA OrderStays ==
  ASSUME NEW q, NEW r, Alike(q, r, Fields \ RoleWrites), r.role = q.role,
         r.roletrns \notin {"BEGIN", "INIT_PORT"}
  PROVE  OrderRank(r) <= OrderRank(q)
<1>0. \A c : One(c) \in {0, 1}
  BY DEF One
<1>1. r.updtInfo = q.updtInfo /\ r.selectedRole = q.selectedRole
  BY RoleLeaves
<1>2. OrderRank(r) = One(q.updtInfo) + One(q.role # q.selectedRole)
  <2>1. One(r.roletrns = "INIT_PORT") = 0
    BY DEF One
  <2> QED
    BY <1>0, <1>1, <2>1 DEF OrderRank
<1> QED
  BY <1>0, <1>2 DEF OrderRank

\* Taking a role, the first time and later.
LEMMA TakesRole ==
  ASSUME NEW q, NEW r, Alike(q, r, Fields \ RoleWrites), r.roletrns # "BEGIN",
         \/ q.roletrns = "BEGIN"
         \/ /\ r.roletrns # "INIT_PORT" /\ r.role = r.selectedRole
            /\ q.role # q.selectedRole \/ q.roletrns = "INIT_PORT"
  PROVE  Falls(q, r, 8)
<1>0. \A c : One(c) \in {0, 1}
  BY DEF One
<1>1. r.updtInfo = q.updtInfo /\ r.selectedRole = q.selectedRole
  BY RoleLeaves
<1>2. CASE q.roletrns = "BEGIN"
  <2>1. OrderRank(r) < OrderRank(q)
    BY <1>0, <1>1, <1>2 DEF OrderRank
  <2> QED
    BY <2>1, RoleFallsAt3
<1>3. CASE q.roletrns # "BEGIN"
  <2>1. One(r.role # r.selectedRole) = 0 /\ One(r.roletrns = "INIT_PORT") = 0
    BY <1>3 DEF One
  <2>2. One(q.role # q.selectedRole) = 1 \/ One(q.roletrns = "INIT_PORT") = 1
    BY <1>3 DEF One
  <2>3. OrderRank(r) < OrderRank(q)
    BY <1>0, <1>1, <1>3, <2>1, <2>2 DEF OrderRank
  <2> QED
    BY <2>3, RoleFallsAt3
<1> QED
  BY <1>2, <1>3

\* A machine that comes back to the resting state of its role.
LEMMA ComesToRest ==
  ASSUME NEW q, NEW r, Alike(q, r, Fields \ RoleWrites), r.role = q.role, r.learn = q.learn,
         r.forward = q.forward, r.edgeDelayWhile = q.edgeDelayWhile,
         OrderRank(r) <= OrderRank(q), TalkLeft(r) <= TalkLeft(q), WaitRank(r) <= WaitRank(q),
         r.rbWhile = q.rbWhile, r.roletrns \notin DOMAIN Resting, r.roletrns # "DISABLE_PORT",
         r.roletrns = "DISABLED_PORT" => r.fdWhile = MaxAge,
         r.roletrns = "ROOT_PORT" => r.rrWhile = ForwardDelay,
         r.roletrns = "ALTERNATE_PORT" => r.fdWhile = forward_del(r),
         \/ q.roletrns \in DOMAIN Resting \cup {"DISABLE_PORT"}
         \/ q.roletrns = "DISABLED_PORT" /\ q.fdWhile # MaxAge
         \/ q.roletrns = "ROOT_PORT" /\ q.rrWhile # ForwardDelay
         \/ q.roletrns = "ALTERNATE_PORT" /\ q.fdWhile # forward_del(q)
  PROVE  Falls(q, r, 8)
<1> DEFINE rests(x) == One(x.roletrns \in DOMAIN Resting \cup {"DISABLE_PORT"})
           set(x) == One(\/ x.roletrns = "DISABLED_PORT" /\ x.fdWhile # MaxAge
                         \/ x.roletrns = "ROOT_PORT" /\ x.rrWhile # ForwardDelay
                         \/ x.roletrns = "ALTERNATE_PORT" /\ x.fdWhile # forward_del(x))
           backup(x) == 2 * One(x.role = "Backup" /\ x.rbWhile # 2 * HelloTime)
<1>1. RoleLeft(r) = rests(r) + set(r) + backup(r) /\ RoleLeft(q) = rests(q) + set(q) + backup(q)
  BY DEF RoleLeft
<1>2. rests(r) = 0 /\ set(r) = 0
  BY DEF One
<1>3. rests(q) \in 0 .. 1 /\ set(q) \in 0 .. 1 /\ backup(q) \in 0 .. 2
  BY DEF One
<1>4. rests(q) = 1 \/ set(q) = 1
  BY DEF One
<1>5. backup(r) = backup(q)
  OBVIOUS
<1> HIDE DEF rests, set, backup
<1>6. RoleLeft(r) < RoleLeft(q)
  BY <1>1, <1>2, <1>3, <1>4, <1>5
<1> QED
  BY <1>6, RoleFallsAt6


\* What entering a state leaves of its reason, by the states.  First those that bring a port to
\* rest: its requests are met, and its timers set.
LEMMA RestFalls ==
  ASSUME NEW q, NEW p, NEW K, PortOK(q, p, K), NEW s, s \in {"DISABLED_PORT", "ALTERNATE_PORT"},
         RoleWhy(q, s)
  PROVE  Falls(q, roletrnsOwn([q EXCEPT !.roletrns = s]), 8)
<1> DEFINE r == roletrnsOwn([q EXCEPT !.roletrns = s])
<1> SUFFICES Falls(q, r, 8)
  OBVIOUS
<1>1. r = [q EXCEPT !.roletrns = s,
                    !.fdWhile = IF s = "DISABLED_PORT" THEN MaxAge ELSE forward_del(q),
                    !.synced = TRUE, !.rrWhile = 0, !.sync = FALSE, !.reRoot = FALSE]
  BY IsField DEF PortOK, roletrnsOwn, forward_del
<1> HIDE DEF r
<1>2. /\ r.roletrns = s /\ r.synced /\ r.rrWhile = 0 /\ ~r.sync /\ ~r.reRoot
      /\ r.fdWhile = (IF s = "DISABLED_PORT" THEN MaxAge ELSE forward_del(q))
      /\ r.role = q.role /\ r.learn = q.learn /\ r.forward = q.forward
      /\ r.rbWhile = q.rbWhile /\ r.proposed = q.proposed /\ r.agree = q.agree
      /\ r.proposing = q.proposing /\ r.disputed = q.disputed
      /\ r.edgeDelayWhile = q.edgeDelayWhile
  BY <1>1, IsField DEF PortOK
<1>3. Alike(q, r, Fields \ RoleWrites)
  BY <1>1 DEF Alike, RoleWrites, PortOK
<1>4. /\ q.roletrns \in {"DISABLE_PORT", "DISABLED_PORT", "ALTERNATE_PORT", "ALTERNATE_PROPOSED",
                         "ALTERNATE_AGREED", "BLOCK_PORT", "BACKUP_PORT"}
      /\ \/ q.roletrns \in DOMAIN Resting \cup {"DISABLE_PORT"}
         \/ q.sync \/ q.reRoot \/ ~q.synced
         \/ q.roletrns = "DISABLED_PORT" /\ s = "DISABLED_PORT" /\ q.fdWhile # MaxAge
         \/ q.roletrns = "ALTERNATE_PORT" /\ q.fdWhile # forward_del(q)
  <2>1. CASE q.roletrns # "BEGIN" /\ q.role # q.selectedRole /\ s = OfRole[q.selectedRole]
    <3>1. q.selectedRole \in AllRoles
      BY DEF PortOK, RolesOK
    <3> QED
      BY <2>1, <3>1, OfRoleIs
  <2>2. CASE q.roletrns \in DOMAIN Resting /\ s = Resting[q.roletrns]
    BY <2>2 DEF Resting
  <2>3. CASE q.roletrns \in {"DISABLE_PORT", "DISABLED_PORT"} /\ DisabledWhy(q, s)
    BY <2>3 DEF DisabledWhy
  <2>4. CASE q.roletrns = "ROOT_PORT" /\ RootWhy(q, s)
    BY <2>4 DEF RootWhy
  <2>5. CASE q.roletrns = "DESIGNATED_PORT" /\ DesignatedWhy(q, s)
    BY <2>5 DEF DesignatedWhy
  <2>6. CASE q.roletrns = "ALTERNATE_PORT" /\ AlternateWhy(q, s)
    BY <2>6 DEF AlternateWhy
  <2> QED
    BY <2>1, <2>2, <2>3, <2>4, <2>5, <2>6 DEF RoleWhy
<1>5. OrderRank(r) <= OrderRank(q)
  BY <1>2, <1>3, OrderStays
<1>6. TalkLeft(r) <= TalkLeft(q)
  <2>1. r.roletrns \notin RootStates /\ q.roletrns \notin RootStates
    BY <1>2, <1>4 DEF RootStates
  <2>2. /\ One(r.roletrns \in RootStates /\ ~r.forward /\ ~r.reRoot) = 0
        /\ One(q.roletrns \in RootStates /\ ~q.forward /\ ~q.reRoot) = 0
    BY <2>1 DEF One
  <2>3. \A c : One(c) \in 0 .. 1
    BY DEF One
  <2> QED
    BY <1>2, <2>2, <2>3 DEF TalkLeft
<1>7. /\ WaitRank(r) <= WaitRank(q)
      /\ q.sync \/ q.reRoot \/ ~q.synced => WaitRank(r) < WaitRank(q)
  <2>1. ~Retires(r) /\ (~q.sync /\ ~q.reRoot => ~Retires(q))
    BY <1>2 DEF Retires
  <2>2. ~q.sync /\ ~q.reRoot => StateLeft(r) = StateLeft(q)
    BY <1>2, <2>1 DEF StateLeft
  <2>3. /\ SyncLeft(r) <= SyncLeft(q)
        /\ q.sync \/ q.reRoot \/ ~q.synced => SyncLeft(r) < SyncLeft(q)
    BY <1>2 DEF SyncLeft, One
  <2> QED
    BY <2>2, <2>3, LeftAre DEF WaitRank
<1>8. CASE q.sync \/ q.reRoot \/ ~q.synced
  BY <1>3, <1>5, <1>6, <1>7, <1>8, RoleFallsAt5
<1>9. CASE ~(q.sync \/ q.reRoot \/ ~q.synced)
  <2>1. forward_del(r) = forward_del(q)
    BY <1>3, RoleLeaves DEF forward_del
  <2>2. r.roletrns \notin DOMAIN Resting /\ r.roletrns # "DISABLE_PORT" /\ r.roletrns # "ROOT_PORT"
    BY <1>2 DEF Resting
  <2> QED
    BY <1>2, <1>3, <1>4, <1>5, <1>6, <1>7, <1>9, <2>1, <2>2, ComesToRest
<1> QED
  BY <1>8, <1>9

\* Taking a role: the first state, the two that leave a role, and the two resting states.
LEMMA TakeFalls ==
  ASSUME NEW q, NEW p, NEW K, PortOK(q, p, K), NEW s, s # "BEGIN",
         \/ q.roletrns = "BEGIN" /\ s = "INIT_PORT"
         \/ q.role # q.selectedRole /\ s = OfRole[q.selectedRole]
         \/ q.roletrns = "INIT_PORT" /\ s = "DISABLE_PORT"
  PROVE  Falls(q, roletrnsOwn([q EXCEPT !.roletrns = s]), 8)
<1> DEFINE r == roletrnsOwn([q EXCEPT !.roletrns = s])
<1> SUFFICES Falls(q, r, 8)
  OBVIOUS
<1>0. q.selectedRole \in AllRoles
  BY DEF PortOK, RolesOK
<1>1. CASE s = "INIT_PORT"
  <2>0. q.roletrns = "BEGIN"
    BY <1>0, <1>1, OfRoleIs
  <2>1. r = [q EXCEPT !.roletrns = s, !.role = "Disabled", !.learn = FALSE,
                      !.forward = FALSE, !.synced = FALSE,
                      !.sync = TRUE, !.reRoot = TRUE, !.rrWhile = ForwardDelay,
                      !.fdWhile = MaxAge, !.rbWhile = 0]
    BY <1>1, IsField DEF PortOK, roletrnsOwn
  <2> HIDE DEF r
  <2>2. r.roletrns = s
    BY <2>1, IsField DEF PortOK
  <2>3. Alike(q, r, Fields \ RoleWrites)
    BY <2>1 DEF Alike, RoleWrites, PortOK
  <2> QED
    BY <2>0, <2>2, <2>3, TakesRole
<1>2. CASE s \in {"DISABLE_PORT", "BLOCK_PORT"}
  <2>1. r = [q EXCEPT !.roletrns = s, !.role = q.selectedRole, !.learn = FALSE,
                      !.forward = FALSE]
    BY <1>2, IsField DEF PortOK, roletrnsOwn
  <2> HIDE DEF r
  <2>2. r.roletrns = s /\ r.role = q.selectedRole
    BY <2>1, IsField DEF PortOK
  <2>3. Alike(q, r, Fields \ RoleWrites)
    BY <2>1 DEF Alike, RoleWrites, PortOK
  <2>4. r.selectedRole = q.selectedRole
    BY <2>3, RoleLeaves
  <2> QED
    BY <1>2, <2>2, <2>3, <2>4, TakesRole
<1>3. CASE s = "ROOT_PORT"
  <2>0. q.selectedRole = "Root" /\ q.role # q.selectedRole
    BY <1>0, <1>3 DEF OfRole, AllRoles
  <2>1. r = [q EXCEPT !.roletrns = s, !.role = "Root", !.rrWhile = ForwardDelay]
    BY <1>3, IsField DEF PortOK, roletrnsOwn
  <2> HIDE DEF r
  <2>2. r.roletrns = s /\ r.role = "Root"
    BY <2>1, IsField DEF PortOK
  <2>3. Alike(q, r, Fields \ RoleWrites)
    BY <2>1 DEF Alike, RoleWrites, PortOK
  <2>4. r.selectedRole = q.selectedRole
    BY <2>3, RoleLeaves
  <2> QED
    BY <1>3, <2>0, <2>2, <2>3, <2>4, TakesRole
<1>4. CASE s = "DESIGNATED_PORT"
  <2>0. q.selectedRole = "Designated" /\ q.role # q.selectedRole
    BY <1>0, <1>4 DEF OfRole, AllRoles
  <2>1. r = [q EXCEPT !.roletrns = s, !.role = "Designated"]
    BY <1>4, IsField DEF PortOK, roletrnsOwn
  <2> HIDE DEF r
  <2>2. r.roletrns = s /\ r.role = "Designated"
    BY <2>1, IsField DEF PortOK
  <2>3. Alike(q, r, Fields \ RoleWrites)
    BY <2>1 DEF Alike, RoleWrites, PortOK
  <2>4. r.selectedRole = q.selectedRole
    BY <2>3, RoleLeaves
  <2> QED
    BY <1>4, <2>0, <2>2, <2>3, <2>4, TakesRole
<1> QED
  BY <1>0, <1>1, <1>2, <1>3, <1>4, OfRoleIs


\* The states of a Root port.
LEMMA RootFalls ==
  ASSUME NEW q, NEW p, NEW K, PortOK(q, p, K), q.roletrns \in RootStates, NEW s,
         s \in {"ROOT_PORT", "ROOT_AGREED", "REROOTED", "ROOT_LEARN", "ROOT_FORWARD"},
         \/ q.roletrns \in DOMAIN Resting /\ s = "ROOT_PORT"
         \/ q.roletrns = "ROOT_PORT" /\ RootWhy(q, s)
  PROVE  Falls(q, roletrnsOwn([q EXCEPT !.roletrns = s]), 8)
<1> DEFINE r == roletrnsOwn([q EXCEPT !.roletrns = s])
<1> SUFFICES Falls(q, r, 8)
  OBVIOUS
<1>0. q.role = "Root" /\ s \in RootStates
  BY DEF PortOK, RolesOK, RootStates
<1>one. \A c : One(c) \in 0 .. 1
  BY DEF One
<1>1. CASE s = "ROOT_PORT"
  <2>1. r = [q EXCEPT !.roletrns = s, !.role = "Root", !.rrWhile = ForwardDelay]
    BY <1>1, IsField DEF PortOK, roletrnsOwn
  <2> HIDE DEF r
  <2>2. /\ r.roletrns = s /\ r.role = q.role /\ r.rrWhile = ForwardDelay
        /\ r.learn = q.learn /\ r.forward = q.forward /\ r.rbWhile = q.rbWhile
        /\ r.edgeDelayWhile = q.edgeDelayWhile /\ r.proposed = q.proposed
        /\ r.agree = q.agree /\ r.proposing = q.proposing /\ r.reRoot = q.reRoot
        /\ r.sync = q.sync /\ r.synced = q.synced /\ r.disputed = q.disputed
    BY <1>0, <2>1, IsField DEF PortOK
  <2>3. Alike(q, r, Fields \ RoleWrites)
    BY <2>1 DEF Alike, RoleWrites, PortOK
  <2>4. OrderRank(r) <= OrderRank(q)
    BY <1>1, <2>2, <2>3, OrderStays
  <2>5. TalkLeft(r) = TalkLeft(q)
    BY <1>0, <2>2 DEF TalkLeft
  <2>6. WaitRank(r) = WaitRank(q)
    BY <1>0, <2>2 DEF WaitRank, SyncLeft, StateLeft
  <2>7. q.roletrns = "ROOT_PORT" => q.rrWhile # ForwardDelay
    BY <1>1 DEF RootWhy, Resting
  <2>8. r.roletrns \notin DOMAIN Resting /\ r.roletrns # "DISABLE_PORT"
        /\ r.roletrns # "DISABLED_PORT" /\ r.roletrns # "ALTERNATE_PORT"
    BY <1>1, <2>2 DEF Resting
  <2>9. TalkLeft(r) <= TalkLeft(q) /\ WaitRank(r) <= WaitRank(q)
    BY <2>5, <2>6, LeftAre, RanksAre
  <2> QED
    BY <2>2, <2>3, <2>4, <2>7, <2>8, <2>9, ComesToRest
<1>2. CASE s = "ROOT_AGREED"
  <2>1. r = [q EXCEPT !.roletrns = s, !.proposed = FALSE, !.sync = FALSE, !.agree = TRUE,
                      !.newInfo = TRUE]
    BY <1>2, IsField DEF PortOK, roletrnsOwn
  <2> HIDE DEF r
  <2>2. /\ r.roletrns = s /\ r.role = q.role /\ ~r.proposed /\ r.agree
        /\ r.forward = q.forward /\ r.proposing = q.proposing /\ r.reRoot = q.reRoot
    BY <1>0, <2>1, IsField DEF PortOK
  <2>3. Alike(q, r, Fields \ RoleWrites)
    BY <2>1 DEF Alike, RoleWrites, PortOK
  <2>4. OrderRank(r) <= OrderRank(q)
    BY <1>2, <2>2, <2>3, OrderStays
  <2>5. ~q.agree \/ q.proposed
    BY <1>2 DEF RootWhy
  <2>6. /\ One(r.proposed) = 0 /\ One(~r.agree) = 0
        /\ One(q.proposed) = 1 \/ One(~q.agree) = 1
        /\ One(r.roletrns \in RootStates /\ ~r.forward /\ ~r.reRoot)
             = One(q.roletrns \in RootStates /\ ~q.forward /\ ~q.reRoot)
    BY <1>0, <2>2, <2>5 DEF One
  <2>7. TalkLeft(r) < TalkLeft(q)
    BY <1>one, <2>2, <2>6 DEF TalkLeft
  <2> QED
    BY <2>3, <2>4, <2>7, RoleFallsAt4
<1>3. CASE s = "REROOTED"
  <2>1. r = [q EXCEPT !.roletrns = s, !.reRoot = FALSE]
    BY <1>3, IsField DEF PortOK, roletrnsOwn
  <2> HIDE DEF r
  <2>2. /\ r.roletrns = s /\ r.role = q.role /\ ~r.reRoot /\ r.learn = q.learn
        /\ r.forward = q.forward /\ r.proposed = q.proposed
        /\ r.agree = q.agree /\ r.proposing = q.proposing
        /\ r.sync = q.sync /\ r.synced = q.synced /\ r.disputed = q.disputed
    BY <1>0, <2>1, IsField DEF PortOK
  <2>3. Alike(q, r, Fields \ RoleWrites)
    BY <2>1 DEF Alike, RoleWrites, PortOK
  <2>4. OrderRank(r) <= OrderRank(q)
    BY <1>3, <2>2, <2>3, OrderStays
  <2>5. q.reRoot /\ q.forward
    BY <1>3 DEF RootWhy
  <2>6. TalkLeft(r) <= TalkLeft(q)
    <3>1. /\ One(r.roletrns \in RootStates /\ ~r.forward /\ ~r.reRoot) = 0
          /\ One(q.roletrns \in RootStates /\ ~q.forward /\ ~q.reRoot) = 0
      BY <2>2, <2>5 DEF One
    <3> QED
      BY <1>one, <2>2, <3>1 DEF TalkLeft
  <2>7. WaitRank(r) < WaitRank(q)
    <3>1. SyncLeft(r) < SyncLeft(q)
      BY <1>one, <2>2, <2>5 DEF SyncLeft, One
    <3>2. StateLeft(r) = StateLeft(q)
      BY <1>0, <2>2 DEF StateLeft
    <3> QED
      BY <3>1, <3>2, LeftAre DEF WaitRank
  <2> QED
    BY <2>3, <2>4, <2>6, <2>7, RoleFallsAt5
<1>4. CASE s = "ROOT_LEARN"
  <2>1. r = [q EXCEPT !.roletrns = s, !.fdWhile = ForwardDelay, !.learn = TRUE]
    BY <1>4, IsField DEF PortOK, roletrnsOwn
  <2> HIDE DEF r
  <2>2. /\ r.roletrns = s /\ r.role = q.role /\ r.reRoot = q.reRoot /\ r.learn
        /\ r.forward = q.forward /\ r.proposed = q.proposed
        /\ r.agree = q.agree /\ r.proposing = q.proposing
        /\ r.sync = q.sync /\ r.synced = q.synced /\ r.disputed = q.disputed
    BY <1>0, <2>1, IsField DEF PortOK
  <2>3. Alike(q, r, Fields \ RoleWrites)
    BY <2>1 DEF Alike, RoleWrites, PortOK
  <2>4. OrderRank(r) <= OrderRank(q)
    BY <1>4, <2>2, <2>3, OrderStays
  <2>5. ~q.learn
    BY <1>4 DEF RootWhy
  <2>6. TalkLeft(r) = TalkLeft(q)
    BY <1>0, <2>2 DEF TalkLeft
  <2>7. WaitRank(r) < WaitRank(q)
    <3>1. SyncLeft(r) = SyncLeft(q)
      BY <2>2 DEF SyncLeft
    <3>2. StateLeft(r) < StateLeft(q)
      BY <1>0, <2>2, <2>5 DEF StateLeft, One
    <3> QED
      BY <3>1, <3>2, LeftAre DEF WaitRank
  <2>8. TalkLeft(r) <= TalkLeft(q)
    BY <2>6, LeftAre
  <2> QED
    BY <2>3, <2>4, <2>7, <2>8, RoleFallsAt5
<1>5. CASE s = "ROOT_FORWARD"
  <2>1. r = [q EXCEPT !.roletrns = s, !.fdWhile = 0, !.forward = TRUE]
    BY <1>5, IsField DEF PortOK, roletrnsOwn
  <2> HIDE DEF r
  <2>2. /\ r.roletrns = s /\ r.role = q.role /\ r.reRoot = q.reRoot /\ r.learn = q.learn
        /\ r.forward /\ r.proposed = q.proposed
        /\ r.agree = q.agree /\ r.proposing = q.proposing
        /\ r.sync = q.sync /\ r.synced = q.synced /\ r.disputed = q.disputed
    BY <1>0, <2>1, IsField DEF PortOK
  <2>3. Alike(q, r, Fields \ RoleWrites)
    BY <2>1 DEF Alike, RoleWrites, PortOK
  <2>4. OrderRank(r) <= OrderRank(q)
    BY <1>5, <2>2, <2>3, OrderStays
  <2>5. ~q.forward
    BY <1>5 DEF RootWhy
  <2>6. TalkLeft(r) <= TalkLeft(q)
    <3>1. One(r.roletrns \in RootStates /\ ~r.forward /\ ~r.reRoot) = 0
      BY <2>2 DEF One
    <3> QED
      BY <1>one, <2>2, <3>1 DEF TalkLeft
  <2>7. WaitRank(r) < WaitRank(q)
    <3>1. SyncLeft(r) = SyncLeft(q)
      BY <2>2 DEF SyncLeft
    <3>2. StateLeft(r) < StateLeft(q)
      BY <1>0, <2>2, <2>5 DEF StateLeft, One
    <3> QED
      BY <3>1, <3>2, LeftAre DEF WaitRank
  <2> QED
    BY <2>3, <2>4, <2>6, <2>7, RoleFallsAt5
<1> QED
  BY <1>1, <1>2, <1>3, <1>4, <1>5

\* The states of a Designated port.
LEMMA DesignatedFalls ==
  ASSUME NEW q, NEW p, NEW K, PortOK(q, p, K), q.roletrns \in DesignatedStates, NEW s,
         \/ q.roletrns \in DOMAIN Resting /\ s = "DESIGNATED_PORT"
         \/ q.roletrns = "DESIGNATED_PORT" /\ DesignatedWhy(q, s)
  PROVE  Falls(q, roletrnsOwn([q EXCEPT !.roletrns = s]), 8)
<1> DEFINE r == roletrnsOwn([q EXCEPT !.roletrns = s])
<1> SUFFICES Falls(q, r, 8)
  OBVIOUS
<1>0. q.role = "Designated" /\ s \in DesignatedStates
  BY DEF PortOK, RolesOK, DesignatedStates, DesignatedWhy
<1>one. \A c : One(c) \in 0 .. 1
  BY DEF One
<1>root. s \notin RootStates /\ q.roletrns \notin RootStates /\ s \notin {"BEGIN", "INIT_PORT"}
  BY <1>0 DEF RootStates, DesignatedStates
<1>talk. ASSUME NEW t, t.roletrns = s, t.proposed = q.proposed, t.agree = q.agree,
                t.proposing \/ t.proposing = q.proposing
         PROVE  /\ TalkLeft(t) <= TalkLeft(q)
                /\ t.proposing /\ ~q.proposing => TalkLeft(t) < TalkLeft(q)
  <2>1. /\ One(t.roletrns \in RootStates /\ ~t.forward /\ ~t.reRoot) = 0
        /\ One(q.roletrns \in RootStates /\ ~q.forward /\ ~q.reRoot) = 0
    BY <1>root, <1>talk DEF One
  <2>2. /\ One(~t.proposing) <= One(~q.proposing)
        /\ t.proposing /\ ~q.proposing => One(~t.proposing) < One(~q.proposing)
    BY <1>talk DEF One
  <2> QED
    BY <1>one, <1>talk, <2>1, <2>2 DEF TalkLeft
<1>order. ASSUME NEW t, t.roletrns = s, t.role = q.role, Alike(q, t, Fields \ RoleWrites)
          PROVE  OrderRank(t) <= OrderRank(q)
  BY <1>root, <1>order, OrderStays
<1>1. CASE s = "DESIGNATED_PORT"
  <2>0. q.roletrns \in DOMAIN Resting
    BY <1>1 DEF DesignatedWhy
  <2>1. r = [q EXCEPT !.roletrns = s, !.role = "Designated"]
    BY <1>1, IsField DEF PortOK, roletrnsOwn
  <2> HIDE DEF r
  <2>2. /\ r.roletrns = s /\ r.role = q.role /\ r.rrWhile = q.rrWhile
        /\ r.learn = q.learn /\ r.forward = q.forward /\ r.rbWhile = q.rbWhile
        /\ r.edgeDelayWhile = q.edgeDelayWhile /\ r.proposed = q.proposed
        /\ r.agree = q.agree /\ r.proposing = q.proposing /\ r.reRoot = q.reRoot
        /\ r.sync = q.sync /\ r.synced = q.synced /\ r.disputed = q.disputed
    BY <1>0, <2>1, IsField DEF PortOK
  <2>3. Alike(q, r, Fields \ RoleWrites)
    BY <2>1 DEF Alike, RoleWrites, PortOK
  <2>4. WaitRank(r) = WaitRank(q)
    BY <2>2 DEF WaitRank, SyncLeft, StateLeft, Retires
  <2>5. r.roletrns \notin DOMAIN Resting /\ r.roletrns # "DISABLE_PORT"
        /\ r.roletrns # "DISABLED_PORT" /\ r.roletrns # "ALTERNATE_PORT"
        /\ r.roletrns # "ROOT_PORT"
    BY <1>1, <2>2 DEF Resting
  <2>6. OrderRank(r) <= OrderRank(q) /\ TalkLeft(r) <= TalkLeft(q)
    BY <1>talk, <1>order, <2>2, <2>3
  <2>7. WaitRank(r) <= WaitRank(q)
    BY <2>4, RanksAre
  <2> QED
    BY <2>0, <2>2, <2>3, <2>5, <2>6, <2>7, ComesToRest
<1>2. CASE s = "DESIGNATED_PROPOSE"
  <2>0. ~q.proposing
    BY <1>2 DEF DesignatedWhy
  <2>1. r = [q EXCEPT !.roletrns = s, !.proposing = TRUE, !.newInfo = TRUE,
                      !.edgeDelayWhile = IF q.operPointToPointMac THEN MigrateTime
                                                                  ELSE ForwardDelay]
    BY <1>2, IsField DEF PortOK, roletrnsOwn
  <2> HIDE DEF r
  <2>2. /\ r.roletrns = s /\ r.role = q.role /\ r.proposed = q.proposed
        /\ r.agree = q.agree /\ r.proposing
    BY <1>0, <2>1, IsField DEF PortOK
  <2>3. Alike(q, r, Fields \ RoleWrites)
    BY <2>1 DEF Alike, RoleWrites, PortOK
  <2>4. OrderRank(r) <= OrderRank(q) /\ TalkLeft(r) < TalkLeft(q)
    BY <1>talk, <1>order, <2>0, <2>2, <2>3
  <2> QED
    BY <2>3, <2>4, RoleFallsAt4
<1>3. CASE s = "DESIGNATED_RETIRED"
  <2>0. q.reRoot
    BY <1>3 DEF DesignatedWhy
  <2>1. r = [q EXCEPT !.roletrns = s, !.reRoot = FALSE]
    BY <1>3, IsField DEF PortOK, roletrnsOwn
  <2> HIDE DEF r
  <2>2. /\ r.roletrns = s /\ r.role = q.role /\ r.proposed = q.proposed
        /\ r.agree = q.agree /\ r.proposing = q.proposing /\ ~r.reRoot
        /\ r.sync = q.sync /\ r.synced = q.synced /\ r.disputed = q.disputed
    BY <1>0, <2>1, IsField DEF PortOK
  <2>3. Alike(q, r, Fields \ RoleWrites)
    BY <2>1 DEF Alike, RoleWrites, PortOK
  <2>4. OrderRank(r) <= OrderRank(q) /\ TalkLeft(r) <= TalkLeft(q)
    BY <1>talk, <1>order, <2>2, <2>3
  <2>5. SyncLeft(r) < SyncLeft(q)
    BY <1>one, <2>0, <2>2 DEF SyncLeft, One
  <2>6. WaitRank(r) < WaitRank(q)
    BY <2>5, LeftAre DEF WaitRank
  <2> QED
    BY <2>3, <2>4, <2>6, RoleFallsAt5
<1>4. CASE s = "DESIGNATED_SYNCED"
  <2>0. q.sync \/ ~q.synced
    BY <1>4 DEF DesignatedWhy
  <2>1. r = [q EXCEPT !.roletrns = s, !.rrWhile = 0, !.synced = TRUE, !.sync = FALSE]
    BY <1>4, IsField DEF PortOK, roletrnsOwn
  <2> HIDE DEF r
  <2>2. /\ r.roletrns = s /\ r.role = q.role /\ r.proposed = q.proposed
        /\ r.agree = q.agree /\ r.proposing = q.proposing /\ r.reRoot = q.reRoot
        /\ ~r.sync /\ r.synced /\ r.disputed = q.disputed
    BY <1>0, <2>1, IsField DEF PortOK
  <2>3. Alike(q, r, Fields \ RoleWrites)
    BY <2>1 DEF Alike, RoleWrites, PortOK
  <2>4. OrderRank(r) <= OrderRank(q) /\ TalkLeft(r) <= TalkLeft(q)
    BY <1>talk, <1>order, <2>2, <2>3
  <2>5. SyncLeft(r) < SyncLeft(q)
    BY <1>one, <2>0, <2>2 DEF SyncLeft, One
  <2>6. WaitRank(r) < WaitRank(q)
    BY <2>5, LeftAre DEF WaitRank
  <2> QED
    BY <2>3, <2>4, <2>6, RoleFallsAt5
<1>5. CASE s = "DESIGNATED_LEARN"
  <2>0. ~q.learn /\ ~Retires(q)
    BY <1>5 DEF DesignatedWhy
  <2>1. r = [q EXCEPT !.roletrns = s, !.fdWhile = ForwardDelay, !.learn = TRUE]
    BY <1>5, IsField DEF PortOK, roletrnsOwn
  <2> HIDE DEF r
  <2>2. /\ r.roletrns = s /\ r.role = q.role /\ r.proposed = q.proposed
        /\ r.agree = q.agree /\ r.proposing = q.proposing /\ r.reRoot = q.reRoot
        /\ r.sync = q.sync /\ r.synced = q.synced /\ r.disputed = q.disputed
        /\ r.learn /\ r.forward = q.forward /\ r.rrWhile = q.rrWhile
    BY <1>0, <2>1, IsField DEF PortOK
  <2>3. Alike(q, r, Fields \ RoleWrites)
    BY <2>1 DEF Alike, RoleWrites, PortOK
  <2>4. OrderRank(r) <= OrderRank(q) /\ TalkLeft(r) <= TalkLeft(q)
    BY <1>talk, <1>order, <2>2, <2>3
  <2>5. SyncLeft(r) = SyncLeft(q) /\ ~Retires(r)
    BY <2>0, <2>2 DEF SyncLeft, Retires
  <2>6. StateLeft(r) < StateLeft(q)
    BY <1>0, <2>0, <2>2, <2>5 DEF StateLeft, One
  <2>7. WaitRank(r) < WaitRank(q)
    BY <2>5, <2>6, LeftAre DEF WaitRank
  <2> QED
    BY <2>3, <2>4, <2>7, RoleFallsAt5
<1>6. CASE s = "DESIGNATED_FORWARD"
  <2>0. ~q.forward /\ ~Retires(q)
    BY <1>6 DEF DesignatedWhy
  <2>1. r = [q EXCEPT !.roletrns = s, !.fdWhile = 0, !.forward = TRUE,
                      !.agreed = q.sendRSTP]
    BY <1>6, IsField DEF PortOK, roletrnsOwn
  <2> HIDE DEF r
  <2>2. /\ r.roletrns = s /\ r.role = q.role /\ r.proposed = q.proposed
        /\ r.agree = q.agree /\ r.proposing = q.proposing /\ r.reRoot = q.reRoot
        /\ r.sync = q.sync /\ r.synced = q.synced /\ r.disputed = q.disputed
        /\ r.learn = q.learn /\ r.forward /\ r.rrWhile = q.rrWhile
    BY <1>0, <2>1, IsField DEF PortOK
  <2>3. Alike(q, r, Fields \ RoleWrites)
    BY <2>1 DEF Alike, RoleWrites, PortOK
  <2>4. OrderRank(r) <= OrderRank(q) /\ TalkLeft(r) <= TalkLeft(q)
    BY <1>talk, <1>order, <2>2, <2>3
  <2>5. SyncLeft(r) = SyncLeft(q) /\ ~Retires(r)
    BY <2>0, <2>2 DEF SyncLeft, Retires
  <2>6. StateLeft(r) < StateLeft(q)
    BY <1>0, <2>0, <2>2, <2>5 DEF StateLeft, One
  <2>7. WaitRank(r) < WaitRank(q)
    BY <2>5, <2>6, LeftAre DEF WaitRank
  <2> QED
    BY <2>3, <2>4, <2>7, RoleFallsAt5
<1>7. CASE s = "DESIGNATED_DISCARD"
  <2>0. (Retires(q) \/ q.disputed) /\ (q.learn \/ q.forward)
    BY <1>7 DEF DesignatedWhy
  <2>1. r = [q EXCEPT !.roletrns = s, !.learn = FALSE, !.forward = FALSE, !.disputed = FALSE,
                      !.fdWhile = ForwardDelay]
    BY <1>7, IsField DEF PortOK, roletrnsOwn
  <2> HIDE DEF r
  <2>2. /\ r.roletrns = s /\ r.role = q.role /\ r.proposed = q.proposed
        /\ r.agree = q.agree /\ r.proposing = q.proposing /\ r.reRoot = q.reRoot
        /\ r.sync = q.sync /\ r.synced = q.synced /\ ~r.disputed
        /\ ~r.learn /\ ~r.forward /\ r.rrWhile = q.rrWhile
    BY <1>0, <2>1, IsField DEF PortOK
  <2>3. Alike(q, r, Fields \ RoleWrites)
    BY <2>1 DEF Alike, RoleWrites, PortOK
  <2>4. OrderRank(r) <= OrderRank(q) /\ TalkLeft(r) <= TalkLeft(q)
    BY <1>talk, <1>order, <2>2, <2>3
  <2>5. /\ Retires(r) <=> Retires(q)
        /\ SyncLeft(r) <= SyncLeft(q)
        /\ q.disputed => SyncLeft(r) < SyncLeft(q)
    BY <1>one, <2>2 DEF SyncLeft, Retires, One
  <2>6. Retires(q) => StateLeft(r) < StateLeft(q)
    BY <1>0, <2>0, <2>2, <2>5 DEF StateLeft, One
  <2>7. WaitRank(r) < WaitRank(q)
    BY <2>0, <2>5, <2>6, LeftAre DEF WaitRank
  <2> QED
    BY <2>3, <2>4, <2>7, RoleFallsAt5
<1> QED
  BY <1>0, <1>1, <1>2, <1>3, <1>4, <1>5, <1>6, <1>7 DEF DesignatedStates


\* The states of an Alternate or a Backup port, but for the resting one.
LEMMA AlternateFalls ==
  ASSUME NEW q, NEW p, NEW K, PortOK(q, p, K), q.roletrns = "ALTERNATE_PORT", NEW s,
         s \in {"ALTERNATE_AGREED", "BACKUP_PORT"}, AlternateWhy(q, s)
  PROVE  Falls(q, roletrnsOwn([q EXCEPT !.roletrns = s]), 8)
<1> DEFINE r == roletrnsOwn([q EXCEPT !.roletrns = s])
<1> SUFFICES Falls(q, r, 8)
  OBVIOUS
<1>one. \A c : One(c) \in 0 .. 1
  BY DEF One
<1>root. s \notin RootStates /\ q.roletrns \notin RootStates /\ s \notin {"BEGIN", "INIT_PORT"}
  BY DEF RootStates
<1>1. CASE s = "ALTERNATE_AGREED"
  <2>0. ~q.agree \/ q.proposed
    BY <1>1 DEF AlternateWhy
  <2>1. r = [q EXCEPT !.roletrns = s, !.proposed = FALSE, !.agree = TRUE, !.newInfo = TRUE]
    BY <1>1, IsField DEF PortOK, roletrnsOwn
  <2> HIDE DEF r
  <2>2. /\ r.roletrns = s /\ r.role = q.role /\ ~r.proposed /\ r.agree
        /\ r.proposing = q.proposing
    BY <2>1, IsField DEF PortOK
  <2>3. Alike(q, r, Fields \ RoleWrites)
    BY <2>1 DEF Alike, RoleWrites, PortOK
  <2>4. OrderRank(r) <= OrderRank(q)
    BY <1>root, <2>2, <2>3, OrderStays
  <2>5. /\ One(r.roletrns \in RootStates /\ ~r.forward /\ ~r.reRoot) = 0
        /\ One(r.proposed) = 0 /\ One(~r.agree) = 0
        /\ One(q.proposed) = 1 \/ One(~q.agree) = 1
    BY <1>root, <2>0, <2>2 DEF One
  <2>6. TalkLeft(r) < TalkLeft(q)
    BY <1>one, <2>2, <2>5 DEF TalkLeft
  <2> QED
    BY <2>3, <2>4, <2>6, RoleFallsAt4
<1>2. CASE s = "BACKUP_PORT"
  <2>0. q.role = "Backup" /\ q.rbWhile # 2 * HelloTime
    BY <1>2 DEF AlternateWhy
  <2>1. r = [q EXCEPT !.roletrns = s, !.rbWhile = 2 * HelloTime]
    BY <1>2, IsField DEF PortOK, roletrnsOwn
  <2> HIDE DEF r
  <2>2. /\ r.roletrns = s /\ r.role = q.role /\ r.rrWhile = q.rrWhile
        /\ r.learn = q.learn /\ r.forward = q.forward /\ r.rbWhile = 2 * HelloTime
        /\ r.edgeDelayWhile = q.edgeDelayWhile /\ r.proposed = q.proposed
        /\ r.agree = q.agree /\ r.proposing = q.proposing /\ r.reRoot = q.reRoot
        /\ r.sync = q.sync /\ r.synced = q.synced /\ r.disputed = q.disputed
    BY <2>1, IsField DEF PortOK
  <2>3. Alike(q, r, Fields \ RoleWrites)
    BY <2>1 DEF Alike, RoleWrites, PortOK
  <2>4. OrderRank(r) <= OrderRank(q)
    BY <1>root, <2>2, <2>3, OrderStays
  <2>5. TalkLeft(r) <= TalkLeft(q)
    <3>1. /\ One(r.roletrns \in RootStates /\ ~r.forward /\ ~r.reRoot) = 0
          /\ One(q.roletrns \in RootStates /\ ~q.forward /\ ~q.reRoot) = 0
      BY <1>root, <2>2 DEF One
    <3> QED
      BY <1>one, <2>2, <3>1 DEF TalkLeft
  <2>6. WaitRank(r) = WaitRank(q)
    BY <2>2 DEF WaitRank, SyncLeft, StateLeft, Retires
  <2>7. RoleLeft(r) < RoleLeft(q)
    <3> DEFINE rests(x) == One(x.roletrns \in DOMAIN Resting \cup {"DISABLE_PORT"})
               set(x) == One(\/ x.roletrns = "DISABLED_PORT" /\ x.fdWhile # MaxAge
                             \/ x.roletrns = "ROOT_PORT" /\ x.rrWhile # ForwardDelay
                             \/ x.roletrns = "ALTERNATE_PORT" /\ x.fdWhile # forward_del(x))
               backup(x) == One(x.role = "Backup" /\ x.rbWhile # 2 * HelloTime)
    <3>1. /\ RoleLeft(r) = rests(r) + set(r) + 2 * backup(r)
          /\ RoleLeft(q) = rests(q) + set(q) + 2 * backup(q)
      BY DEF RoleLeft
    <3>2. backup(r) = 0 /\ backup(q) = 1 /\ set(r) = 0
      BY <1>2, <2>0, <2>2 DEF One
    <3>3. rests(r) \in 0 .. 1 /\ rests(q) \in 0 .. 1 /\ set(q) \in 0 .. 1
      BY DEF One
    <3> HIDE DEF rests, set, backup
    <3> QED
      BY <3>1, <3>2, <3>3
  <2>8. WaitRank(r) <= WaitRank(q)
    BY <2>6, RanksAre
  <2> QED
    BY <2>2, <2>3, <2>4, <2>5, <2>7, <2>8, RoleFallsAt6
<1> QED
  BY <1>1, <1>2

\* A request to the whole tree raises a port after level 4 only.
LEMMA TreeRises ==
  ASSUME NEW q, DOMAIN q = Fields
  PROVE  /\ NoHigher(q, [q EXCEPT !.sync = TRUE], 4)
         /\ NoHigher(q, [q EXCEPT !.reRoot = TRUE], 4)
<1>1. ASSUME NEW r, \A f \in Fields \ {"sync", "reRoot"} : r[f] = q[f],
             r.reRoot = q.reRoot \/ r.reRoot = TRUE
      PROVE  NoHigher(q, r, 4)
  <2> DEFINE Others == {"reselect", "proposed", "agree", "proposing", "roletrns", "forward"}
                       \cup InputFields \cup OrderFields \cup VersionFields \cup DuplexFields
  <2>1. Others \subseteq Fields
    BY DEF Others, InputFields, OrderFields, VersionFields, DuplexFields, Fields
  <2>2. "sync" \notin Others /\ "reRoot" \notin Others
    BY DEF Others, InputFields, OrderFields, VersionFields, DuplexFields
  <2>3. \A f \in Others : r[f] = q[f]
    <3> HIDE DEF Others
    <3> QED
      BY <1>1, <2>1, <2>2
  <2>4. /\ Alike(q, r, InputFields) /\ Alike(q, r, OrderFields) /\ Alike(q, r, VersionFields)
        /\ Alike(q, r, DuplexFields) /\ r.reselect = q.reselect /\ r.proposed = q.proposed
        /\ r.agree = q.agree /\ r.proposing = q.proposing /\ r.roletrns = q.roletrns
        /\ r.forward = q.forward
    BY <2>3 DEF Alike
  <2>5. TalkLeft(r) <= TalkLeft(q)
    <3>1. \A c : One(c) \in 0 .. 1
      BY DEF One
    <3>2. One(r.roletrns \in RootStates /\ ~r.forward /\ ~r.reRoot)
            <= One(q.roletrns \in RootStates /\ ~q.forward /\ ~q.reRoot)
      BY <1>1, <2>4 DEF One
    <3> QED
      BY <2>4, <3>1, <3>2 DEF TalkLeft
  <2>6. RequestRank(r) <= RequestRank(q)
    BY <2>4, <2>5, VersionAlike, DuplexAlike, LeftAre DEF RequestRank
  <2>7. Undisturbed(q, r) /\ OrderRank(r) <= OrderRank(q)
    BY <2>4, UndisturbedAlike, OrderAlike, RanksAre
  <2> QED
    BY <2>6, <2>7, RankIs DEF NoHigher, Undisturbed
<1>2. NoHigher(q, [q EXCEPT !.sync = TRUE], 4)
  <2> DEFINE r == [q EXCEPT !.sync = TRUE]
  <2>1. \A f \in Fields \ {"sync", "reRoot"} : r[f] = q[f]
    OBVIOUS
  <2>2. r.reRoot = q.reRoot
    BY IsField
  <2> HIDE DEF r
  <2>3. NoHigher(q, r, 4)
    BY <1>1, <2>1, <2>2
  <2> QED
    BY <2>3 DEF r
<1>3. NoHigher(q, [q EXCEPT !.reRoot = TRUE], 4)
  <2> DEFINE r == [q EXCEPT !.reRoot = TRUE]
  <2>1. \A f \in Fields \ {"sync", "reRoot"} : r[f] = q[f]
    OBVIOUS
  <2>2. r.reRoot = TRUE
    BY IsField
  <2> HIDE DEF r
  <2>3. NoHigher(q, r, 4)
    BY <1>1, <2>1, <2>2
  <2> QED
    BY <2>3 DEF r
<1> QED
  BY <1>2, <1>3

\* The port that makes the request falls at that level.
LEMMA ProposedFalls ==
  ASSUME NEW q, DOMAIN q = Fields, q.proposed, NEW s,
         \/ q.roletrns = "ROOT_PORT" /\ s = "ROOT_PROPOSED"
         \/ q.roletrns = "ALTERNATE_PORT" /\ s = "ALTERNATE_PROPOSED"
  PROVE  Falls(q, [q EXCEPT !.roletrns = s, !.proposed = FALSE, !.sync = TRUE], 4)
<1> DEFINE r == [q EXCEPT !.roletrns = s, !.proposed = FALSE, !.sync = TRUE]
<1> SUFFICES Falls(q, r, 4)
  OBVIOUS
<1>1. /\ r.roletrns = s /\ ~r.proposed /\ r.role = q.role /\ r.agree = q.agree
      /\ r.proposing = q.proposing /\ r.forward = q.forward /\ r.reRoot = q.reRoot
  BY IsField
<1>2. Alike(q, r, Fields \ RoleWrites)
  BY DEF Alike, RoleWrites
<1> HIDE DEF r
<1>3. OrderRank(r) <= OrderRank(q)
  BY <1>1, <1>2, OrderStays
<1>4. TalkLeft(r) < TalkLeft(q)
  <2> DEFINE said(x) == One(x.proposed)
             others(x) == One(~x.agree) + One(~x.proposing)
             moved(x) == One(x.roletrns \in RootStates /\ ~x.forward /\ ~x.reRoot)
  <2>1. said(r) = 0 /\ said(q) = 1
    BY <1>1 DEF One
  <2>2. others(r) = others(q) /\ others(q) \in 0 .. 2
    BY <1>1 DEF One
  <2>3. moved(r) = moved(q) /\ moved(q) \in 0 .. 1
    BY <1>1 DEF One, RootStates
  <2>4. /\ TalkLeft(r) = said(r) + One(~r.agree) + One(~r.proposing) + moved(r)
        /\ TalkLeft(q) = said(q) + One(~q.agree) + One(~q.proposing) + moved(q)
    BY DEF TalkLeft
  <2>5. \A x : One(~x.agree) \in 0 .. 1 /\ One(~x.proposing) \in 0 .. 1
    BY DEF One
  <2> HIDE DEF said, moved
  <2>6. /\ TalkLeft(r) = said(r) + others(r) + moved(r)
        /\ TalkLeft(q) = said(q) + others(q) + moved(q)
    BY <2>1, <2>3, <2>4, <2>5
  <2> HIDE DEF others
  <2> QED
    BY <2>1, <2>2, <2>3, <2>6
<1> QED
  BY <1>2, <1>3, <1>4, RoleFallsAt4

\* REROOT asks the other ports to discard, which is said at the fourth level.
LEMMA ReRootFalls ==
  ASSUME NEW q, DOMAIN q = Fields, q.roletrns = "ROOT_PORT", ~q.forward, ~q.reRoot
  PROVE  Falls(q, [q EXCEPT !.roletrns = "REROOT", !.reRoot = TRUE], 4)
<1> DEFINE r == [q EXCEPT !.roletrns = "REROOT", !.reRoot = TRUE]
<1> SUFFICES Falls(q, r, 4)
  OBVIOUS
<1>1. /\ r.roletrns = "REROOT" /\ r.proposed = q.proposed /\ r.role = q.role
      /\ r.agree = q.agree /\ r.proposing = q.proposing /\ r.reRoot
  BY IsField
<1>2. Alike(q, r, Fields \ RoleWrites)
  BY DEF Alike, RoleWrites
<1> HIDE DEF r
<1>3. OrderRank(r) <= OrderRank(q)
  BY <1>1, <1>2, OrderStays
<1>4. TalkLeft(r) < TalkLeft(q)
  <2>1. \A c : One(c) \in 0 .. 1
    BY DEF One
  <2>2. q.roletrns \in RootStates
    BY DEF RootStates
  <2>3. /\ One(r.roletrns \in RootStates /\ ~r.forward /\ ~r.reRoot) = 0
        /\ One(q.roletrns \in RootStates /\ ~q.forward /\ ~q.reRoot) = 1
    BY <1>1, <2>2 DEF One
  <2> QED
    BY <1>1, <2>1, <2>3 DEF TalkLeft
<1> QED
  BY <1>2, <1>3, <1>4, RoleFallsAt4

\* Where each hop goes, by the kind of state.
LEMMA RoleKinds ==
  ASSUME NEW q, NEW p, NEW K, PortOK(q, p, K), NEW s, RoleWhy(q, s)
  PROVE  \/ s \in {"DISABLED_PORT", "ALTERNATE_PORT"}
         \/ /\ s # "BEGIN"
            /\ \/ q.roletrns = "BEGIN" /\ s = "INIT_PORT"
               \/ q.role # q.selectedRole /\ s = OfRole[q.selectedRole]
               \/ q.roletrns = "INIT_PORT" /\ s = "DISABLE_PORT"
         \/ /\ q.roletrns \in RootStates
            /\ s \in {"ROOT_PORT", "ROOT_AGREED", "REROOTED", "ROOT_LEARN", "ROOT_FORWARD"}
            /\ \/ q.roletrns \in DOMAIN Resting /\ s = "ROOT_PORT"
               \/ q.roletrns = "ROOT_PORT" /\ RootWhy(q, s)
         \/ /\ q.roletrns \in DesignatedStates
            /\ \/ q.roletrns \in DOMAIN Resting /\ s = "DESIGNATED_PORT"
               \/ q.roletrns = "DESIGNATED_PORT" /\ DesignatedWhy(q, s)
         \/ /\ q.roletrns = "ALTERNATE_PORT" /\ s \in {"ALTERNATE_AGREED", "BACKUP_PORT"}
            /\ AlternateWhy(q, s)
         \/ s = "ROOT_PROPOSED" /\ q.roletrns = "ROOT_PORT" /\ q.proposed
         \/ s = "ALTERNATE_PROPOSED" /\ q.roletrns = "ALTERNATE_PORT" /\ q.proposed
         \/ s = "REROOT" /\ q.roletrns = "ROOT_PORT" /\ ~q.forward /\ ~q.reRoot
<1>1. CASE q.roletrns # "BEGIN" /\ q.role # q.selectedRole /\ s = OfRole[q.selectedRole]
  <2>1. q.selectedRole \in AllRoles
    BY DEF PortOK, RolesOK
  <2> QED
    BY <1>1, <2>1, OfRoleIs
<1>2. CASE q.roletrns \in DOMAIN Resting /\ s = Resting[q.roletrns]
  <2>1. \/ q.roletrns = "INIT_PORT" /\ s = "DISABLE_PORT"
        \/ q.roletrns \in RootStates /\ s = "ROOT_PORT"
        \/ q.roletrns \in DesignatedStates /\ s = "DESIGNATED_PORT"
        \/ s = "ALTERNATE_PORT"
    BY <1>2 DEF Resting, RootStates, DesignatedStates
  <2> QED
    BY <1>2, <2>1
<1>3. CASE q.roletrns \in {"DISABLE_PORT", "DISABLED_PORT"} /\ DisabledWhy(q, s)
  BY <1>3 DEF DisabledWhy
<1>4. CASE q.roletrns = "ROOT_PORT" /\ RootWhy(q, s)
  <2>1. q.roletrns \in RootStates
    BY <1>4 DEF RootStates
  <2>2. \/ s \in {"ROOT_PORT", "ROOT_AGREED", "REROOTED", "ROOT_LEARN", "ROOT_FORWARD"}
        \/ s = "ROOT_PROPOSED" /\ q.proposed
        \/ s = "REROOT" /\ ~q.forward /\ ~q.reRoot
    BY <1>4 DEF RootWhy
  <2> QED
    BY <1>4, <2>1, <2>2
<1>5. CASE q.roletrns = "DESIGNATED_PORT" /\ DesignatedWhy(q, s)
  BY <1>5 DEF DesignatedStates
<1>6. CASE q.roletrns = "ALTERNATE_PORT" /\ AlternateWhy(q, s)
  <2>1. \/ s \in {"ALTERNATE_AGREED", "BACKUP_PORT", "ALTERNATE_PORT"}
        \/ s = "ALTERNATE_PROPOSED" /\ q.proposed
    BY <1>6 DEF AlternateWhy
  <2> QED
    BY <1>6, <2>1
<1>7. CASE q.roletrns = "BEGIN" /\ s = "INIT_PORT"
  BY <1>7
<1> QED
  BY <1>1, <1>2, <1>3, <1>4, <1>5, <1>6, <1>7 DEF RoleWhy


\* A hop of the role transition machine, the requests to the whole tree included.
LEMMA RoletrnsLowers ==
  ASSUME NEW b, NEW K, BridgeOK(b, K), NEW p \in Ports, NEW s, s = roletrnsHop(b, p), s # Stay
  PROVE  /\ Lowers(b, hop(b, <<"roletrns", p, s>>))
         /\ hop(b, <<"roletrns", p, s>>).rolesel = b.rolesel
<1>0. \A o \in Ports : PortOK(b.port[o], o, K) /\ DOMAIN b.port[o] = Fields
  BY DEF BridgeOK, PortOK
<1>1. RoleWhy(b.port[p], s)
  <2>1. PortOK(b.port[p], p, K)
    BY <1>0
  <2> QED
    BY <2>1, RoletrnsHopIs
<1> DEFINE q == [b.port[p] EXCEPT !.roletrns = s]
           a == [b EXCEPT !.port[p]["roletrns"] = s]
           r == roletrnsOwn(q)
           c == [a EXCEPT !.port[p] = r]
           h == hop(b, <<"roletrns", p, s>>)
<1> SUFFICES Lowers(b, h) /\ h.rolesel = b.rolesel
  OBVIOUS
<1>2. Moved(b, a, p, q)
  BY StateOf
<1>3. a.port[p] = q /\ q.roletrns = s
  BY <1>0, <1>2, IsField DEF Moved
<1>4. h = roletrnsEnter(a, p)
  BY DEF hop, enter
<1>5. /\ s \in {"ROOT_PROPOSED", "ALTERNATE_PROPOSED"} =>
           r = [b.port[p] EXCEPT !.roletrns = s, !.proposed = FALSE]
      /\ s = "REROOT" => r = [b.port[p] EXCEPT !.roletrns = s]
  BY <1>0, IsField DEF roletrnsOwn
<1>own. /\ s \in {"DISABLED_PORT", "ALTERNATE_PORT"} => Falls(b.port[p], r, 8)
        /\ s \notin {"DISABLED_PORT", "ALTERNATE_PORT", "ROOT_PROPOSED", "ALTERNATE_PROPOSED",
                     "REROOT"} => Falls(b.port[p], r, 8)
        /\ s \in {"ROOT_PROPOSED", "ALTERNATE_PROPOSED"} =>
             Falls(b.port[p], [b.port[p] EXCEPT !.roletrns = s, !.proposed = FALSE,
                                                !.sync = TRUE], 4)
        /\ s = "REROOT" =>
             Falls(b.port[p], [b.port[p] EXCEPT !.roletrns = "REROOT", !.reRoot = TRUE], 4)
  <2> DEFINE x == b.port[p]
  <2>0. PortOK(x, p, K) /\ DOMAIN x = Fields /\ RoleWhy(x, s) /\ x.selectedRole \in AllRoles
    BY <1>0, <1>1 DEF PortOK, RolesOK
  <2> SUFFICES
        /\ s \in {"DISABLED_PORT", "ALTERNATE_PORT"} =>
             Falls(x, roletrnsOwn([x EXCEPT !.roletrns = s]), 8)
        /\ s \notin {"DISABLED_PORT", "ALTERNATE_PORT", "ROOT_PROPOSED", "ALTERNATE_PROPOSED",
                     "REROOT"} => Falls(x, roletrnsOwn([x EXCEPT !.roletrns = s]), 8)
        /\ s \in {"ROOT_PROPOSED", "ALTERNATE_PROPOSED"} =>
             Falls(x, [x EXCEPT !.roletrns = s, !.proposed = FALSE, !.sync = TRUE], 4)
        /\ s = "REROOT" => Falls(x, [x EXCEPT !.roletrns = "REROOT", !.reRoot = TRUE], 4)
    OBVIOUS
  <2> HIDE DEF x
  <2>1. CASE s \in {"DISABLED_PORT", "ALTERNATE_PORT"}
    BY <2>0, <2>1, RestFalls
  <2>2. CASE s = "REROOT"
    <3>1. x.roletrns = "ROOT_PORT" /\ ~x.forward /\ ~x.reRoot
      BY <2>0, <2>2, RoleKinds, OfRoleIs DEF DesignatedWhy
    <3> QED
      BY <2>0, <2>2, <3>1, ReRootFalls
  <2>3. CASE s \in {"ROOT_PROPOSED", "ALTERNATE_PROPOSED"}
    <3>1. /\ x.proposed
          /\ \/ x.roletrns = "ROOT_PORT" /\ s = "ROOT_PROPOSED"
             \/ x.roletrns = "ALTERNATE_PORT" /\ s = "ALTERNATE_PROPOSED"
      BY <2>0, <2>3, RoleKinds, OfRoleIs DEF DesignatedWhy
    <3> QED
      BY <2>0, <2>3, <3>1, ProposedFalls
  <2>4. CASE s \notin {"DISABLED_PORT", "ALTERNATE_PORT", "ROOT_PROPOSED",
                       "ALTERNATE_PROPOSED", "REROOT"}
    <3>1. Falls(x, roletrnsOwn([x EXCEPT !.roletrns = s]), 8)
      BY <2>0, <2>4, RoleKinds, TakeFalls, RootFalls, DesignatedFalls, AlternateFalls
    <3> QED
      BY <2>4, <3>1
  <2> QED
    BY <2>1, <2>2, <2>3, <2>4
<1> HIDE DEF q, a, r
<1>6. Moved(b, c, p, r)
  BY <1>2, ReplacePort
<1>7. /\ s \in {"ROOT_PROPOSED", "ALTERNATE_PROPOSED"} => h = Synced(c)
      /\ s = "REROOT" => h = ReRooted(c)
      /\ s \notin {"ROOT_PROPOSED", "ALTERNATE_PROPOSED", "REROOT"} => h = c
  <2>1. c = Owned(a, p)
    BY <1>3 DEF Owned, r
  <2>2. s = a.port[p].roletrns
    BY <1>3
  <2> HIDE DEF c, h
  <2> QED
    BY <1>4, <2>1, <2>2, RoletrnsEnterIs
<1> HIDE DEF c, h
<1>8. /\ c.port[p] = r /\ c.rolesel = b.rolesel /\ DOMAIN c = BridgeFields
      /\ \A o \in Ports \ {p} : c.port[o] = b.port[o]
  BY <1>6 DEF Moved
<1>four. 4 \in 1 .. 8
  OBVIOUS
<1>9. CASE s \in {"ROOT_PROPOSED", "ALTERNATE_PROPOSED"}
  <2> DEFINE f == [o \in Ports |-> [c.port[o] EXCEPT !.sync = TRUE]]
  <2>1. h = [c EXCEPT !.port = f]
    BY <1>7, <1>9 DEF Synced
  <2>2. \A o \in Ports : f[o] = [c.port[o] EXCEPT !.sync = TRUE]
    OBVIOUS
  <2> HIDE DEF f
  <2>3. h.port = f /\ h.rolesel = b.rolesel
    BY <1>8, <2>1, IsBridgeField
  <2>4. h.port[p] = [b.port[p] EXCEPT !.roletrns = s, !.proposed = FALSE, !.sync = TRUE]
    <3>1. h.port[p] = [r EXCEPT !.sync = TRUE]
      BY <1>8, <2>2, <2>3
    <3> QED
      BY <1>5, <1>9, <3>1
  <2>5. Falls(b.port[p], h.port[p], 4)
    BY <1>own, <1>9, <2>4
  <2>6. \A o \in Ports \ {p} : NoHigher(b.port[o], h.port[o], 4)
    <3> SUFFICES ASSUME NEW o \in Ports \ {p} PROVE NoHigher(b.port[o], h.port[o], 4)
      OBVIOUS
    <3>1. h.port[o] = [b.port[o] EXCEPT !.sync = TRUE]
      BY <1>8, <2>2, <2>3
    <3> QED
      BY <1>0, <3>1, TreeRises
  <2> QED
    BY <1>four, <2>3, <2>5, <2>6, PortLowers
<1>10. CASE s = "REROOT"
  <2> DEFINE f == [o \in Ports |-> [c.port[o] EXCEPT !.reRoot = TRUE]]
  <2>1. h = [c EXCEPT !.port = f]
    BY <1>7, <1>10 DEF ReRooted
  <2>2. \A o \in Ports : f[o] = [c.port[o] EXCEPT !.reRoot = TRUE]
    OBVIOUS
  <2> HIDE DEF f
  <2>3. h.port = f /\ h.rolesel = b.rolesel
    BY <1>8, <2>1, IsBridgeField
  <2>4. h.port[p] = [b.port[p] EXCEPT !.roletrns = "REROOT", !.reRoot = TRUE]
    <3>1. h.port[p] = [r EXCEPT !.reRoot = TRUE]
      BY <1>8, <2>2, <2>3
    <3> QED
      BY <1>5, <1>10, <3>1
  <2>5. Falls(b.port[p], h.port[p], 4)
    BY <1>own, <1>10, <2>4
  <2>6. \A o \in Ports \ {p} : NoHigher(b.port[o], h.port[o], 4)
    <3> SUFFICES ASSUME NEW o \in Ports \ {p} PROVE NoHigher(b.port[o], h.port[o], 4)
      OBVIOUS
    <3>1. h.port[o] = [b.port[o] EXCEPT !.reRoot = TRUE]
      BY <1>8, <2>2, <2>3
    <3> QED
      BY <1>0, <3>1, TreeRises
  <2> QED
    BY <1>four, <2>3, <2>5, <2>6, PortLowers
<1>11. CASE s \notin {"ROOT_PROPOSED", "ALTERNATE_PROPOSED", "REROOT"}
  <2>1. h = c
    BY <1>7, <1>11
  <2>2. Falls(b.port[p], h.port[p], 8) /\ OnlyAt(b, h, p) /\ h.rolesel = b.rolesel
    BY <1>own, <1>8, <1>11, <2>1 DEF OnlyAt
  <2> QED
    BY <2>2, OwnLowers
<1> QED
  BY <1>9, <1>10, <1>11

-----------------------------------------------------------------------------
(* Every hop, and the measure.                                                             *)

\* What is left to do at a level, as a set: so many things for each port, and at the level of
\* the election one for the first of all.
Left(b, k) ==
  {x \in (0 .. 255) \X (1 .. 40) :
     IF x[1] = 0 THEN k = 2 /\ x[2] = 1 /\ b.rolesel = "BEGIN"
     ELSE x[1] \in Ports /\ x[2] <= Rank(b.port[x[1]], k)}
Count(b, k) == Cardinality(Left(b, k))

\* At some level there is less left, and at none before it is there more.
LessLeft(b, c) ==
  \E k \in 1 .. 8 : Count(c, k) < Count(b, k) /\ \A j \in 1 .. k - 1 : Count(c, j) <= Count(b, j)

\* No level counts more than this.
Most == 256 * 40

\* There are at most as many as things that a port can have left.
LEMMA CountIs ==
  ASSUME NEW b, NEW k
  PROVE  IsFiniteSet(Left(b, k)) /\ Count(b, k) \in Nat /\ Count(b, k) <= Most
<1> DEFINE All == (0 .. 255) \X (1 .. 40)
<1>1. IsFiniteSet(0 .. 255) /\ Cardinality(0 .. 255) = 256
  <2> DEFINE n == 255
  <2>1. 0 \in Int /\ n \in Int /\ ~(0 > n) /\ n - 0 + 1 = 256
    OBVIOUS
  <2> HIDE DEF n
  <2>2. IsFiniteSet(0 .. n) /\ Cardinality(0 .. n) = 256
    BY <2>1, FS_Interval
  <2> QED
    BY <2>2 DEF n
<1>2. IsFiniteSet(1 .. 40) /\ Cardinality(1 .. 40) = 40
  <2> DEFINE n == 40
  <2>1. 1 \in Int /\ n \in Int /\ ~(1 > n) /\ n - 1 + 1 = 40
    OBVIOUS
  <2> HIDE DEF n
  <2>2. IsFiniteSet(1 .. n) /\ Cardinality(1 .. n) = 40
    BY <2>1, FS_Interval
  <2> QED
    BY <2>2 DEF n
<1>3. IsFiniteSet(All) /\ Cardinality(All) = Most
  BY <1>1, <1>2, FS_Product DEF Most
<1>4. Left(b, k) \subseteq All
  BY DEF Left
<1> HIDE DEF All
<1>5. IsFiniteSet(Left(b, k)) /\ Cardinality(Left(b, k)) <= Cardinality(All)
  BY <1>3, <1>4, FS_Subset
<1>6. Cardinality(Left(b, k)) \in Nat
  BY <1>5, FS_CardinalityType
<1> QED
  BY <1>3, <1>5, <1>6 DEF Count

\* With fewer things left the count is no greater, and smaller when one is gone.
LEMMA CountFalls ==
  ASSUME NEW b, NEW c, NEW k, NEW j, Left(c, j) \subseteq Left(b, k)
  PROVE  /\ Count(c, j) <= Count(b, k)
         /\ Left(c, j) # Left(b, k) => Count(c, j) < Count(b, k)
<1> DEFINE S == Left(b, k)
           T == Left(c, j)
<1>1. IsFiniteSet(S) /\ Cardinality(S) \in Nat /\ Cardinality(T) \in Nat /\ T \in SUBSET S
  BY CountIs DEF Count
<1> HIDE DEF S, T
<1>2. Cardinality(T) <= Cardinality(S) /\ (Cardinality(S) = Cardinality(T) => S = T)
  BY <1>1, FS_Subset
<1>3. Cardinality(T) <= Cardinality(S) /\ (T # S => Cardinality(T) < Cardinality(S))
  BY <1>1, <1>2
<1> QED
  BY <1>3 DEF Count, S, T

\* A hop of a machine of a port leaves less.
LEMMA LowersLess ==
  ASSUME NEW b, NEW c, Lowers(b, c), c.rolesel = b.rolesel
  PROVE  LessLeft(b, c)
<1>1. PICK k \in 1 .. 8 : /\ \E p \in Ports : Rank(c.port[p], k) < Rank(b.port[p], k)
                          /\ \A o \in Ports : NoHigher(b.port[o], c.port[o], k)
  BY DEF Lowers
<1>2. PICK p \in Ports : Rank(c.port[p], k) < Rank(b.port[p], k)
  BY <1>1
<1>3. ASSUME NEW j \in 1 .. k PROVE Left(c, j) \subseteq Left(b, j)
  <2>0. j \in 1 .. 8
    OBVIOUS
  <2> SUFFICES ASSUME NEW x \in Left(c, j) PROVE x \in Left(b, j)
    OBVIOUS
  <2>1. x \in (0 .. 255) \X (1 .. 40)
    BY DEF Left
  <2>2. CASE x[1] = 0
    BY <2>1, <2>2 DEF Left
  <2>3. CASE x[1] # 0
    <3>1. x[1] \in Ports /\ x[2] <= Rank(c.port[x[1]], j)
      BY <2>3 DEF Left
    <3>2. Rank(c.port[x[1]], j) <= Rank(b.port[x[1]], j)
      BY <1>1, <3>1 DEF NoHigher
    <3>3. Rank(c.port[x[1]], j) \in 0 .. 40 /\ Rank(b.port[x[1]], j) \in 0 .. 40
      BY <2>0, RankNat
    <3>4. x[2] \in 1 .. 40
      BY <2>1
    <3>5. x[2] <= Rank(b.port[x[1]], j)
      BY <3>1, <3>2, <3>3, <3>4
    <3> QED
      BY <2>1, <2>3, <3>1, <3>5 DEF Left
  <2> QED
    BY <2>2, <2>3
<1>4. Left(c, k) # Left(b, k)
  <2> DEFINE n == Rank(b.port[p], k)
  <2>1. n \in 0 .. 40 /\ Rank(c.port[p], k) \in 0 .. 40
    BY RankNat
  <2>2. p \in 1 .. 255
    BY PortAssumption
  <2> HIDE DEF n
  <2>3. n \in 1 .. 40 /\ Rank(c.port[p], k) < n
    BY <1>2, <2>1 DEF n
  <2>4. <<p, n>> \in Left(b, k)
    BY <2>2, <2>3 DEF Left, n
  <2>5. <<p, n>> \notin Left(c, k)
    <3>1. ~(n <= Rank(c.port[p], k))
      BY <2>1, <2>3
    <3> QED
      BY <2>2, <3>1 DEF Left
  <2> QED
    BY <2>4, <2>5
<1>5. Count(c, k) < Count(b, k)
  <2>1. Left(c, k) \subseteq Left(b, k)
    BY <1>3
  <2> QED
    BY <1>4, <2>1, CountFalls
<1>6. \A j \in 1 .. k - 1 : Count(c, j) <= Count(b, j)
  BY <1>3, CountFalls
<1> QED
  BY <1>5, <1>6 DEF LessLeft

\* So does an election.
LEMMA RoleselLess ==
  ASSUME NEW b, NEW K, BridgeOK(b, K), Reselecting(b)
  PROVE  LessLeft(b, rolesel(b))
<1> DEFINE c == rolesel(b)
           prio == RootPrio(b)
           age == RootAge(b)
<1>1. c = [b EXCEPT !.rolesel = "ROLE_SELECTION", !.rootPrio = prio, !.rootAge = age,
                    !.port = [p \in Ports |-> Select(b, p, prio, age)]]
  BY RoleselIs
<1> SUFFICES LessLeft(b, c)
  OBVIOUS
<1> HIDE DEF c, prio, age
<1>2. c.rolesel = "ROLE_SELECTION" /\ c.port = [p \in Ports |-> Select(b, p, prio, age)]
  BY <1>1 DEF BridgeOK, BridgeFields
<1>3. ASSUME NEW p \in Ports
      PROVE  InputRank(c.port[p]) = InputRank(b.port[p]) /\ ElectionRank(c.port[p]) = 0
  <2> DEFINE q == b.port[p]
             R(x, u) == [q EXCEPT !.reselect = FALSE, !.selected = TRUE, !.selectedRole = x,
                                  !.updtInfo = u]
  <2>0. PICK x \in AllRoles : \E u :
               Select(b, p, prio, age) = R(x, u) /\ Ruled(b, p, prio, x, u)
    BY SelectIs
  <2>1. PICK u : Select(b, p, prio, age) = R(x, u)
    BY <2>0
  <2>2. DOMAIN q = Fields
    BY DEF BridgeOK, PortOK
  <2>3. c.port[p] = R(x, u)
    BY <1>2, <2>1
  <2>4. Alike(q, R(x, u), InputFields)
    <3>1. InputFields \subseteq Fields \ {"reselect", "selected", "selectedRole", "updtInfo"}
      BY DEF InputFields, Fields
    <3>2. \A f \in Fields \ {"reselect", "selected", "selectedRole", "updtInfo"} :
            R(x, u)[f] = q[f]
      BY <2>2
    <3> HIDE DEF R
    <3> QED
      BY <3>1, <3>2 DEF Alike
  <2>5. ~R(x, u).reselect
    BY <2>2, IsField
  <2> HIDE DEF q, R
  <2>6. InputRank(R(x, u)) = InputRank(q) /\ ElectionRank(R(x, u)) = 0
    BY <2>4, <2>5, InputAlike DEF ElectionRank, One
  <2> QED
    BY <2>3, <2>6 DEF q
<1>4. Left(c, 1) = Left(b, 1)
  <2>1. \A p \in Ports : Rank(c.port[p], 1) = Rank(b.port[p], 1)
    BY <1>3, RankIs
  <2> QED
    BY <2>1 DEF Left
<1>5. Left(c, 2) = {}
  <2>1. \A p \in Ports : Rank(c.port[p], 2) = 0
    BY <1>3, RankIs
  <2> QED
    BY <1>2, <2>1 DEF Left
<1>6. Left(b, 2) # {}
  <2>1. CASE b.rolesel = "BEGIN"
    <3>1. <<0, 1>> \in Left(b, 2)
      BY <2>1 DEF Left
    <3> QED
      BY <3>1
  <2>2. CASE \E p \in Ports : b.port[p].reselect
    <3>1. PICK p \in Ports : b.port[p].reselect
      BY <2>2
    <3>2. Rank(b.port[p], 2) = 1
      BY <3>1, RankIs DEF ElectionRank, One
    <3>3. p \in 1 .. 255
      BY PortAssumption
    <3>4. <<p, 1>> \in Left(b, 2)
      BY <3>2, <3>3 DEF Left
    <3> QED
      BY <3>4
  <2> QED
    BY <2>1, <2>2 DEF Reselecting
<1>7. Count(c, 1) <= Count(b, 1)
  BY <1>4, CountFalls
<1>8. Count(c, 2) < Count(b, 2)
  BY <1>5, <1>6, CountFalls
<1> QED
  BY <1>7, <1>8 DEF LessLeft

\* So does every hop of STP_stpm_update.
LEMMA HopLess ==
  ASSUME NEW b, NEW K, BridgeOK(b, K), nextHop(b) # NoHop
  PROVE  LessLeft(b, hop(b, nextHop(b)))
<1>1. CASE Reselecting(b) /\ nextHop(b) = <<"rolesel", 0, "ROLE_SELECTION">>
  <2>1. hop(b, nextHop(b)) = rolesel(b)
    BY <1>1 DEF hop
  <2> QED
    BY <1>1, <2>1, RoleselLess
<1>2. ASSUME NEW p \in Ports, NEW m, NEW s, nextHop(b) = <<m, p, s>>, s # Stay,
             CanMove(b, m, p, s)
      PROVE  LessLeft(b, hop(b, nextHop(b)))
  <2>1. CASE m \in {"brdec", "portrec", "sttrans", "p2p", "migrate", "pcost", "info"}
    BY <1>2, <2>1, PlainLowers, LowersLess
  <2>2. CASE m = "roletrns"
    <3>1. s = roletrnsHop(b, p)
      BY <1>2, <2>2 DEF CanMove
    <3> QED
      BY <1>2, <2>2, <3>1, RoletrnsLowers, LowersLess
  <2>3. CASE m = "topoch"
    <3>1. s = topochHop(b.port[p])
      BY <1>2, <2>3 DEF CanMove
    <3> QED
      BY <1>2, <2>3, <3>1, TopochLowers, LowersLess
  <2> QED
    BY <1>2, <2>1, <2>2, <2>3 DEF CanMove
<1>3. ASSUME NEW p \in Ports, NEW s, nextHop(b) = <<"transmit", p, s>>, s # Stay,
             s = transmitHop(b.port[p])
      PROVE  LessLeft(b, hop(b, nextHop(b)))
  BY <1>3, TransmitLowers, LowersLess
<1> QED
  BY <1>1, <1>2, <1>3, NextHop


\* The counts of the levels, as the digits of a number.
Up(b, k, x) == (Most + 1) * x + Count(b, k)
Measure(b) ==
  Up(b, 8, Up(b, 7, Up(b, 6, Up(b, 5, Up(b, 4, Up(b, 3, Up(b, 2, Count(b, 1))))))))

\* A digit after a number that is no greater, or smaller, than another.
LEMMA UpIs ==
  ASSUME NEW b, NEW c, NEW k, NEW x \in Nat, NEW y \in Nat
  PROVE  /\ Up(b, k, x) \in Nat
         /\ y <= x /\ Count(c, k) <= Count(b, k) => Up(c, k, y) <= Up(b, k, x)
         /\ y <= x /\ Count(c, k) < Count(b, k) => Up(c, k, y) < Up(b, k, x)
         /\ y < x => Up(c, k, y) < Up(b, k, x)
<1>0. Most \in Nat
  BY DEF Most
<1>1. /\ Count(b, k) \in Nat /\ Count(b, k) <= Most
      /\ Count(c, k) \in Nat /\ Count(c, k) <= Most
  BY CountIs
<1> DEFINE M == Most + 1
           d == Count(b, k)
           e == Count(c, k)
<1>2. M \in Nat /\ d \in Nat /\ e \in Nat /\ e < M
  BY <1>0, <1>1
<1> HIDE DEF M, d, e
<1>3. M * x \in Nat /\ M * y \in Nat
  BY <1>2
<1>4. y <= x => M * y <= M * x
  BY <1>2
<1>5. y < x => M * y + M <= M * x
  <2> SUFFICES ASSUME y < x PROVE M * y + M <= M * x
    OBVIOUS
  <2>1. M * (y + 1) = M * y + M
    BY <1>2
  <2>2. M * (y + 1) <= M * x
    BY <1>2
  <2> QED
    BY <2>1, <2>2
<1>6. Up(b, k, x) = M * x + d /\ Up(c, k, y) = M * y + e
  BY DEF Up, M, d, e
<1>7. /\ M * x + d \in Nat
      /\ y <= x /\ e <= d => M * y + e <= M * x + d
      /\ y <= x /\ e < d => M * y + e < M * x + d
      /\ y < x => M * y + e < M * x + d
  BY <1>2, <1>3, <1>4, <1>5
<1> QED
  BY <1>6, <1>7 DEF d, e

\* Less left is a smaller number.
LEMMA LessMeasure ==
  ASSUME NEW b, NEW c, LessLeft(b, c)
  PROVE  Measure(b) \in Nat /\ Measure(c) \in Nat /\ Measure(c) < Measure(b)
<1>1. PICK k \in 1 .. 8 : /\ Count(c, k) < Count(b, k)
                          /\ \A j \in 1 .. k - 1 : Count(c, j) <= Count(b, j)
  BY DEF LessLeft
<1> DEFINE Leq(j) == Count(c, j) <= Count(b, j)
           Less(j) == Count(c, j) < Count(b, j)
           Stage(j, x, y) == /\ x \in Nat /\ y \in Nat
                             /\ j < k => y <= x
                             /\ j >= k => y < x
<1>2. \A j \in 1 .. 8 : (j < k => Leq(j)) /\ (j = k => Less(j))
  BY <1>1
<1>3. Stage(1, Count(b, 1), Count(c, 1))
  BY <1>2, CountIs
<1>4. ASSUME NEW j \in 2 .. 8, NEW x, NEW y, Stage(j - 1, x, y)
      PROVE  Stage(j, Up(b, j, x), Up(c, j, y))
  <2>0. x \in Nat /\ y \in Nat
    BY <1>4
  <2>1. /\ Up(b, j, x) \in Nat /\ Up(c, j, y) \in Nat
        /\ y <= x /\ Leq(j) => Up(c, j, y) <= Up(b, j, x)
        /\ y <= x /\ Less(j) => Up(c, j, y) < Up(b, j, x)
        /\ y < x => Up(c, j, y) < Up(b, j, x)
    BY <2>0, UpIs
  <2>2. CASE j < k
    <3>1. Leq(j) /\ y <= x
      BY <1>2, <1>4, <2>2
    <3> QED
      BY <2>1, <2>2, <3>1
  <2>3. CASE j = k
    <3>1. Less(j) /\ y <= x
      BY <1>2, <1>4, <2>3
    <3> QED
      BY <2>1, <2>3, <3>1
  <2>4. CASE j > k
    <3>1. y < x
      BY <1>4, <2>4
    <3> QED
      BY <2>1, <2>4, <3>1
  <2> QED
    BY <2>2, <2>3, <2>4
<1> HIDE DEF Stage
<1> DEFINE B2 == Up(b, 2, Count(b, 1))
           C2 == Up(c, 2, Count(c, 1))
           B3 == Up(b, 3, B2)
           C3 == Up(c, 3, C2)
           B4 == Up(b, 4, B3)
           C4 == Up(c, 4, C3)
           B5 == Up(b, 5, B4)
           C5 == Up(c, 5, C4)
           B6 == Up(b, 6, B5)
           C6 == Up(c, 6, C5)
           B7 == Up(b, 7, B6)
           C7 == Up(c, 7, C6)
           B8 == Up(b, 8, B7)
           C8 == Up(c, 8, C7)
<1>m. Measure(b) = B8 /\ Measure(c) = C8
  BY DEF Measure
<1>5. Stage(2, B2, C2)
  BY <1>3, <1>4
<1> HIDE DEF B2, C2
<1>6. Stage(3, B3, C3)
  BY <1>4, <1>5
<1> HIDE DEF B3, C3
<1>7. Stage(4, B4, C4)
  BY <1>4, <1>6
<1> HIDE DEF B4, C4
<1>8. Stage(5, B5, C5)
  BY <1>4, <1>7
<1> HIDE DEF B5, C5
<1>9. Stage(6, B6, C6)
  BY <1>4, <1>8
<1> HIDE DEF B6, C6
<1>10. Stage(7, B7, C7)
  BY <1>4, <1>9
<1> HIDE DEF B7, C7
<1>11. Stage(8, B8, C8)
  BY <1>4, <1>10
<1> HIDE DEF B8, C8
<1> QED
  BY <1>m, <1>11 DEF Stage

\* A bound for the measure of every bridge.
LoopBound ==
  LET up(x) == (Most + 1) * x + Most
  IN up(up(up(up(up(up(up(Most)))))))

\* The measure is a number within that bound.
LEMMA MeasureBound ==
  ASSUME NEW b
  PROVE  Measure(b) \in Nat /\ LoopBound \in Nat /\ Measure(b) <= LoopBound
<1>0. Most \in Nat
  BY DEF Most
<1> DEFINE up(x) == (Most + 1) * x + Most
           Stage(x, y) == x \in Nat /\ y \in Nat /\ x <= y
<1>1. Stage(Count(b, 1), Most)
  BY <1>0, CountIs
<1>2. ASSUME NEW k, NEW x, NEW y, Stage(x, y)
      PROVE  Stage(Up(b, k, x), up(y))
  <2>1. Count(b, k) \in Nat /\ Count(b, k) <= Most
    BY CountIs
  <2> DEFINE M == Most + 1
             n == Most
             d == Count(b, k)
  <2>2. M \in Nat /\ n \in Nat /\ d \in Nat /\ d <= n
    BY <1>0, <2>1
  <2> HIDE DEF M, n, d
  <2>3. M * x \in Nat /\ M * y \in Nat /\ M * x <= M * y
    BY <1>2, <2>2
  <2>4. M * x + d \in Nat /\ M * y + n \in Nat /\ M * x + d <= M * y + n
    BY <2>2, <2>3
  <2> QED
    BY <2>4 DEF Up, M, n, d
<1> HIDE DEF Stage
<1> DEFINE B2 == Up(b, 2, Count(b, 1))
           C2 == up(Most)
           B3 == Up(b, 3, B2)
           C3 == up(C2)
           B4 == Up(b, 4, B3)
           C4 == up(C3)
           B5 == Up(b, 5, B4)
           C5 == up(C4)
           B6 == Up(b, 6, B5)
           C6 == up(C5)
           B7 == Up(b, 7, B6)
           C7 == up(C6)
           B8 == Up(b, 8, B7)
           C8 == up(C7)
<1>m. Measure(b) = B8 /\ LoopBound = C8
  BY DEF Measure, LoopBound
<1> HIDE DEF up
<1>3. Stage(B2, C2)
  BY <1>1, <1>2
<1> HIDE DEF B2, C2
<1>4. Stage(B3, C3)
  BY <1>2, <1>3
<1> HIDE DEF B3, C3
<1>5. Stage(B4, C4)
  BY <1>2, <1>4
<1> HIDE DEF B4, C4
<1>6. Stage(B5, C5)
  BY <1>2, <1>5
<1> HIDE DEF B5, C5
<1>7. Stage(B6, C6)
  BY <1>2, <1>6
<1> HIDE DEF B6, C6
<1>8. Stage(B7, C7)
  BY <1>2, <1>7
<1> HIDE DEF B7, C7
<1>9. Stage(B8, C8)
  BY <1>2, <1>8
<1> HIDE DEF B8, C8
<1> QED
  BY <1>m, <1>9 DEF Stage

\* Every hop of STP_stpm_update takes the bridge down by one at least.
THEOREM HopDescends ==
  ASSUME NEW b, NEW K, BridgeOK(b, K), nextHop(b) # NoHop
  PROVE  /\ Measure(b) \in Nat /\ Measure(hop(b, nextHop(b))) \in Nat
         /\ Measure(hop(b, nextHop(b))) < Measure(b)
BY HopLess, LessMeasure

\* So the loop ends: after as many rounds as the measure of the bridge no machine can hop.
THEOREM UpdateEnds ==
  ASSUME NEW b, NEW K, K \subseteq Nat, BInv(b, K), MaxLoops >= Measure(b)
  PROVE  Update(b) # Hung
<1> DEFINE f == rounds(b)
           Good == {n \in 0 .. MaxLoops :
                      /\ BInv(f[n].bridge, K) /\ f[n].next = nextHop(f[n].bridge)
                      /\ f[n].next = NoHop \/ Measure(f[n].bridge) + n <= Measure(b)}
<1>0. MaxLoops \in Nat /\ Measure(b) \in Nat
  BY LoopsAssumption, MeasureBound
<1>1. f = Round(b, f, MaxLoops)
  BY RoundsIs
<1> HIDE DEF f
<1>2. 0 \in Good
  <2>1. f[0] = At(b)
    BY <1>0, <1>1 DEF Round
  <2>2. f[0].bridge = b /\ f[0].next = nextHop(b)
    BY <2>1 DEF At
  <2> QED
    BY <1>0, <2>2
<1>3. ASSUME NEW n \in 1 .. MaxLoops, n - 1 \in Good PROVE n \in Good
  <2> DEFINE r == f[n - 1]
  <2>1. f[n] = Further(r)
    BY <1>0, <1>1 DEF Round
  <2>2. /\ BInv(r.bridge, K) /\ r.next = nextHop(r.bridge)
        /\ r.next = NoHop \/ Measure(r.bridge) + (n - 1) <= Measure(b)
    BY <1>3
  <2> HIDE DEF r
  <2>3. CASE r.next = NoHop
    <3>1. f[n] = r
      BY <2>1, <2>3 DEF Further
    <3>2. f[n].next = NoHop
      BY <2>3, <3>1
    <3>3. BInv(f[n].bridge, K) /\ f[n].next = nextHop(f[n].bridge)
      BY <2>2, <3>1
    <3>4. n \in 0 .. MaxLoops
      BY <1>0
    <3> QED
      BY <3>2, <3>3, <3>4
  <2>4. CASE r.next # NoHop
    <3> DEFINE c == hop(r.bridge, r.next)
    <3>1. f[n] = At(c)
      BY <2>1, <2>4 DEF Further
    <3>2. BInv(c, K)
      BY <2>2, <2>4, HopStep
    <3>3. /\ Measure(r.bridge) \in Nat /\ Measure(c) \in Nat
          /\ Measure(c) < Measure(r.bridge)
      BY <2>2, <2>4, HopDescends DEF BInv
    <3> HIDE DEF c
    <3>4. Measure(c) + n <= Measure(b)
      BY <1>0, <2>2, <2>4, <3>3
    <3>5. f[n].bridge = c /\ f[n].next = nextHop(c)
      BY <3>1 DEF At
    <3> QED
      BY <3>2, <3>4, <3>5
  <2> QED
    BY <2>3, <2>4
<1> HIDE DEF Good
<1>4. MaxLoops \in Good
  BY <1>0, <1>2, <1>3, UpTo
<1> DEFINE z == f[MaxLoops]
<1>5. /\ BInv(z.bridge, K) /\ z.next = nextHop(z.bridge)
      /\ z.next = NoHop \/ Measure(z.bridge) + MaxLoops <= Measure(b)
  BY <1>4 DEF Good
<1> HIDE DEF z
<1>6. z.next = NoHop
  <2> SUFFICES ASSUME z.next # NoHop PROVE FALSE
    OBVIOUS
  <2>1. Measure(z.bridge) \in Nat /\ Measure(z.bridge) + MaxLoops <= Measure(b)
    BY <1>5, MeasureBound
  <2>2. /\ Measure(hop(z.bridge, z.next)) \in Nat
        /\ Measure(hop(z.bridge, z.next)) < Measure(z.bridge)
    BY <1>5, HopDescends DEF BInv
  <2> QED
    BY <1>0, <2>1, <2>2
<1>7. Update(b) = z.bridge
  BY <1>6 DEF Update, f, z
<1>8. DOMAIN z.bridge = BridgeFields
  BY <1>5 DEF BInv, BridgeOK
<1> QED
  BY <1>7, <1>8 DEF BridgeFields, Hung

-----------------------------------------------------------------------------
(* A bridge at rest.                                                                       *)

\* The role of an enabled port is what the election makes of it.
Elect(b, p) ==
  LET q == b.port[p]
  IN IF p \notin heard(b) THEN q.role = "Designated"
     ELSE IF p = b.rootPrio[5] THEN q.role = "Root"
     ELSE q.role \in {"Alternate", "Backup"} /\ Better(q.portPrio, designPrio(b, p))

Obeys(q) == q.forwarding => q.role \in {"Root", "Designated"}
Current(q) == q.infoIs = "Received" => q.rcvdInfoWhile > 0

\* What is known of the states of the port information machine that wait.
LEMMA InfoRests ==
  ASSUME NEW q, NEW p, NEW K, PortOK(q, p, K), infoHop(q) = Stay, ~q.reselect,
         q.infoIs = "Aged" => q.updtInfo
  PROVE  /\ q.enabled => ~q.updtInfo /\ q.infoIs \in {"Mine", "Received"}
         /\ Current(q)
<1>1. /\ q.info \in InfoStates /\ q.selected
      /\ q.info \in {"BEGIN", "DISABLED"} <=> q.infoIs = "Disabled"
      /\ q.info = "AGED" <=> q.infoIs = "Aged"
      /\ q.infoIs \in {"Disabled", "Aged", "Mine", "Received"}
  BY DEF PortOK, InfoOK
<1>2. q.info # "BEGIN" /\ (q.enabled \/ q.infoIs = "Disabled")
  BY DEF infoHop, Stay
<1>3. CASE q.infoIs = "Disabled"
  <2>1. q.info = "DISABLED"
    BY <1>1, <1>2, <1>3
  <2>2. ~q.enabled
    BY <1>2, <1>3, <2>1 DEF infoHop, Stay, When
  <2> QED
    BY <1>3, <2>2 DEF Current
<1>4. CASE q.infoIs # "Disabled"
  <2>1. q.enabled /\ q.info \notin {"BEGIN", "DISABLED"}
    BY <1>1, <1>2, <1>4
  <2>2. q.info # "AGED"
    <3>1. SUFFICES ASSUME q.info = "AGED" PROVE FALSE
      OBVIOUS
    <3>2. infoHop(q) = When(q.selected /\ q.updtInfo, "UPDATE")
      BY <2>1, <3>1 DEF infoHop
    <3> QED
      BY <1>1, <3>1, <3>2 DEF Stay, When
  <2>3. q.info # "RECEIVE"
    <3>1. SUFFICES ASSUME q.info = "RECEIVE" PROVE FALSE
      OBVIOUS
    <3>2. infoHop(q) = rcvInfo(q)
      BY <2>1, <3>1 DEF infoHop
    <3> QED
      BY <3>2 DEF Stay, rcvInfo
  <2>4. q.info = "CURRENT"
    <3>1. SUFFICES ASSUME q.info \notin {"BEGIN", "DISABLED", "AGED", "RECEIVE", "CURRENT"}
                   PROVE  FALSE
      BY <2>1, <2>2, <2>3
    <3>2. infoHop(q) = "CURRENT"
      BY <2>1, <3>1 DEF infoHop
    <3> QED
      BY <3>2 DEF Stay
  <2>5. infoHop(q) = IF q.selected /\ q.updtInfo THEN "UPDATE"
                     ELSE IF expired(q) THEN "AGED"
                     ELSE When(q.rcvdMsg /\ ~q.updtInfo, "RECEIVE")
    BY <2>1, <2>4 DEF infoHop
  <2>6. ~q.updtInfo /\ ~expired(q) /\ ~q.rcvdMsg
    BY <1>1, <2>5 DEF Stay, When
  <2>7. q.infoIs = "Received" => q.rcvdInfoWhile # 0
    BY <2>6 DEF expired
  <2>8. q.rcvdInfoWhile \in Span
    BY DEF PortOK, TimersOK
  <2>9. Current(q)
    BY <2>7, <2>8, DownInSpan DEF Current
  <2> QED
    BY <1>1, <1>4, <2>2, <2>4, <2>6, <2>9
<1> QED
  BY <1>3, <1>4

\* A port whose role machine waits has taken over the role selected for it.
LEMMA RoleRests ==
  ASSUME NEW b, NEW p, NEW K, PortOK(b.port[p], p, K), roletrnsHop(b, p) = Stay,
         ~b.port[p].reselect, ~b.port[p].updtInfo
  PROVE  b.port[p].role = b.port[p].selectedRole
<1>1. b.port[p].selected /\ b.port[p].selectedRole \in AllRoles
  BY DEF PortOK, InfoOK, RolesOK
<1>2. b.port[p].roletrns # "BEGIN"
  BY DEF roletrnsHop, Stay
<1>3. SUFFICES ASSUME b.port[p].role # b.port[p].selectedRole PROVE FALSE
  OBVIOUS
<1>4. roletrnsHop(b, p) = OfRole[b.port[p].selectedRole]
  BY <1>1, <1>2, <1>3 DEF roletrnsHop
<1>5. \A x \in AllRoles : OfRole[x] # Stay
  BY DEF AllRoles, OfRole, Stay
<1> QED
  BY <1>1, <1>4, <1>5

\* A port whose state machine waits does not forward against its role.
LEMMA StateRests ==
  ASSUME NEW q, NEW p, NEW K, PortOK(q, p, K), sttransHop(q) = Stay
  PROVE  Obeys(q)
<1>1. q.forwarding => q.sttrans = "FORWARDING"
  BY DEF PortOK, RolesOK
<1>2. q.sttrans = "FORWARDING" => q.forward
  BY DEF sttransHop, When, Stay
<1> QED
  BY <1>1, <1>2 DEF Obeys, PortOK, RolesOK

\* A bridge whose machines have come to rest has chosen its root, and its ports act upon it.
LEMMA BridgeRests ==
  ASSUME NEW b, NEW K, BInv(b, K), ~Reselecting(b), Silent(b)
  PROVE  /\ Chosen(b)
         /\ \A p \in Ports : /\ b.port[p].enabled => Elect(b, p)
                             /\ Obeys(b.port[p]) /\ Current(b.port[p])
<1>1. \A p \in Ports : PortOK(b.port[p], p, K) /\ Still(b, p) /\ ~b.port[p].reselect
  BY DEF BInv, BridgeOK, Silent, Reselecting
<1>2. ASSUME NEW p \in Ports PROVE b.port[p].pcost # "AUTO"
  <2>1. pcostHop(b.port[p]) = Stay
    BY <1>1 DEF Still
  <2> QED
    BY <2>1 DEF pcostHop, Stay
<1>3. Chosen(b) /\ \A p \in Ports : Assigned(b, p)
  BY <1>1, <1>2 DEF BInv, Election, Standing, Reselecting
<1>4. ASSUME NEW p \in Ports
      PROVE  (b.port[p].enabled => Elect(b, p)) /\ Obeys(b.port[p]) /\ Current(b.port[p])
  <2> DEFINE q == b.port[p]
  <2>1. /\ PortOK(q, p, K) /\ ~q.reselect /\ sttransHop(q) = Stay
        /\ roletrnsHop(b, p) = Stay /\ infoHop(q) = Stay
    BY <1>1 DEF Still
  <2>2. q.infoIs = "Aged" => q.updtInfo
    BY <1>3 DEF Assigned
  <2>3. /\ q.enabled => ~q.updtInfo /\ q.infoIs \in {"Mine", "Received"}
        /\ Current(q)
    <3> HIDE DEF q
    <3> QED
      BY <2>1, <2>2, InfoRests
  <2>4. Obeys(q)
    <3> HIDE DEF q
    <3> QED
      BY <2>1, StateRests
  <2>5. ASSUME q.enabled PROVE Elect(b, p)
    <3>1. q.role = q.selectedRole
      BY <2>1, <2>3, <2>5, RoleRests
    <3>2. Assigned(b, p)
      BY <1>3
    <3> QED
      BY <2>3, <2>5, <3>1, <3>2 DEF Assigned, Elect, heard
  <2> QED
    BY <2>3, <2>4, <2>5
<1> QED
  BY <1>3, <1>4

\* What the bridge has sent is no concern of the invariant.
LEMMA EmptyOut ==
  ASSUME NEW b, NEW K, BInv(b, K)
  PROVE  BInv([b EXCEPT !.out = <<>>], K)
<1> DEFINE c == [b EXCEPT !.out = <<>>]
<1>1. /\ DOMAIN c = BridgeFields /\ c.id = b.id /\ c.rolesel = b.rolesel
      /\ c.rootPrio = b.rootPrio /\ c.rootAge = b.rootAge /\ c.port = b.port /\ c.out = <<>>
  BY IsBridgeField DEF BInv, BridgeOK
<1> HIDE DEF c
<1>2. BridgeOK(c, K)
  BY <1>1 DEF BInv, BridgeOK
<1>3. \A p \in Ports : Same(b.port[p], c.port[p])
  BY <1>1 DEF Same
<1>4. BInv(c, K)
  BY <1>1, <1>2, <1>3, SameElection
<1> QED
  BY <1>4 DEF c

-----------------------------------------------------------------------------
(* The calls of the library.                                                               *)

\* Between two calls: unless a notice waits for the machines to run, they have come to rest.
Settled(b) ==
  /\ (\A p \in Ports : ~b.port[p].reselect) =>
       Chosen(b) /\ \A p \in Ports : b.port[p].enabled => Elect(b, p)
  /\ \A p \in Ports : Obeys(b.port[p]) /\ (b.port[p].reselect \/ Current(b.port[p]))
Kept(b, K) == BInv(b, K) /\ Settled(b)

\* What a call leaves of bridge id: one as the invariant wants it.  The loop can only have run
\* out of the rounds that the model gives it if they are fewer than LoopBound.
Returned(b, id, K) == IF b = Hung THEN MaxLoops < LoopBound ELSE Kept(b, K) /\ b.id = id

\* A bridge is a bridge.
LEMMA KeptReturns ==
  ASSUME NEW b, NEW K, Kept(b, K)
  PROVE  b # Hung /\ Returned(b, b.id, K)
<1>1. DOMAIN b = BridgeFields
  BY DEF Kept, BInv, BridgeOK
<1>2. b # Hung
  BY <1>1 DEF BridgeFields, Hung
<1> QED
  BY <1>2 DEF Returned

\* STP_stpm_update, which returns when it has the rounds: the root is the best on offer, every
\* enabled port has the role the election calls for, what it has heard has not expired, and
\* none forwards without the role for it.
THEOREM UpdateKeeps ==
  ASSUME NEW b, NEW K, K \subseteq Nat, BInv(b, K)
  PROVE  Returned(Update(b), b.id, K)
<1>0. CASE Update(b) = Hung
  <2>1. /\ MaxLoops \in Nat /\ LoopBound \in Nat
        /\ Measure(b) \in Nat /\ Measure(b) <= LoopBound
    BY LoopsAssumption, MeasureBound
  <2>2. ~(MaxLoops >= Measure(b))
    BY <1>0, UpdateEnds
  <2> QED
    BY <1>0, <2>1, <2>2 DEF Returned
<1> SUFFICES ASSUME Update(b) # Hung PROVE Kept(Update(b), K) /\ Update(b).id = b.id
  BY <1>0 DEF Returned
<1> DEFINE c == Update(b)
<1>1. BInv(c, K) /\ c.id = b.id /\ ~Reselecting(c) /\ Silent(c)
  BY UpdateStep
<1> HIDE DEF c
<1>2. /\ Chosen(c)
      /\ \A p \in Ports : /\ c.port[p].enabled => Elect(c, p)
                          /\ Obeys(c.port[p]) /\ Current(c.port[p])
  BY <1>1, BridgeRests
<1>3. Kept(c, K)
  BY <1>1, <1>2 DEF Kept, Settled
<1> QED
  BY <1>1, <1>3 DEF c

\* A notice that does not run the machines: the ports it touches wait for them.
LEMMA NoticeKeeps ==
  ASSUME NEW b, NEW c, NEW K, Kept(b, K), BridgeOK(c, K), c.rolesel = b.rolesel,
         c.rootPrio = b.rootPrio, c.id = b.id \/ \A p \in Ports : c.port[p].reselect,
         \A p \in Ports : \/ c.port[p] = b.port[p]
                          \/ c.port[p].reselect /\ Obeys(c.port[p])
  PROVE  Kept(c, K)
<1>1. \A p \in Ports : Obeys(c.port[p]) /\ (c.port[p].reselect \/ Current(c.port[p]))
  BY DEF Kept, Settled
<1>2. CASE \E p \in Ports : c.port[p].reselect
  <2>1. BInv(c, K)
    BY <1>2, NoElection
  <2> QED
    BY <1>1, <1>2, <2>1 DEF Kept, Settled
<1>3. CASE \A p \in Ports : ~c.port[p].reselect
  <2>1. c.id = b.id /\ \A p \in Ports : c.port[p] = b.port[p]
    BY <1>3, PortAssumption
  <2>2. BInv(c, K)
    <3>1. \A p \in Ports : Same(b.port[p], c.port[p])
      BY <2>1 DEF Same
    <3> QED
      BY <2>1, <3>1, SameElection DEF Kept
  <2>3. heard(c) = heard(b) /\ heard(b) \subseteq Ports /\ own(c) = own(b)
    BY <2>1 DEF heard, own
  <2>4. \A p \in Ports : path(c, p) = path(b, p) /\ designPrio(c, p) = designPrio(b, p)
    BY <2>1 DEF path, designPrio
  <2>5. Offers(c) = Offers(b)
    BY <2>3, <2>4 DEF Offers
  <2>6. Chosen(b) /\ \A p \in Ports : b.port[p].enabled => Elect(b, p)
    BY <1>3, <2>1 DEF Kept, Settled
  <2>7. Chosen(c)
    BY <2>5, <2>6 DEF Chosen
  <2>8. \A p \in Ports : c.port[p].enabled => Elect(c, p)
    BY <2>1, <2>3, <2>4, <2>6 DEF Elect
  <2> QED
    BY <1>1, <2>2, <2>7, <2>8 DEF Kept, Settled
<1> QED
  BY <1>2, <1>3

\* One port is replaced.
LEMMA SetPort ==
  ASSUME NEW b, NEW K, BridgeOK(b, K), NEW p \in Ports, NEW r
  PROVE  Moved(b, [b EXCEPT !.port[p] = r], p, r)
BY IsBridgeField DEF BridgeOK, Moved

\* A notice after which the machines run.
LEMMA ChangeKeeps ==
  ASSUME NEW b, NEW K, K \subseteq Nat, BInv(b, K), NEW p \in Ports, NEW r,
         PortOK(r, p, K), r.reselect
  PROVE  Returned(Update([b EXCEPT !.port[p] = r]), b.id, K)
<1> DEFINE c == [b EXCEPT !.port[p] = r]
<1>1. Moved(b, c, p, r)
  BY SetPort DEF BInv
<1> HIDE DEF c
<1>3. BridgeOK(c, K) /\ c.port[p] = r /\ c.id = b.id
  BY <1>1, MovedOK DEF BInv, Moved
<1>4. BInv(c, K)
  BY <1>3, NoElection
<1>5. Returned(Update(c), b.id, K)
  BY <1>3, <1>4, UpdateKeeps
<1> QED
  BY <1>5 DEF c

\* STP_IN_changed_port_speed.
LEMMA SpeedKeeps ==
  ASSUME NEW b, NEW K, K \subseteq Nat, BInv(b, K), NEW p \in Ports, NEW speed
  PROVE  Returned(changeSpeed(b, p, speed), b.id, K)
<1> DEFINE r == [reselected(b.port[p]) EXCEPT !.operSpeed = speed]
<1>1. PortOK(b.port[p], p, K)
  BY DEF BInv, BridgeOK
<1>2. PortOK(r, p, K) /\ r.reselect
  BY <1>1, SpeedStep
<1>3. changeSpeed(b, p, speed) = Update([b EXCEPT !.port[p] = r])
  BY DEF changeSpeed
<1> HIDE DEF r
<1> QED
  BY <1>2, <1>3, ChangeKeeps

\* STP_IN_set_port_cfg for the migration check.
LEMMA MigrationKeeps ==
  ASSUME NEW b, NEW K, K \subseteq Nat, BInv(b, K), NEW p \in Ports
  PROVE  Returned(migrationCheck(b, p), b.id, K)
<1> DEFINE r == [reselected(b.port[p]) EXCEPT !.mcheck = TRUE]
<1>1. PortOK(b.port[p], p, K)
  BY DEF BInv, BridgeOK
<1>2. PortOK(r, p, K) /\ r.reselect
  BY <1>1, McheckStep
<1>3. migrationCheck(b, p) = Update([b EXCEPT !.port[p] = r])
  BY DEF migrationCheck
<1> HIDE DEF r
<1> QED
  BY <1>2, <1>3, ChangeKeeps

\* STP_IN_set_port_cfg for an edge port.
LEMMA EdgeKeeps ==
  ASSUME NEW b, NEW K, K \subseteq Nat, BInv(b, K), NEW p \in Ports, NEW edge
  PROVE  Returned(adminEdge(b, p, edge), b.id, K)
<1> DEFINE r == [reselected(b.port[p]) EXCEPT !.adminEdge = edge, !.operEdge = edge]
<1>1. PortOK(b.port[p], p, K)
  BY DEF BInv, BridgeOK
<1>2. PortOK(r, p, K) /\ r.reselect
  BY <1>1, EdgeStep
<1>3. adminEdge(b, p, edge) = Update([b EXCEPT !.port[p] = r])
  BY DEF adminEdge
<1> HIDE DEF r
<1> QED
  BY <1>2, <1>3, ChangeKeeps

\* enablePort, in terms of the port.
LEMMA EnableIs ==
  ASSUME NEW b, NEW p, NEW on
  PROVE  enablePort(b, p, on) =
           IF b.port[p].enabled = on THEN b
           ELSE [b EXCEPT !.port[p] = enabledPort(b.port[p], on)]
BY DEF enablePort, enabledPort

\* STP_IN_up_port.
LEMMA LinkKeeps ==
  ASSUME NEW b, NEW K, K \subseteq Nat, BInv(b, K), NEW p \in Ports, NEW up
  PROVE  Returned(linkPort(b, p, up), b.id, K)
<1>1. CASE b.port[p].enabled = up
  <2>1. linkPort(b, p, up) = Update(b)
    BY <1>1, EnableIs DEF linkPort
  <2> QED
    BY <2>1, UpdateKeeps
<1>2. CASE b.port[p].enabled # up
  <2> DEFINE r == enabledPort(b.port[p], up)
  <2>1. PortOK(b.port[p], p, K)
    BY DEF BInv, BridgeOK
  <2>2. PortOK(r, p, K) /\ r.reselect
    BY <2>1, EnableStep
  <2>3. linkPort(b, p, up) = Update([b EXCEPT !.port[p] = r])
    BY <1>2, EnableIs DEF linkPort
  <2> HIDE DEF r
  <2> QED
    BY <2>2, <2>3, ChangeKeeps
<1> QED
  BY <1>1, <1>2

\* A port that is enabled or disabled keeps its old role for the moment.
LEMMA EnabledObeys ==
  ASSUME NEW q, NEW p, NEW K, PortOK(q, p, K), Obeys(q), NEW on
  PROVE  Obeys(enabledPort(q, on))
BY IsField DEF PortOK, Obeys, enabledPort, reselected

\* STP_IN_enable_port, which does not run the machines.
LEMMA EnableKeeps ==
  ASSUME NEW b, NEW K, Kept(b, K), NEW p \in Ports, NEW on
  PROVE  Kept(enablePort(b, p, on), K) /\ enablePort(b, p, on).id = b.id
<1>1. CASE b.port[p].enabled = on
  BY <1>1, EnableIs
<1>2. CASE b.port[p].enabled # on
  <2> DEFINE r == enabledPort(b.port[p], on)
             c == [b EXCEPT !.port[p] = r]
  <2>1. BridgeOK(b, K) /\ PortOK(b.port[p], p, K) /\ Obeys(b.port[p])
    BY DEF Kept, Settled, BInv, BridgeOK
  <2>2. PortOK(r, p, K) /\ r.reselect /\ Obeys(r)
    BY <2>1, EnableStep, EnabledObeys
  <2>3. enablePort(b, p, on) = c
    BY <1>2, EnableIs
  <2> HIDE DEF r
  <2>4. Moved(b, c, p, r)
    BY <2>1, SetPort
  <2> HIDE DEF c
  <2>5. BridgeOK(c, K)
    BY <2>1, <2>2, <2>4, MovedOK
  <2>6. /\ c.rolesel = b.rolesel /\ c.rootPrio = b.rootPrio /\ c.id = b.id
        /\ \A o \in Ports : \/ c.port[o] = b.port[o]
                            \/ c.port[o].reselect /\ Obeys(c.port[o])
    BY <2>2, <2>4 DEF Moved
  <2>7. Kept(c, K)
    BY <2>5, <2>6, NoticeKeeps
  <2> QED
    BY <2>3, <2>6, <2>7
<1> QED
  BY <1>1, <1>2

\* Another port function.
LEMMA SetPorts ==
  ASSUME NEW b, NEW K, BridgeOK(b, K), NEW f, DOMAIN f = Ports,
         \A p \in Ports : PortOK(f[p], p, K)
  PROVE  /\ BridgeOK([b EXCEPT !.port = f], K)
         /\ [b EXCEPT !.port = f].id = b.id /\ [b EXCEPT !.port = f].port = f
         /\ [b EXCEPT !.port = f].rolesel = b.rolesel
         /\ [b EXCEPT !.port = f].rootPrio = b.rootPrio
BY IsBridgeField DEF BridgeOK

\* STP_IN_stpm_set_cfg: another identifier, with every port waiting for a selection.
LEMMA PriorityKeeps ==
  ASSUME NEW b, NEW K, Kept(b, K), NEW id \in K
  PROVE  Kept(setPriority(b, id), K) /\ setPriority(b, id).id = id
<1> DEFINE f == [p \in Ports |-> reselected(b.port[p])]
           a == [b EXCEPT !.id = id]
           c == [a EXCEPT !.port = f]
<1>1. setPriority(b, id) = c
  BY EvaluatedIs DEF setPriority
<1>2. /\ BridgeOK(a, K) /\ a.id = id /\ a.rolesel = b.rolesel /\ a.rootPrio = b.rootPrio
      /\ a.port = b.port
  BY IsBridgeField DEF Kept, BInv, BridgeOK
<1> HIDE DEF a
<1>3. ASSUME NEW p \in Ports PROVE PortOK(f[p], p, K) /\ f[p].reselect /\ Obeys(f[p])
  <2>1. PortOK(b.port[p], p, K) /\ Obeys(b.port[p])
    BY DEF Kept, Settled, BInv, BridgeOK
  <2>2. PortOK(reselected(b.port[p]), p, K) /\ reselected(b.port[p]).reselect
    BY <2>1, ReselectedStep
  <2>3. Obeys(reselected(b.port[p]))
    BY <2>1, IsField DEF Obeys, reselected, PortOK
  <2> QED
    BY <2>2, <2>3
<1>4. DOMAIN f = Ports
  OBVIOUS
<1> HIDE DEF f
<1>5. /\ BridgeOK(c, K) /\ c.id = id /\ c.port = f /\ c.rolesel = b.rolesel
      /\ c.rootPrio = b.rootPrio
  BY <1>2, <1>3, <1>4, SetPorts
<1> HIDE DEF c
<1>6. Kept(c, K)
  BY <1>3, <1>5, NoticeKeeps
<1> QED
  BY <1>1, <1>5, <1>6

\* STP_stpm_one_second.
LEMMA SecondKeeps ==
  ASSUME NEW b, NEW K, K \subseteq Nat, BInv(b, K)
  PROVE  Returned(oneSecond(b), b.id, K)
<1> DEFINE f == [p \in Ports |-> aged(b.port[p])]
           c == [b EXCEPT !.port = f]
<1>1. oneSecond(b) = Update(c)
  BY EvaluatedIs DEF oneSecond
<1>2. ASSUME NEW p \in Ports PROVE PortOK(f[p], p, K) /\ Same(b.port[p], f[p])
  <2>1. PortOK(b.port[p], p, K)
    BY DEF BInv, BridgeOK
  <2>2. PortOK(aged(b.port[p]), p, K) /\ Same(b.port[p], aged(b.port[p]))
    BY <2>1, AgedStep
  <2> QED
    BY <2>2
<1>3. DOMAIN f = Ports
  OBVIOUS
<1> HIDE DEF f
<1>4. /\ BridgeOK(c, K) /\ c.id = b.id /\ c.port = f /\ c.rolesel = b.rolesel
      /\ c.rootPrio = b.rootPrio
  BY <1>2, <1>3, SetPorts DEF BInv
<1> HIDE DEF c
<1>5. BInv(c, K)
  BY <1>2, <1>4, SameElection
<1> QED
  BY <1>1, <1>4, <1>5, UpdateKeeps

\* What was there before stays where it was.
LEMMA AppendAt ==
  ASSUME NEW S, NEW v \in Seq(S), NEW x \in S
  PROVE  \A i \in 1 .. Len(v) : Append(v, x)[i] = v[i]
BY AppendProperties

\* A vector of four with a fifth.
LEMMA FifthAppended ==
  ASSUME NEW S, NEW v \in Seq(S), Len(v) = 4, NEW x \in S
  PROVE  Append(v, x) = <<v[1], v[2], v[3], v[4], x>>
<1> DEFINE w == Append(v, x)
<1>1. Len(w) = Len(v) + 1 /\ w[Len(v) + 1] = x /\ w \in Seq(S)
  BY AppendProperties
<1>2. \A i \in 1 .. Len(v) : w[i] = v[i]
  BY AppendAt, Zenon
<1> HIDE DEF w
<1>3. Len(v) + 1 = 5 /\ 1 \in 1 .. 4 /\ 2 \in 1 .. 4 /\ 3 \in 1 .. 4 /\ 4 \in 1 .. 4
  OBVIOUS
<1>4. Len(w) = 5 /\ w[5] = x /\ w[1] = v[1] /\ w[2] = v[2] /\ w[3] = v[3] /\ w[4] = v[4]
  BY <1>1, <1>2, <1>3, Zenon
<1>5. w = <<w[1], w[2], w[3], w[4], w[5]>>
  BY <1>1, <1>4
<1> QED
  BY <1>4, <1>5 DEF w

Quadruple(h, K) == \E i, j, k, l : /\ i \in K /\ j \in Nat /\ k \in K /\ l \in Ports
                                  /\ h = <<i, j, k, l>>

\* The vector in a message.
LEMMA HeaderIs == ASSUME NEW K, NEW h \in Headers(K) PROVE Quadruple(h, K)
BY DEF Headers, Quadruple

\* What arrives at a port carries the port.
LEMMA HeaderArrives ==
  ASSUME NEW K, K \subseteq Nat, NEW h \in Headers(K), NEW p \in Ports
  PROVE  HeardAt(Append(h, p), p, K)
<1>1. PICK i, j, k, l : /\ i \in K /\ j \in Nat /\ k \in K /\ l \in Ports
                        /\ h = <<i, j, k, l>>
  <2>1. Quadruple(h, K)
    BY HeaderIs
  <2> QED
    BY <2>1 DEF Quadruple
<1>2. h = <<i, j, k, l>>
  BY <1>1
<1>3. i \in Nat /\ j \in Nat /\ k \in Nat /\ l \in Nat /\ p \in Nat
  BY <1>1, PortAssumption
<1> DEFINE v == <<i, j, k, l>>
<1>4. v \in Seq(Nat) /\ Len(v) = 4 /\ v[1] = i /\ v[2] = j /\ v[3] = k /\ v[4] = l
  BY <1>3
<1> HIDE DEF v
<1>5. Append(v, p) = <<i, j, k, l, p>>
  BY <1>3, <1>4, FifthAppended
<1>6. HeardAt(<<i, j, k, l, p>>, p, K)
  BY <1>1, <1>3 DEF HeardAt, Priorities
<1> QED
  BY <1>2, <1>5, <1>6 DEF v

\* The message that a port takes over.
LEMMA ArrivalOK ==
  ASSUME NEW K, K \subseteq Nat, NEW m \in Messages(K), NEW p \in Ports, m.type # "tcn"
  PROVE  /\ [m EXCEPT !.prio = Append(@, p)].type = m.type
         /\ HeardAt([m EXCEPT !.prio = Append(@, p)].prio, p, K)
         /\ [m EXCEPT !.prio = Append(@, p)].age \in Nat
<1> DEFINE n == [m EXCEPT !.prio = Append(@, p)]
<1>1. m.prio \in Headers(K) /\ m.age \in Nat /\ {"type", "prio", "age"} \subseteq DOMAIN m
  BY DEF Messages
<1>2. n.type = m.type /\ n.prio = Append(m.prio, p) /\ n.age = m.age
  BY <1>1
<1>3. HeardAt(Append(m.prio, p), p, K)
  BY <1>1, HeaderArrives
<1> QED
  BY <1>1, <1>2, <1>3

\* STP_IN_rx_bpdu.
LEMMA ReceiveKeeps ==
  ASSUME NEW b, NEW K, K \subseteq Nat, BInv(b, K), NEW p \in Ports, NEW m \in Messages(K)
  PROVE  Returned(rxBpdu(b, p, m), b.id, K)
<1> DEFINE n == IF m.type = "tcn" THEN m ELSE [m EXCEPT !.prio = Append(@, p)]
           r == [b.port[p] EXCEPT !.operEdge = FALSE, !.rcvdBpdu = TRUE, !.msg = n]
           c == [b EXCEPT !.port[p] = r]
<1>1. rxBpdu(b, p, m) = Update(c)
  BY DEF rxBpdu
<1>2. n.type \in {"config", "rstp"} => HeardAt(n.prio, p, K) /\ n.age \in Nat
  <2>1. CASE m.type = "tcn"
    BY <2>1
  <2>2. CASE m.type # "tcn"
    BY <2>2, ArrivalOK
  <2> QED
    BY <2>1, <2>2
<1> HIDE DEF n
<1>3. BridgeOK(b, K) /\ PortOK(b.port[p], p, K)
  BY DEF BInv, BridgeOK
<1>4. PortOK(r, p, K) /\ Same(b.port[p], r)
  BY <1>2, <1>3, ReceiveStep
<1> HIDE DEF r
<1>5. Moved(b, c, p, r)
  BY <1>3, SetPort
<1> HIDE DEF c
<1>6. BInv(c, K) /\ c.id = b.id
  BY <1>4, <1>5, MovedSame
<1> QED
  BY <1>1, <1>6, UpdateKeeps

-----------------------------------------------------------------------------
(* A bridge just started.                                                                  *)

\* The port of a bridge just created.
LEMMA NewPortOK ==
  ASSUME NEW duplex, NEW speed, NEW p, NEW K
  PROVE  PortOK(newPort(duplex, speed), p, K)
<1> DEFINE q == newPort(duplex, speed)
<1>fields. DOMAIN q = Fields
  BY DEF newPort, Fields
<1>timers. TimersOK(q)
  BY SpanHas, TxCountHas DEF newPort, TimersOK
<1>states. StatesOK(q)
  BY DEF newPort, StatesOK, OtherStates
<1>info. InfoOK(q, p, K)
  BY DEF newPort, InfoOK, InfoStates, NoMsg
<1>roles. RolesOK(q)
  BY DEF newPort, RolesOK, RootStates, DesignatedStates, AllRoles
<1> QED
  BY <1>fields, <1>timers, <1>states, <1>info, <1>roles DEF PortOK

\* STP_stpm_start.
LEMMA StpmStartKeeps ==
  ASSUME NEW K, K \subseteq Nat, NEW id \in K, NEW duplex, NEW speed
  PROVE  Returned(stpmStart(id, duplex, speed), id, K)
<1> DEFINE f == [p \in Ports |-> newPort(duplex[p], speed)]
           c == [id |-> id, rolesel |-> "BEGIN", rootPrio |-> <<id, 0, id, 0, 0>>,
                 rootAge |-> 0, port |-> f, out |-> <<>>]
<1>1. stpmStart(id, duplex, speed) = Update(c)
  BY EvaluatedIs DEF stpmStart
<1>2. DOMAIN f = Ports /\ \A p \in Ports : PortOK(f[p], p, K)
  BY NewPortOK
<1> HIDE DEF f
<1>3. <<id, 0, id, 0, 0>> \in Priorities(K)
  BY DEF Priorities
<1>4. BridgeOK(c, K) /\ c.id = id /\ c.rolesel = "BEGIN"
  BY <1>2, <1>3 DEF BridgeOK, BridgeFields
<1> HIDE DEF c
<1>5. BInv(c, K)
  BY <1>4 DEF BInv, Election, Standing
<1> QED
  BY <1>1, <1>4, <1>5, UpdateKeeps

\* bridge:start of rstp.lua.
LEMMA StartKeeps ==
  ASSUME NEW K, K \subseteq Nat, NEW id \in K, NEW duplex, NEW speed
  PROVE  Returned(bridgeStart(id, duplex, speed), id, K)
<1> DEFINE b == stpmStart(id, duplex, speed)
           f == [p \in Ports |-> enablePort(b, p, TRUE).port[p]]
           c == [b EXCEPT !.port = f]
<1>0. CASE b = Hung
  <2>1. bridgeStart(id, duplex, speed) = Hung
    BY <1>0 DEF bridgeStart
  <2>2. MaxLoops < LoopBound
    BY <1>0, StpmStartKeeps DEF Returned
  <2> QED
    BY <2>1, <2>2 DEF Returned
<1> SUFFICES ASSUME b # Hung PROVE Returned(bridgeStart(id, duplex, speed), id, K)
  BY <1>0
<1>1. bridgeStart(id, duplex, speed) = c
  BY EvaluatedIs DEF bridgeStart
<1>2. Kept(b, K) /\ b.id = id
  BY StpmStartKeeps DEF Returned
<1> HIDE DEF b
<1>3. ASSUME NEW p \in Ports
      PROVE  /\ PortOK(f[p], p, K)
             /\ f[p] = b.port[p] \/ (f[p].reselect /\ Obeys(f[p]))
  <2>1. BridgeOK(b, K) /\ PortOK(b.port[p], p, K) /\ Obeys(b.port[p])
    BY <1>2 DEF Kept, Settled, BInv, BridgeOK
  <2>2. CASE b.port[p].enabled = TRUE
    <3>1. f[p] = b.port[p]
      BY <2>2, EnableIs
    <3> HIDE DEF f
    <3> QED
      BY <2>1, <3>1
  <2>3. CASE b.port[p].enabled # TRUE
    <3> DEFINE r == enabledPort(b.port[p], TRUE)
    <3>1. PortOK(r, p, K) /\ r.reselect /\ Obeys(r)
      BY <2>1, EnableStep, EnabledObeys
    <3>2. enablePort(b, p, TRUE) = [b EXCEPT !.port[p] = r]
      BY <2>3, EnableIs
    <3> HIDE DEF r
    <3>3. [b EXCEPT !.port[p] = r].port[p] = r
      BY <2>1, SetPort DEF Moved
    <3>4. f[p] = r
      BY <3>2, <3>3
    <3> HIDE DEF f
    <3> QED
      BY <3>1, <3>4
  <2> QED
    BY <2>2, <2>3
<1>4. DOMAIN f = Ports
  OBVIOUS
<1> HIDE DEF f
<1>5. BridgeOK(b, K)
  BY <1>2 DEF Kept, BInv
<1>6. /\ BridgeOK(c, K) /\ c.id = b.id /\ c.port = f /\ c.rolesel = b.rolesel
      /\ c.rootPrio = b.rootPrio
  BY <1>3, <1>4, <1>5, SetPorts
<1> HIDE DEF c
<1>7. Kept(c, K)
  BY <1>2, <1>3, <1>6, NoticeKeeps
<1>8. Returned(c, id, K)
  BY <1>2, <1>6, <1>7, KeptReturns
<1> QED
  BY <1>1, <1>8
=============================================================================
