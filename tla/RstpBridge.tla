----------------------------- MODULE RstpBridge -----------------------------
(***************************************************************************)
(* One bridge of the rapid spanning tree library (src/src/rstp): the       *)
(* variables of the bridge and of its ports, the state machines, and       *)
(* STP_stpm_update, which runs them until none can move.  The module is    *)
(* constant-level: a bridge is a record, and what the library is called    *)
(* with maps a bridge to a bridge.  RstpNetwork joins bridges by LANs.     *)
(*                                                                         *)
(* The variables and the machines of a port are fields of its record,      *)
(* named as in port.h.  For a machine x, xHop is its check_conditions      *)
(* function - the state to hop to, or Stay - and xEnter its enter_state    *)
(* function, applied after the hop.                                        *)
(*                                                                         *)
(* All bridges have the same configured timer values, so the message age   *)
(* is the only part of a TIMEVALUES_T that can differ; the path cost of a  *)
(* port is left to its speed and every port has the default priority, so   *)
(* that its number is its identifier.                                      *)
(***************************************************************************)
EXTENDS Integers, Sequences, FiniteSets

CONSTANTS Ports,                      \* the port numbers of a bridge
          MaxAge, ForwardDelay, HelloTime,
          MaxLoops                    \* more rounds of STP_stpm_update than any call needs

MigrateTime == 3
TxHoldCount == 6

\* What _check_stpm_config accepts.
ASSUME TimesAssumption ==
  /\ HelloTime \in 1 .. 10 /\ MaxAge \in 6 .. 40 /\ ForwardDelay \in 4 .. 30
  /\ MaxAge \in 2 * (HelloTime + 1) .. 2 * (ForwardDelay - 1)
ASSUME LoopsAssumption == MaxLoops \in Nat
ASSUME PortAssumption == IsFiniteSet(Ports) /\ Ports # {} /\ Ports \subseteq 1 .. 255

Stay == "stay"
Hung == [hung |-> TRUE]  \* the simulator is caught in the loop of STP_stpm_update
NoMsg == [type |-> "none"]

Largest(S) == CHOOSE x \in S : \A y \in S : y <= x
Smallest(S) == CHOOSE x \in S : \A y \in S : x <= y

\* The function f, which TLC then evaluates once and not with every use.
Evaluated(f) == CHOOSE g \in {f} : g = f

\* A transition table: the state of the first row whose condition holds.
First(table) ==
  LET on == {i \in DOMAIN table : table[i][1]}
  IN IF on = {} THEN Stay ELSE table[Smallest(on)][2]
When(condition, state) == IF condition THEN state ELSE Stay

-----------------------------------------------------------------------------
\* Priority vectors <<root, path cost, designated bridge, its port, receiving port>>.

Better(v, w) == \E i \in 1 .. 5 : v[i] < w[i] /\ \A j \in 1 .. i - 1 : v[j] = w[j]
NoWorse(v, w) == ~Better(w, v)

designPrio(b, p) == <<b.rootPrio[1], b.rootPrio[2], b.id, p, p>>

\* The message age a bridge adds to the information of its root port.
AgeStep == IF MaxAge < 8 THEN 1 ELSE (8 + MaxAge) \div 16

PathCost(speed) == First(<<
  << speed < 10, 20000000 >>, << speed <= 10, 2000000 >>, << speed <= 100, 200000 >>,
  << speed <= 1000, 20000 >>, << speed <= 10000, 2000 >>, << speed <= 100000, 200 >>,
  << speed <= 1000000, 20 >>, << speed <= 10000000, 2 >>, << TRUE, 1 >> >>)

-----------------------------------------------------------------------------
\* Port Receive (portrec.c).

portrecHop(q) ==
  IF q.portrec = "BEGIN" THEN "DISCARD"
  ELSE IF q.enabled THEN When(q.rcvdBpdu /\ (q.portrec = "RECEIVE" => ~q.rcvdMsg), "RECEIVE")
  ELSE When(q.edgeDelayWhile # MigrateTime \/ q.rcvdBpdu, "DISCARD")

portrecEnter(q) ==
  IF q.portrec = "DISCARD"
    THEN [q EXCEPT !.rcvdBpdu = FALSE, !.rcvdRSTP = FALSE, !.rcvdSTP = FALSE,
                   !.rcvdMsg = FALSE, !.msg = NoMsg, !.edgeDelayWhile = MigrateTime]
    ELSE [q EXCEPT !.rcvdSTP = @ \/ q.msg.type # "rstp",
                   !.rcvdRSTP = @ \/ q.msg.type = "rstp",
                   !.operEdge = FALSE, !.rcvdBpdu = FALSE, !.rcvdMsg = TRUE,
                   !.edgeDelayWhile = MigrateTime]

\* Bridge Detection (brdec.c).  autoEdge is never set, so the second way into EDGE,
\* the silence of the LAN, is never taken.
brdecHop(q) ==
  CASE q.brdec = "BEGIN" -> IF q.adminEdge THEN "EDGE" ELSE "NOT_EDGE"
    [] q.brdec = "EDGE" -> When((~q.enabled /\ ~q.adminEdge) \/ ~q.operEdge, "NOT_EDGE")
    [] q.brdec = "NOT_EDGE" -> When(~q.enabled /\ q.adminEdge, "EDGE")

brdecEnter(q) == [q EXCEPT !.operEdge = (q.brdec = "EDGE")]

(* Mutant of sttransHop: a forwarding port is not told to stop.            *)
sttransHopOn(q) ==
  CASE q.sttrans = "BEGIN" -> "DISCARDING"
    [] q.sttrans = "DISCARDING" -> When(q.learn, "LEARNING")
    [] q.sttrans = "LEARNING" -> IF q.forward THEN "FORWARDING" ELSE When(~q.learn, "DISCARDING")
    [] q.sttrans = "FORWARDING" -> Stay

\* Port State Transition (sttrans.c); the data plane obeys learning and forwarding.
sttransHop(q) ==
  CASE q.sttrans = "BEGIN" -> "DISCARDING"
    [] q.sttrans = "DISCARDING" -> When(q.learn, "LEARNING")
    [] q.sttrans = "LEARNING" -> IF q.forward THEN "FORWARDING" ELSE When(~q.learn, "DISCARDING")
    [] q.sttrans = "FORWARDING" -> When(~q.forward, "DISCARDING")

sttransEnter(q) == [q EXCEPT !.learning = (q.sttrans # "DISCARDING"),
                             !.forwarding = (q.sttrans = "FORWARDING")]

\* Port Protocol Migration (migrate.c).  rstpVer reads ForceVersion of a bridge through
\* a pointer to a port: it finds part of an address there, never a number below 2.
migrateHop(q) ==
  CASE q.migrate = "BEGIN" -> "CHECKING_RSTP"
    [] q.migrate = "CHECKING_RSTP" ->
         IF ~q.enabled /\ q.mdelayWhile # MigrateTime THEN "CHECKING_RSTP"
         ELSE When(q.mdelayWhile = 0, "SENSING")
    [] q.migrate = "SELECTING_STP" ->
         When(q.mdelayWhile = 0 \/ ~q.enabled \/ q.mcheck, "SENSING")
    [] q.migrate = "SENSING" ->
         IF q.rcvdRSTP /\ q.rcvdSTP THEN "SELECTING_STP"
         ELSE When(~q.enabled \/ q.mcheck, "CHECKING_RSTP")

migrateEnter(q) ==
  CASE q.migrate = "CHECKING_RSTP" ->
         [q EXCEPT !.mcheck = FALSE, !.sendRSTP = TRUE, !.mdelayWhile = MigrateTime]
    [] q.migrate = "SELECTING_STP" -> [q EXCEPT !.sendRSTP = FALSE, !.mdelayWhile = MigrateTime]
    [] q.migrate = "SENSING" -> [q EXCEPT !.rcvdRSTP = FALSE, !.rcvdSTP = FALSE]

\* Point-to-point (p2p.c): adminPointToPointMac is P2P_AUTO.
p2pHop(q) ==
  IF q.p2p = "STABLE" THEN When(q.p2p_recompute, "RECOMPUTE") ELSE "STABLE"

(* Mutant of p2pEnter: the request is not reset.                           *)
p2pEnterAgain(q) ==
  IF q.p2p = "RECOMPUTE" THEN [q EXCEPT !.operPointToPointMac = q.duplex] ELSE q
p2pEnter(q) ==
  IF q.p2p = "RECOMPUTE"
    THEN [q EXCEPT !.operPointToPointMac = q.duplex, !.p2p_recompute = FALSE]
    ELSE q

\* Path cost (pcost.c): adminPCost is ADMIN_PORT_PATH_COST_AUTO.
pcostHop(q) ==
  CASE q.pcost = "BEGIN" -> "AUTO"
    [] q.pcost = "AUTO" -> "STABLE"
    [] q.pcost = "STABLE" -> When(q.operSpeed # q.usedSpeed, "AUTO")

pcostEnter(q) ==
  IF q.pcost = "AUTO"
    THEN [q EXCEPT !.usedSpeed = q.operSpeed, !.operPCost = PathCost(q.operSpeed)]
    ELSE [q EXCEPT !.selected = FALSE, !.reselect = TRUE]
-----------------------------------------------------------------------------
\* Port Information (portinfo.c).  The state ENABLED and the result
\* RepeatedDesignatedInfo are never reached: DISABLED goes to AGED, and a message of
\* the port's own designated bridge and port counts as superior.  The fields of the
\* last message are dead once rcvdMsg is reset; msg is NoMsg then.

(* Mutant of fromDesignated: only the Configuration BPDU counts.            *)
fromDesignatedConfig(m) == m.type = "config"
fromDesignated(m) == m.type = "config" \/ (m.type = "rstp" /\ m.role = "Designated")

rcvInfo(q) ==
  LET m == q.msg
  IN CASE m.type = "tcn" -> "OTHER"
       [] fromDesignated(m) ->
            IF \/ Better(m.prio, q.portPrio)
               \/ m.prio[3] = q.portPrio[3] /\ m.prio[4] = q.portPrio[4]
               \/ m.prio = q.portPrio /\ m.age # q.portAge
              THEN "SUPERIOR_DESIGNATED"
              ELSE IF Better(q.portPrio, m.prio) THEN "INFERIOR_DESIGNATED"
                                                 ELSE "REPEATED_DESIGNATED"
       [] m.type = "rstp" /\ m.role \in {"Root", "Alternate"}
            /\ NoWorse(q.portPrio, m.prio) -> "NOT_DESIGNATED"
       [] OTHER -> "OTHER"

(* Mutant of expired: one second too late, and then never.                 *)
expiredNever(q) == q.infoIs = "Received" /\ q.rcvdInfoWhile < 0 /\ ~q.updtInfo /\ ~q.rcvdMsg
expired(q) == q.infoIs = "Received" /\ q.rcvdInfoWhile = 0 /\ ~q.updtInfo /\ ~q.rcvdMsg

infoHop(q) ==
  IF q.info = "BEGIN" \/ (~q.enabled /\ q.infoIs # "Disabled") THEN "DISABLED"
  ELSE CASE q.info = "DISABLED" -> IF q.rcvdMsg THEN "DISABLED" ELSE When(q.enabled, "AGED")
         [] q.info = "AGED" -> When(q.selected /\ q.updtInfo, "UPDATE")
         [] q.info = "CURRENT" ->
              IF q.selected /\ q.updtInfo THEN "UPDATE"
              ELSE IF expired(q) THEN "AGED"
              ELSE When(q.rcvdMsg /\ ~q.updtInfo, "RECEIVE")
         [] q.info = "RECEIVE" -> rcvInfo(q)
         [] OTHER -> "CURRENT"

setTcFlags(q) ==
  IF q.msg.type = "tcn" THEN [q EXCEPT !.rcvdTcn = TRUE]
  ELSE [q EXCEPT !.rcvdTc = @ \/ "tc" \in q.msg.flags,
                 !.rcvdTcAck = @ \/ "tcAck" \in q.msg.flags]

\* recordProposal, betterorsameInfo(Received), recordPriority, recordTimes, updtRcvdInfoWhile
superiorDesignated(q) ==
  [setTcFlags(q) EXCEPT
     !.agreed = FALSE, !.proposing = FALSE,
     !.proposed = @ \/ (q.msg.type = "rstp" /\ "proposal" \in q.msg.flags),
     !.agree = @ /\ q.infoIs = "Received" /\ NoWorse(q.msg.prio, q.portPrio),
     !.portPrio = q.msg.prio, !.portAge = q.msg.age,
     !.rcvdInfoWhile = IF q.msg.age + 1 <= MaxAge THEN 3 * HelloTime ELSE 0,
     !.infoIs = "Received", !.reselect = TRUE, !.selected = FALSE]

\* recordDispute: the dispute counts as an agreement, too.
inferiorDesignated(q) ==
  IF q.msg.type = "rstp" /\ "learn" \in q.msg.flags
    THEN [q EXCEPT !.agreed = TRUE, !.proposing = FALSE, !.disputed = TRUE]
    ELSE q

(* Mutant of agrees: one station of a shared LAN speaks for all of them.   *)
agreesAnywhere(q) == "agree" \in q.msg.flags
agrees(q) == q.operPointToPointMac /\ "agree" \in q.msg.flags
\* recordAgreement
notDesignated(q) == [setTcFlags(q) EXCEPT !.agreed = agrees(q), !.proposing = @ /\ ~agrees(q)]

\* d is the design priority of the port.
infoEnter(q, d, age) ==
  CASE q.info = "DISABLED" ->
         [q EXCEPT !.rcvdMsg = FALSE, !.msg = NoMsg, !.agreed = FALSE, !.proposing = FALSE,
                   !.proposed = FALSE, !.agree = FALSE, !.rcvdInfoWhile = 0,
                   !.infoIs = "Disabled", !.reselect = TRUE, !.selected = FALSE]
    [] q.info = "AGED" -> [q EXCEPT !.infoIs = "Aged", !.reselect = TRUE, !.selected = FALSE]
    [] q.info = "UPDATE" ->
         LET agreed == q.agreed /\ q.infoIs = "Mine" /\ NoWorse(d, q.portPrio)
         IN [q EXCEPT !.proposed = FALSE, !.proposing = FALSE, !.agreed = agreed,
                      !.synced = @ /\ agreed, !.portPrio = d, !.portAge = age,
                      !.updtInfo = FALSE, !.infoIs = "Mine", !.newInfo = TRUE]
    [] q.info \in {"CURRENT", "RECEIVE"} -> q
    [] OTHER ->
         LET r == CASE q.info = "SUPERIOR_DESIGNATED" -> superiorDesignated(q)
                    [] q.info = "REPEATED_DESIGNATED" ->
                         [setTcFlags(q) EXCEPT !.rcvdInfoWhile = 3 * HelloTime]
                    [] q.info = "INFERIOR_DESIGNATED" -> inferiorDesignated(q)
                    [] q.info = "NOT_DESIGNATED" -> notDesignated(q)
                    [] q.info = "OTHER" -> q
         IN [r EXCEPT !.rcvdMsg = FALSE, !.msg = NoMsg]

-----------------------------------------------------------------------------
\* Port Role Selection (rolesel.c).

\* What the bridge may choose its root from: itself, and what its ports have heard.
own(b) == <<b.id, 0, b.id, 0, 0>>
heard(b) == {p \in Ports : b.port[p].infoIs = "Received"}
path(b, p) == [b.port[p].portPrio EXCEPT ![2] = @ + b.port[p].operPCost]

rolesel(b) ==
  LET best == {p \in heard(b) : /\ Better(path(b, p), own(b))
                                /\ \A o \in heard(b) : NoWorse(path(b, p), path(b, o))}
      root == IF best = {} THEN 0 ELSE Largest(best)
      prio == IF root = 0 THEN own(b) ELSE path(b, root)
      age == IF root = 0 THEN 0 ELSE b.port[root].portAge + AgeStep
      select(p) ==
        LET q == b.port[p]
            d == <<prio[1], prio[2], b.id, p, p>>
            r == [q EXCEPT !.reselect = FALSE, !.selected = TRUE]
        IN CASE q.infoIs = "Disabled" -> [r EXCEPT !.selectedRole = "Disabled"]
             [] q.infoIs = "Aged" -> [r EXCEPT !.selectedRole = "Designated", !.updtInfo = TRUE]
             [] q.infoIs = "Mine" ->
                  [r EXCEPT !.selectedRole = "Designated",
                            !.updtInfo = @ \/ q.portPrio # d \/ q.portAge # age]
             [] q.infoIs = "Received" /\ p # prio[5] /\ NoWorse(d, q.portPrio) ->
                  [r EXCEPT !.selectedRole = "Designated", !.updtInfo = TRUE]
             [] OTHER ->
                  [r EXCEPT !.selectedRole = IF p = prio[5] THEN "Root"
                                             ELSE IF q.portPrio[3] = b.id THEN "Backup"
                                             ELSE "Alternate",
                            !.updtInfo = FALSE]
  IN [b EXCEPT !.rolesel = "ROLE_SELECTION", !.rootPrio = prio, !.rootAge = age,
               !.port = Evaluated([p \in Ports |-> select(p)])]
-----------------------------------------------------------------------------
\* Port Role Transitions (roletrns.c).  sendRSTP shortens the delay of a blocked port.

allSynced(b) == \A o \in Ports :
  LET q == b.port[o] IN q.selected /\ q.role = q.selectedRole /\ (q.synced \/ q.role = "Root")
reRooted(b, p) == \A o \in Ports \ {p} : b.port[o].rrWhile = 0
forward_del(q) == IF q.sendRSTP THEN HelloTime ELSE ForwardDelay

\* A passing state belongs to the resting state of its role.
Resting == [INIT_PORT |-> "DISABLE_PORT",
            ROOT_PROPOSED |-> "ROOT_PORT", ROOT_AGREED |-> "ROOT_PORT", REROOT |-> "ROOT_PORT",
            REROOTED |-> "ROOT_PORT", ROOT_LEARN |-> "ROOT_PORT", ROOT_FORWARD |-> "ROOT_PORT",
            DESIGNATED_PROPOSE |-> "DESIGNATED_PORT", DESIGNATED_SYNCED |-> "DESIGNATED_PORT",
            DESIGNATED_RETIRED |-> "DESIGNATED_PORT", DESIGNATED_DISCARD |-> "DESIGNATED_PORT",
            DESIGNATED_LEARN |-> "DESIGNATED_PORT", DESIGNATED_FORWARD |-> "DESIGNATED_PORT",
            ALTERNATE_PROPOSED |-> "ALTERNATE_PORT", ALTERNATE_AGREED |-> "ALTERNATE_PORT",
            BLOCK_PORT |-> "ALTERNATE_PORT", BACKUP_PORT |-> "ALTERNATE_PORT"]

OfRole == [Disabled |-> "DISABLE_PORT", Root |-> "ROOT_PORT", Designated |-> "DESIGNATED_PORT",
           Alternate |-> "BLOCK_PORT", Backup |-> "BLOCK_PORT"]

disabledHop(q) ==
  When(IF q.roletrns = "DISABLE_PORT"
         THEN ~q.learning /\ ~q.forwarding
         ELSE q.fdWhile # MaxAge \/ q.sync \/ q.reRoot \/ ~q.synced, "DISABLED_PORT")

rootHop(q, synced, rerooted) ==
  LET may == q.fdWhile = 0 \/ (rerooted /\ q.rbWhile = 0)
  IN First(<<
       << ~q.forward /\ ~q.reRoot, "REROOT" >>,
       << (synced /\ ~q.agree) \/ (q.proposed /\ q.agree), "ROOT_AGREED" >>,
       << q.proposed /\ ~q.agree, "ROOT_PROPOSED" >>,
       << may /\ q.learn /\ ~q.forward, "ROOT_FORWARD" >>,
       << may /\ ~q.learn, "ROOT_LEARN" >>,
       << q.reRoot /\ q.forward, "REROOTED" >>,
       << q.rrWhile # ForwardDelay, "ROOT_PORT" >> >>)

designatedHop(q) ==
  LET may == /\ q.fdWhile = 0 \/ q.agreed \/ q.operEdge
             /\ q.rrWhile = 0 \/ ~q.reRoot
             /\ ~q.sync
  IN First(<<
       << ~q.forward /\ ~q.agreed /\ ~q.proposing /\ ~q.operEdge, "DESIGNATED_PROPOSE" >>,
       << q.rrWhile = 0 /\ q.reRoot, "DESIGNATED_RETIRED" >>,
       << IF q.synced THEN q.sync
                      ELSE (~q.learning /\ ~q.forwarding) \/ q.agreed \/ q.operEdge,
          "DESIGNATED_SYNCED" >>,
       << may /\ q.learn /\ ~q.forward, "DESIGNATED_FORWARD" >>,
       << may /\ ~q.learn, "DESIGNATED_LEARN" >>,
       << /\ (q.sync /\ ~q.synced) \/ (q.reRoot /\ q.rrWhile # 0) \/ q.disputed
          /\ ~q.operEdge /\ (q.learn \/ q.forward), "DESIGNATED_DISCARD" >> >>)

alternateHop(q, synced) == First(<<
  << ~q.agree /\ q.proposed, "ALTERNATE_PROPOSED" >>,
  << (synced /\ ~q.agree) \/ (q.proposed /\ q.agree), "ALTERNATE_AGREED" >>,
  << q.rbWhile # 2 * HelloTime /\ q.role = "Backup", "BACKUP_PORT" >>,
  << q.fdWhile # forward_del(q) \/ q.sync \/ q.reRoot \/ ~q.synced, "ALTERNATE_PORT" >> >>)

roletrnsHop(b, p) ==
  LET q == b.port[p]
      ready == q.selected /\ ~q.updtInfo
  IN CASE q.roletrns = "BEGIN" -> "INIT_PORT"
       [] q.roletrns # "BEGIN" /\ ready /\ q.role # q.selectedRole -> OfRole[q.selectedRole]
       [] OTHER ->
            IF q.roletrns \in DOMAIN Resting THEN Resting[q.roletrns]
            ELSE IF ~ready THEN Stay
            ELSE CASE q.roletrns \in {"DISABLE_PORT", "DISABLED_PORT"} -> disabledHop(q)
                   [] q.roletrns = "ROOT_PORT" -> rootHop(q, allSynced(b), reRooted(b, p))
                   [] q.roletrns = "DESIGNATED_PORT" -> designatedHop(q)
                   [] q.roletrns = "ALTERNATE_PORT" -> alternateHop(q, allSynced(b))

\* What a state does to its own port.
roletrnsOwn(q) ==
  LET s == q.roletrns
  IN CASE s = "INIT_PORT" ->
            [q EXCEPT !.role = "Disabled", !.learn = FALSE, !.forward = FALSE, !.synced = FALSE,
                      !.sync = TRUE, !.reRoot = TRUE, !.rrWhile = ForwardDelay,
                      !.fdWhile = MaxAge, !.rbWhile = 0]
       [] s \in {"DISABLE_PORT", "BLOCK_PORT"} ->
            [q EXCEPT !.role = q.selectedRole, !.learn = FALSE, !.forward = FALSE]
       [] s \in {"DISABLED_PORT", "ALTERNATE_PORT"} ->
            [q EXCEPT !.fdWhile = IF s = "DISABLED_PORT" THEN MaxAge ELSE forward_del(q),
                      !.synced = TRUE, !.rrWhile = 0, !.sync = FALSE, !.reRoot = FALSE]
       [] s \in {"ROOT_PROPOSED", "ALTERNATE_PROPOSED"} -> [q EXCEPT !.proposed = FALSE]
       [] s = "ROOT_AGREED" ->
            [q EXCEPT !.proposed = FALSE, !.sync = FALSE, !.agree = TRUE, !.newInfo = TRUE]
       [] s = "ALTERNATE_AGREED" -> [q EXCEPT !.proposed = FALSE, !.agree = TRUE, !.newInfo = TRUE]
       [] s = "ROOT_PORT" -> [q EXCEPT !.role = "Root", !.rrWhile = ForwardDelay]
       [] s \in {"REROOTED", "DESIGNATED_RETIRED"} -> [q EXCEPT !.reRoot = FALSE]
       [] s \in {"ROOT_LEARN", "DESIGNATED_LEARN"} ->
            [q EXCEPT !.fdWhile = ForwardDelay, !.learn = TRUE]
       [] s = "ROOT_FORWARD" -> [q EXCEPT !.fdWhile = 0, !.forward = TRUE]
       [] s = "DESIGNATED_FORWARD" ->
            [q EXCEPT !.fdWhile = 0, !.forward = TRUE, !.agreed = q.sendRSTP]
       [] s = "DESIGNATED_PROPOSE" ->
            [q EXCEPT !.proposing = TRUE, !.newInfo = TRUE,
                      !.edgeDelayWhile = IF q.operPointToPointMac THEN MigrateTime
                                                                          ELSE ForwardDelay]
       [] s = "DESIGNATED_SYNCED" -> [q EXCEPT !.rrWhile = 0, !.synced = TRUE, !.sync = FALSE]
       [] s = "DESIGNATED_PORT" -> [q EXCEPT !.role = "Designated"]
       [] s = "DESIGNATED_DISCARD" ->
            [q EXCEPT !.learn = FALSE, !.forward = FALSE, !.disputed = FALSE,
                      !.fdWhile = ForwardDelay]
       [] s = "BACKUP_PORT" -> [q EXCEPT !.rbWhile = 2 * HelloTime]
       [] s = "REROOT" -> q

\* setSyncTree and setReRootTree reach every port of the bridge.
roletrnsEnter(b, p) ==
  LET s == b.port[p].roletrns
      c == [b EXCEPT !.port[p] = roletrnsOwn(@)]
  IN CASE s \in {"ROOT_PROPOSED", "ALTERNATE_PROPOSED"} ->
            [c EXCEPT !.port = Evaluated([o \in Ports |-> [c.port[o] EXCEPT !.sync = TRUE]])]
       [] s = "REROOT" ->
            [c EXCEPT !.port = Evaluated([o \in Ports |-> [c.port[o] EXCEPT !.reRoot = TRUE]])]
       [] OTHER -> c
-----------------------------------------------------------------------------
\* Topology Change (topoch.c).  Flushing the address tables is left to the data plane.

noticed(q) == q.rcvdTc \/ q.rcvdTcn \/ q.rcvdTcAck \/ q.tcProp
active(q) == q.role \in {"Root", "Designated"}

topochHop(q) ==
  CASE q.topoch = "BEGIN" -> "INACTIVE"
    [] q.topoch = "INACTIVE" -> When(q.learn, "LEARNING")
    [] q.topoch = "LEARNING" ->
         IF active(q) /\ q.forward /\ ~q.operEdge THEN "DETECTED"
         ELSE IF noticed(q) THEN "LEARNING"
         ELSE When(~active(q) /\ ~q.learn /\ ~q.learning, "INACTIVE")
    [] q.topoch = "ACTIVE" -> First(<<
         << ~active(q) \/ q.operEdge, "LEARNING" >>, << q.rcvdTcn, "NOTIFIED_TCN" >>,
         << q.rcvdTc, "NOTIFIED_TC" >>, << q.tcProp, "PROPAGATING" >>,
         << q.rcvdTcAck, "ACKNOWLEDGED" >> >>)
    [] q.topoch = "NOTIFIED_TCN" -> "NOTIFIED_TC"
    [] OTHER -> "ACTIVE"

newTcWhile(q) ==
  IF q.tcWhile # 0 THEN q
  ELSE IF q.sendRSTP THEN [q EXCEPT !.tcWhile = HelloTime + 1, !.newInfo = TRUE]
  ELSE [q EXCEPT !.tcWhile = MaxAge + ForwardDelay]

topochOwn(q) ==
  CASE q.topoch = "INACTIVE" -> [q EXCEPT !.tcWhile = 0, !.tcAck = FALSE]
    [] q.topoch = "LEARNING" -> [q EXCEPT !.rcvdTc = FALSE, !.rcvdTcn = FALSE,
                                          !.rcvdTcAck = FALSE, !.tcProp = FALSE]
    [] q.topoch = "DETECTED" -> [newTcWhile(q) EXCEPT !.newInfo = TRUE]
    [] q.topoch = "NOTIFIED_TC" -> [q EXCEPT !.rcvdTcn = FALSE, !.rcvdTc = FALSE,
                                             !.tcAck = @ \/ q.role = "Designated"]
    [] q.topoch = "NOTIFIED_TCN" -> newTcWhile(q)
    [] q.topoch = "PROPAGATING" -> [newTcWhile(q) EXCEPT !.tcProp = FALSE]
    [] q.topoch = "ACKNOWLEDGED" -> [q EXCEPT !.tcWhile = 0, !.rcvdTcAck = FALSE]
    [] q.topoch = "ACTIVE" -> q

\* setTcPropTree tells the other ports of the bridge.
topochEnter(b, p) ==
  LET q == topochOwn(b.port[p])
  IN [b EXCEPT !.port = Evaluated([o \in Ports |->
        IF o = p THEN q
        ELSE [b.port[o] EXCEPT !.tcProp = @ \/ q.topoch \in {"DETECTED", "NOTIFIED_TC"}]])]

-----------------------------------------------------------------------------
\* Port Transmit (transmit.c).  It asks neither whether the port is enabled nor
\* whether its role has been selected and its information updated.

transmitHop(q) ==
  CASE q.transmit = "BEGIN" -> "TRANSMIT_INIT"
    [] q.transmit = "IDLE" ->
         IF q.helloWhen = 0 THEN "TRANSMIT_PERIODIC"
         ELSE IF ~q.newInfo \/ q.txCount >= TxHoldCount THEN Stay
         ELSE IF q.sendRSTP THEN "TRANSMIT_RSTP"
         ELSE IF q.role = "Designated" THEN "TRANSMIT_CONFIG"
         ELSE When(q.role = "Root", "TRANSMIT_TCN")
    [] OTHER -> "IDLE"

\* txConfig, txTcn, txRstp; msgFlags of an RST BPDU also carry the role.
bpdu(b, p) ==
  LET q == b.port[p]
      tc == IF q.tcWhile # 0 THEN {"tc"} ELSE {}
      body == [prio |-> <<b.rootPrio[1], b.rootPrio[2], b.id, p>>, age |-> b.rootAge]
  IN CASE q.transmit = "TRANSMIT_TCN" -> [type |-> "tcn"]
       [] q.transmit = "TRANSMIT_CONFIG" ->
            [type |-> "config", prio |-> body.prio, age |-> body.age,
             flags |-> tc \cup (IF q.tcAck THEN {"tcAck"} ELSE {})]
       [] q.transmit = "TRANSMIT_RSTP" ->
            [type |-> "rstp", prio |-> body.prio, age |-> body.age,
             role |-> IF q.selectedRole = "Backup" THEN "Alternate" ELSE q.selectedRole,
             flags |-> tc \cup {f \in {"learn", "agree", "proposal"} :
                         CASE f = "learn" -> q.learning
                           [] f = "agree" -> q.agree
                           [] f = "proposal" -> q.proposing}]

\* Who sends the hello messages, and the topology change towards the root.
periodic(q) == q.role = "Designated" \/ (q.role = "Root" /\ q.tcWhile # 0)

\* b.out collects what the call sends.
transmitEnter(b, p) ==
  LET q == b.port[p]
  IN CASE q.transmit = "TRANSMIT_INIT" ->
            [b EXCEPT !.port[p] = [q EXCEPT !.newInfo = TRUE, !.txCount = 0]]
       [] q.transmit = "IDLE" -> [b EXCEPT !.port[p].helloWhen = HelloTime]
       [] q.transmit = "TRANSMIT_PERIODIC" ->
            [b EXCEPT !.port[p].newInfo = @ \/ periodic(q)]
       [] OTHER ->
            [b EXCEPT !.port[p] = [q EXCEPT !.newInfo = FALSE, !.txCount = @ + 1,
                                            !.tcAck = @ /\ q.transmit = "TRANSMIT_TCN"],
                      !.out = Append(@, <<p, bpdu(b, p)>>)]
-----------------------------------------------------------------------------
\* STP_stpm_update: role selection first, then port by port from the last one, the
\* transmit machines at the end.  The first machine that can move does; then again.

NoHop == <<"", 0, Stay>>

\* The machines of a port in the order of its list: the hop <<machine, port, state>> of
\* the first that can move, with state Stay if none can.
portHop(b, p) ==
  LET q == b.port[p]
      try(m, s, others) == IF s # Stay THEN <<m, p, s>> ELSE others
  IN try("brdec", brdecHop(q), try("portrec", portrecHop(q), try("sttrans", sttransHop(q),
     try("roletrns", roletrnsHop(b, p), try("info", infoHop(q), try("pcost", pcostHop(q),
     try("p2p", p2pHop(q), try("migrate", migrateHop(q), try("topoch", topochHop(q),
     NoHop)))))))))

\* Who can move: role selection comes first, then the ports from the last one; the transmit
\* machines move when no other machine can.
nextHop(b) ==
  LET able == {p \in Ports : portHop(b, p)[3] # Stay}
      sending == {p \in Ports : transmitHop(b.port[p]) # Stay}
  IN IF b.rolesel = "BEGIN" \/ \E p \in Ports : b.port[p].reselect
       THEN <<"rolesel", 0, "ROLE_SELECTION">>
     ELSE IF able # {} THEN portHop(b, Largest(able))
     ELSE IF sending # {}
       THEN <<"transmit", Largest(sending), transmitHop(b.port[Largest(sending)])>>
     ELSE NoHop

enter(b, m, p) ==
  CASE m = "roletrns" -> roletrnsEnter(b, p)
    [] m = "topoch" -> topochEnter(b, p)
    [] m = "transmit" -> transmitEnter(b, p)
    [] OTHER -> [b EXCEPT !.port[p] =
                   CASE m = "brdec" -> brdecEnter(@)
                     [] m = "portrec" -> portrecEnter(@)
                     [] m = "sttrans" -> sttransEnter(@)
                     [] m = "info" -> infoEnter(@, designPrio(b, p), b.rootAge)
                     [] m = "pcost" -> pcostEnter(@)
                     [] m = "p2p" -> p2pEnter(@)
                     [] m = "migrate" -> migrateEnter(@)]

hop(b, h) ==
  IF h[1] = "rolesel" THEN rolesel(b)
  ELSE enter([b EXCEPT !.port[h[2]][h[1]] = h[3]], h[1], h[2])

\* STP_stpm_update: the bridge after each round and the hop that comes next, until no machine
\* can move.
rounds(b) ==
  LET at(c) == [bridge |-> c, next |-> nextHop(c)]
      round[n \in 0 .. MaxLoops] ==
        IF n = 0 THEN at(b)
        ELSE LET r == round[n - 1]
             IN IF r.next = NoHop THEN r ELSE at(hop(r.bridge, r.next))
  IN round

Update(b) == LET last == rounds(b)[MaxLoops]
             IN IF last.next = NoHop THEN last.bridge ELSE Hung

-----------------------------------------------------------------------------
\* What the library is called with.

\* STP_port_create, STP_port_init and the entry of BEGIN by every machine: the port of a
\* bridge just started, whose link status is still that of the cleared bitmap.
newPort(duplex, speed) ==
  [brdec |-> "BEGIN", portrec |-> "BEGIN", sttrans |-> "BEGIN", roletrns |-> "BEGIN",
   info |-> "BEGIN", pcost |-> "BEGIN", p2p |-> "BEGIN", migrate |-> "BEGIN",
   topoch |-> "BEGIN", transmit |-> "BEGIN",
   enabled |-> FALSE, adminEdge |-> FALSE, operEdge |-> TRUE,
   duplex |-> duplex, operPointToPointMac |-> FALSE, p2p_recompute |-> TRUE,
   operSpeed |-> speed, usedSpeed |-> 0, operPCost |-> 0,
   msg |-> NoMsg, rcvdBpdu |-> FALSE, rcvdMsg |-> FALSE, rcvdRSTP |-> FALSE,
   rcvdSTP |-> FALSE, sendRSTP |-> TRUE, mcheck |-> FALSE,
   infoIs |-> "Disabled", portPrio |-> <<0, 0, 0, 0, 0>>, portAge |-> 0,
   reselect |-> TRUE, selected |-> FALSE, updtInfo |-> FALSE,
   role |-> "Disabled", selectedRole |-> "Disabled",
   learn |-> FALSE, forward |-> FALSE, learning |-> FALSE, forwarding |-> FALSE,
   sync |-> TRUE, synced |-> FALSE, reRoot |-> TRUE, agree |-> FALSE, agreed |-> FALSE,
   proposed |-> FALSE, proposing |-> FALSE, disputed |-> FALSE, newInfo |-> TRUE,
   rcvdTc |-> FALSE, rcvdTcn |-> FALSE, rcvdTcAck |-> FALSE, tcAck |-> FALSE, tcProp |-> FALSE,
   edgeDelayWhile |-> MigrateTime, fdWhile |-> MaxAge, helloWhen |-> 0,
   mdelayWhile |-> MigrateTime, rbWhile |-> 0, rcvdInfoWhile |-> 0,
   rrWhile |-> ForwardDelay, tcWhile |-> 0, txCount |-> 0]

\* STP_stpm_start
stpmStart(id, duplex, speed) ==
  Update([id |-> id, rolesel |-> "BEGIN", rootPrio |-> <<id, 0, id, 0, 0>>, rootAge |-> 0,
          port |-> Evaluated([p \in Ports |-> newPort(duplex[p], speed)]), out |-> <<>>])

reselected(q) == [q EXCEPT !.reselect = TRUE, !.selected = FALSE]

\* STP_IN_enable_port: the machines are not run.  portEnabled is the conjunction of two
\* variables that are only ever set together.
enablePort(b, p, on) ==
  IF b.port[p].enabled = on THEN b
  ELSE [b EXCEPT !.port[p] =
          [reselected(@) EXCEPT
             !.enabled = on, !.fdWhile = 0, !.helloWhen = 0, !.mdelayWhile = 0, !.rbWhile = 0,
             !.rcvdInfoWhile = 0, !.rrWhile = 0, !.tcWhile = 0, !.txCount = 0,
             !.selectedRole = "Disabled", !.sendRSTP = TRUE, !.p2p_recompute = TRUE]]

\* bridge:start of rstp.lua: start the library, then enable every port.
bridgeStart(id, duplex, speed) ==
  LET b == stpmStart(id, duplex, speed)
  IN IF b = Hung THEN Hung
     ELSE [b EXCEPT !.port = Evaluated([p \in Ports |-> enablePort(b, p, TRUE).port[p]])]

\* STP_IN_up_port: linkUp and linkDown of rstp.lua
linkPort(b, p, up) == Update(enablePort(b, p, up))

\* STP_IN_changed_port_speed, after set_speed
changeSpeed(b, p, speed) ==
  Update([b EXCEPT !.port[p] = [reselected(@) EXCEPT !.operSpeed = speed]])

\* STP_IN_stpm_set_cfg for the bridge priority, which is part of the identifier: the
\* machines are not run.
setPriority(b, id) ==
  [b EXCEPT !.id = id, !.port = Evaluated([p \in Ports |-> reselected(b.port[p])])]

\* STP_IN_set_port_cfg for the migration check and for the edge port
migrationCheck(b, p) == Update([b EXCEPT !.port[p] = [reselected(@) EXCEPT !.mcheck = TRUE]])
adminEdge(b, p, edge) ==
  Update([b EXCEPT !.port[p] = [reselected(@) EXCEPT !.adminEdge = edge, !.operEdge = edge]])

\* STP_IN_rx_bpdu and STP_info_rx_bpdu
rxBpdu(b, p, m) ==
  Update([b EXCEPT !.port[p] =
            [@ EXCEPT !.operEdge = FALSE, !.rcvdBpdu = TRUE,
                      !.msg = IF m.type = "tcn" THEN m ELSE [m EXCEPT !.prio = Append(@, p)]]])

(* Mutant of down: a timer that has run out runs on.                       *)
downAlways(t) == t - 1
down(t) == IF t > 0 THEN t - 1 ELSE 0

(* Mutant of aged: the loop ends at the first timer that has run out; what  *)
(* follows rbWhile, which seldom runs, is not reached.                      *)
agedUntilOut(q) ==
  IF q.fdWhile = 0 THEN q
  ELSE IF q.helloWhen = 0 THEN [q EXCEPT !.fdWhile = down(@)]
  ELSE [q EXCEPT !.fdWhile = down(@), !.helloWhen = down(@), !.mdelayWhile = down(@)]
\* edgeDelayWhile is not among the timers.
aged(q) ==
  [q EXCEPT !.fdWhile = down(@), !.helloWhen = down(@), !.mdelayWhile = down(@),
            !.rbWhile = down(@), !.rcvdInfoWhile = down(@), !.rrWhile = down(@),
            !.tcWhile = down(@), !.txCount = down(@)]

\* STP_stpm_one_second
oneSecond(b) == Update([b EXCEPT !.port = Evaluated([p \in Ports |-> aged(b.port[p])])])
=============================================================================
