----------------------------- MODULE RstpNetwork -----------------------------
(***************************************************************************)
(* Bridges (RstpBridge) joined by LANs.  The scheduler runs one handler at *)
(* a time and a handler runs the state machines to the end, so an action   *)
(* is a whole call of the library; the BPDUs it sends travel in order to   *)
(* every other port of the LAN and may be lost (a port plugged out, a full *)
(* input queue).  The steps of different bridges interleave freely.        *)
(*                                                                         *)
(* Bounds: faults[f] is how often a BPDU may still be lost (f = "loss") or *)
(* the script may still give the notice f.  A second passes only when no   *)
(* BPDU is under way, and the seconds of the bridges take turns.           *)
(***************************************************************************)
EXTENDS RstpBridge

CONSTANTS Bridges,              \* bridge identifiers, a set of numbers
          Networks,             \* records [lan, faults]: a cabling and what befalls it
          Notified,             \* the ports the script gives notices about
          Speed, OtherSpeed

Kinds == {"linkDown", "linkUp", "disable", "enable", "speed", "mcheck", "edge", "priority"}
Stations == Bridges \X Ports

ASSUME NetworkAssumption ==
  /\ Bridges \subseteq Nat \ {0} /\ IsFiniteSet(Bridges) /\ Cardinality(Bridges) > 1
  /\ Notified \subseteq Stations
  /\ \A n \in Networks : DOMAIN n.lan = Stations /\ n.faults \in [Kinds \cup {"loss"} -> Nat]

VARIABLES br,       \* the bridges: a record of RstpBridge, Off or Hung
          net,      \* the BPDUs under way to each port
          lan,      \* the LAN each port is on
          turn,     \* the bridge whose second ends next
          faults    \* what may still befall the network
vars == <<br, net, lan, turn, faults>>

Off == [off |-> TRUE]
Running(i) == br[i] \notin {Off, Hung}
Quiet == \A s \in Stations : net[s] = <<>>

\* rstp.lua sets the duplex attribute of a port; two ports on a LAN are a link.
Duplex(s) == Cardinality({t \in Stations : lan[t] = lan[s]}) <= 2

Init ==
  /\ br = [i \in Bridges |-> Off]
  /\ net = [s \in Stations |-> <<>>]
  /\ \E n \in Networks : lan = n.lan /\ faults = n.faults
  /\ turn \in Bridges

\* cb_tx_bpdu: what a port of bridge i sent goes to the other ports of its LAN.
Carried(i, out, q) ==
  LET reaches(t, o) == <<i, o[1]>> # t /\ lan[<<i, o[1]>>] = lan[t]
      arrived(t) ==
        LET upto[n \in 0 .. Len(out)] ==
              IF n = 0 THEN q[t]
              ELSE IF reaches(t, out[n]) THEN Append(upto[n - 1], out[n][2]) ELSE upto[n - 1]
        IN upto[Len(out)]
  IN [t \in Stations |-> arrived(t)]

\* Bridge i has become b: put its BPDUs on the LANs, from the network q.
Becomes(i, b, q) ==
  IF b = Hung
    THEN br' = [br EXCEPT ![i] = Hung] /\ net' = q
    ELSE br' = [br EXCEPT ![i] = [b EXCEPT !.out = <<>>]] /\ net' = Carried(i, b.out, q)

Start(i) ==
  /\ br[i] = Off
  /\ Becomes(i, bridgeStart(i, [p \in Ports |-> Duplex(<<i, p>>)], Speed), net)
  /\ UNCHANGED <<lan, turn, faults>>

\* A bridge that has not been started has no instance for the BPDU.
Deliver(i, p) ==
  LET s == <<i, p>>
      q == [net EXCEPT ![s] = Tail(@)]
  IN /\ net[s] # <<>> /\ br[i] # Hung
     /\ IF br[i] = Off THEN net' = q /\ UNCHANGED br
                       ELSE Becomes(i, rxBpdu(br[i], p, Head(net[s])), q)
     /\ UNCHANGED <<lan, turn, faults>>

Lose(s) ==
  /\ net[s] # <<>> /\ faults["loss"] > 0
  /\ net' = [net EXCEPT ![s] = Tail(@)]
  /\ faults' = [faults EXCEPT !["loss"] = @ - 1]
  /\ UNCHANGED <<br, lan, turn>>

After(i) == IF \E j \in Bridges : j > i THEN Smallest({j \in Bridges : j > i})
                                        ELSE Smallest(Bridges)
Second(i) ==
  /\ turn = i /\ Quiet /\ br[i] # Hung
  /\ turn' = After(i)
  /\ IF br[i] = Off THEN UNCHANGED <<br, net>> ELSE Becomes(i, oneSecond(br[i]), net)
  /\ UNCHANGED <<lan, faults>>

\* Another priority of bridge i: it is no longer better than any other bridge.
Demoted(i) == i + Largest(Bridges)

\* What the script calls, and what becomes of bridge b; a notice that changes nothing is no step.
Noticed(i, b, p, kind) ==
  CASE kind = "linkDown" -> linkPort(b, p, FALSE)
    [] kind = "linkUp" -> linkPort(b, p, TRUE)
    [] kind = "disable" -> enablePort(b, p, FALSE)
    [] kind = "enable" -> enablePort(b, p, TRUE)
    [] kind = "speed" -> changeSpeed(b, p, OtherSpeed)
    [] kind = "mcheck" -> migrationCheck(b, p)
    [] kind = "edge" -> adminEdge(b, p, TRUE)
    [] kind = "priority" -> setPriority(b, Demoted(i))

Notice(i, p, kind) ==
  /\ faults[kind] > 0 /\ Running(i) /\ <<i, p>> \in Notified
  /\ kind \in {"linkDown", "disable"} => br[i].port[p].enabled
  /\ kind \in {"linkUp", "enable"} => ~br[i].port[p].enabled
  /\ Becomes(i, Noticed(i, br[i], p, kind), net)
  /\ faults' = [faults EXCEPT ![kind] = @ - 1]
  /\ UNCHANGED <<lan, turn>>

Next ==
  \/ \E i \in Bridges : Start(i)
  \/ \E i \in Bridges, p \in Ports : Deliver(i, p)
  \/ \E s \in Stations : Lose(s)
  \/ \E i \in Bridges : Second(i)
  \/ \E i \in Bridges, p \in Ports, kind \in Kinds : Notice(i, p, kind)

\* The script starts every bridge, and the scheduler never stops: some BPDU arrives or some
\* second passes.  This is WF_vars(Next), for a step is always possible.
Fairness == <>(\A i \in Bridges : br[i] # Off) /\ []<><<TRUE>>_vars

Spec == Init /\ [][Next]_vars /\ Fairness

-----------------------------------------------------------------------------
Timers == {"edgeDelayWhile", "fdWhile", "helloWhen", "mdelayWhile", "rbWhile",
           "rcvdInfoWhile", "rrWhile", "tcWhile", "txCount"}
Known == Bridges \cup {Demoted(i) : i \in Bridges}

\* The bridges know only identifiers that exist, and no timer leaves its range.
TypeOK ==
  /\ DOMAIN br = Bridges /\ DOMAIN net = Stations
  /\ \A i \in Bridges : Running(i) =>
       /\ br[i].id \in {i, Demoted(i)} /\ br[i].out = <<>> /\ br[i].rootPrio[1] \in Known
       /\ \A p \in Ports : \A t \in Timers : br[i].port[p][t] \in 0 .. MaxAge + ForwardDelay

\* No call of the library makes the machines of a bridge hop for ever: the loop of
\* STP_stpm_update has no bound of its own, and the simulator has one thread.
NoHang == \A i \in Bridges : br[i] # Hung

\* The bridge has chosen the best root it knows of: the port it was heard from is the Root
\* port, and another port leaves the LAN to a neighbour only if that one offers a better path.
Elected(b) ==
  LET offers == {own(b)} \cup {path(b, p) : p \in heard(b)}
  IN /\ b.rootPrio \in offers /\ \A v \in offers : NoWorse(b.rootPrio, v)
     /\ \A p \in Ports : LET q == b.port[p] IN q.enabled =>
          CASE p \notin heard(b) -> q.role = "Designated"
            [] p \in heard(b) /\ p = b.rootPrio[5] -> q.role = "Root"
            [] OTHER -> /\ q.role \in {"Alternate", "Backup"}
                        /\ Better(q.portPrio, designPrio(b, p))

\* After every call the roles are those of the election, unless a notice waits for the machines
\* to run; and a port that forwards frames is a Root or a Designated port: one that lost its
\* role has been told to stop.  (A disabled port may keep an old role, see the README.)
Roles == \A i \in Bridges : Running(i) =>
  /\ (\A p \in Ports : ~br[i].port[p].reselect) => Elected(br[i])
  /\ \A p \in Ports : br[i].port[p].forwarding => br[i].port[p].role \in {"Root", "Designated"}

\* What a port has heard and still acts upon has not expired: it is dropped with the second
\* in which its timer runs out, whatever the other machines are doing.
Fresh == \A i \in Bridges : Running(i) => \A p \in Ports :
  LET q == br[i].port[p] IN q.infoIs = "Received" /\ ~q.reselect => q.rcvdInfoWhile > 0

\* Port s takes a message of another role that agrees, on a point-to-point link; a message
\* that it disputes, the sender being a learning Designated port, has the same effect.
Heard(s) == net[s] # <<>> /\ net'[s] = Tail(net[s]) /\ Head(net[s]).type = "rstp"
Agreement(s) == /\ Heard(s) /\ Duplex(s) /\ "agree" \in Head(net[s]).flags
                /\ Head(net[s]).role \in {"Root", "Alternate"}
Dispute(s) == Heard(s) /\ Head(net[s]).role = "Designated" /\ "learn" \in Head(net[s]).flags

\* The handshake: a Designated port that is no edge port forwards either after the delay,
\* which a second of its bridge ends (or enablePort did), or because the LAN has agreed (or
\* disputes); and it takes the LAN for agreed on no other ground, or because it forwards.
\* (A port that had another role may have been the Root port for a moment in the same call.)
Handshake == [][\A s \in Stations : LET i == s[1] IN Running(i) /\ br'[i] # Hung =>
  LET q == br[i].port[s[2]]
      r == br'[i].port[s[2]]
      told == Agreement(s) \/ Dispute(s)
  IN /\ {q.role, r.role} = {"Designated"} /\ r.forwarding /\ ~q.forwarding /\ ~r.operEdge =>
          \/ q.learning /\ (q.fdWhile = 0 \/ (q.fdWhile = 1 /\ turn = i /\ turn' # i))
          \/ q.agreed \/ told
     /\ r.agreed /\ ~q.agreed => told \/ (r.forwarding /\ ~q.forwarding)]_vars

\* The ports that carry frames, the ports that could, and the LANs that frames of bridge i
\* can reach through the ports S.
Carrying == {s \in Stations : Running(s[1]) /\ br[s[1]].port[s[2]].forwarding}
Enabled == {s \in Stations : Running(s[1]) /\ br[s[1]].port[s[2]].enabled}
Reached(S, i) ==
  LET Lans == {lan[s] : s \in Stations}
      within(C) == \A s \in S :
        s[1] = i \/ (\E t \in S : t[1] = s[1] /\ lan[t] \in C) => lan[s] \in C
  IN {l \in Lans : \A C \in SUBSET Lans : within(C) => l \in C}

\* A graph with an edge <<bridge, LAN>> for every carrying port has a cycle iff some set of
\* its ports has every bridge and every LAN it touches at least twice.
Loop(S) ==
  /\ S # {}
  /\ \A s \in S : /\ \E t \in S : t # s /\ t[1] = s[1]
                  /\ \E t \in S : t # s /\ lan[t] = lan[s]

\* No frame can go round in a circle.
NoLoop == \A S \in SUBSET Carrying : ~Loop(S)

\* A loop does not last: the BPDUs that break it are on their way already.  Neither a lost BPDU
\* nor a link that fails nor a late start leaves one that a timer would have to end.  (It is not
\* an invariant that there is none: recordDispute takes the BPDU of a learning Designated
\* port for an agreement, and for a moment both ends of two links may forward.)
LoopsEnd == Quiet => NoLoop

\* The bridges agree on the best of those they can reach, and the carrying ports are a tree
\* that spans whatever the enabled ports connect.
OneRoot == \A i \in Bridges :
  /\ Running(i)
  /\ br[i].rootPrio[1] = Smallest({br[i].id} \cup
       {br[s[1]].id : s \in {t \in Enabled : lan[t] \in Reached(Enabled, i)}})
Tree == NoLoop /\ \A i \in Bridges : Reached(Carrying, i) = Reached(Enabled, i)

\* After the last fault the bridges end with one spanning tree and keep it: they neither
\* stay on a stale root, nor leave a LAN cut off, nor a loop open, nor flap.
Converges == <>[](Tree /\ OneRoot)

\* The notices of a topology change die out: no port goes on announcing one.
TcQuiet == <>[](\A i \in Bridges, p \in Ports : Running(i) /\ br[i].port[p].tcWhile = 0)
=============================================================================
