---------------------------- MODULE MCRstpNetwork ----------------------------
(* Networks of two bridges with two ports each.                            *)
EXTENDS RstpNetwork

\* Two links between the bridges.
Parallel == [s \in {1, 2} \X {1, 2} |-> s[2]]
\* One link; the other ports are alone on their LANs.
Single == [s \in {1, 2} \X {1, 2} |-> IF s = <<2, 2>> THEN 3 ELSE s[2]]
\* Both ports of bridge 1 on the LAN that bridge 2 is on.
Shared == [s \in {1, 2} \X {1, 2} |-> IF s = <<2, 2>> THEN 2 ELSE 1]

Once(F) == [f \in Kinds \cup {"loss"} |-> IF f \in F THEN 1 ELSE 0]
Network(cabling, F) == [lan |-> cabling, faults |-> Once(F)]

MCNetworks ==
  {Network(Parallel, {"loss"}), Network(Parallel, {"linkDown"}), Network(Shared, {}),
   Network(Single, {"linkDown", "linkUp"}), Network(Single, {"disable", "enable"})}
  \cup {Network(Single, {kind}) : kind \in {"priority", "speed", "mcheck", "edge"}}
MCNotified == {<<1, 1>>}
=============================================================================
