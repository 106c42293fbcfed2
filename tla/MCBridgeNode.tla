---------------------------- MODULE MCBridgeNode ----------------------------
(* Instances of the data plane of a bridge for TLC.                         *)
EXTENDS BridgeNode, TLC

CONSTANTS p1, p2

MCSymmetry == Permutations({p1, p2})
BothWays == {{"rx", "tx"}}
=============================================================================
