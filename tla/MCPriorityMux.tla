---------------------------- MODULE MCPriorityMux ----------------------------
(* Instances of the priority multiplexers for TLC.                          *)
EXTENDS PriorityMux

CONSTANTS i1, i2

(* The inputs are interchangeable.                                          *)
MCSymmetry == Permutations({i1, i2})

(* In synchronous mode muxFrmPrio differs from muxPrio in the first mapping *)
(* of the codes and in the lengths in bytes only; the proofs cover it.      *)
AllModes == {<<"muxPrio", TRUE>>, <<"muxPrio", FALSE>>, <<"muxFrmPrio", FALSE>>}
FrmAsync == {<<"muxFrmPrio", FALSE>>}
=============================================================================
