---------------------------- MODULE MCSlottedMux ----------------------------
(* Instances of the multiplexers with one queue for TLC.                    *)
EXTENDS SlottedMux, TLC

CONSTANTS i1, i2, i3

MCSymmetry == Permutations({i1, i2, i3})
=============================================================================
