------------------------------ MODULE MCWfqMux ------------------------------
(* Three connections of different shares on two inputs.                     *)
EXTENDS WfqMux, TLC

CONSTANTS i1, i2, v1, v2, v3

MCdelta == v1 :> 1 @@ v2 :> 2 @@ v3 :> 3
MCqsize == v1 :> 2 @@ v2 :> 2 @@ v3 :> 1
MCSymmetry == Permutations({i1, i2})
=============================================================================
