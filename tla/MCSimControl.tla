---------------------------- MODULE MCSimControl ----------------------------
(* Instances of the simulation control for TLC.                             *)
EXTENDS SimControl
=============================================================================
