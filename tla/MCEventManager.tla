--------------------------- MODULE MCEventManager ---------------------------
(* Model values and bounds of the event manager's instances.               *)
EXTENDS EventManager, TLC

CONSTANTS e1, e2, x1, x2

MCEvent     == {e1, e2}
MCEachEvent2 == {x1, x2}
MCDelay     == 0 .. 3
=============================================================================
