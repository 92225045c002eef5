-------------------------- MODULE MCBridgeControl --------------------------
(***************************************************************************)
(* Three events and a fault while time stands still; or two faults and the *)
(* passing of time, without events.                                        *)
(***************************************************************************)
EXTENDS BridgeControl

CONSTANTS s1, s2

EventsOrTime == {[events |-> 3, faults |-> 1, timed |-> FALSE],
                 [events |-> 0, faults |-> 2, timed |-> TRUE]}
=============================================================================
