---------------------------- MODULE MCBridgeTalk ----------------------------
(***************************************************************************)
(* One target.  A behaviour has three of a command, an edit, a fault and a *)
(* loud moment; or two edits and a fault; or three edits.                  *)
(***************************************************************************)
EXTENDS BridgeTalk

CONSTANT t1

Amounts(c, e, f, l) == [commands |-> c, edits |-> e, faults |-> f, loud |-> l]
TalkOrEdits == {Amounts(1, 1, 0, 1), Amounts(1, 0, 1, 1), Amounts(0, 1, 1, 1),
                Amounts(0, 2, 1, 0), Amounts(0, 3, 0, 0)}
=============================================================================
