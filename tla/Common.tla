------------------------------- MODULE Common -------------------------------
(***************************************************************************)
(* What the parts that are modelled each on its own have in common.        *)
(***************************************************************************)
CONSTANTS
  None,
  Bounds   \* the bounds of each part

VARIABLES
  world,   \* what a part is about
  left     \* what may still happen
=============================================================================
