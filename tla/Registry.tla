------------------------------ MODULE Registry ------------------------------
(***************************************************************************)
(* What the server keeps of those who may talk, each on its own: the       *)
(* database, with the pages that follow it, and the registration of a      *)
(* page.                                                                   *)
(***************************************************************************)
EXTENDS Common

CONSTANTS
  Users, Confs, Feeds, Productions, GuestProfile, Bundles,  \* of Directory
  AccountProds, Other, Connections                          \* of WebSession

VARIABLES db, issued, multiple, backup, peers, imported   \* of Directory

D == INSTANCE Directory WITH Guest <- GuestProfile, Budgets <- Bounds.directory
S == INSTANCE WebSession WITH Prods <- AccountProds, Attempts <- Bounds.session
=============================================================================
