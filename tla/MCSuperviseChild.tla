-------------------------- MODULE MCSuperviseChild ---------------------------
(* SuperviseChild with two databases and a client of each. *)
EXTENDS SuperviseChild, TLC

CONSTANTS c1, c2, d1, d2

MCUses == c1 :> d1 @@ c2 :> d2

=============================================================================
