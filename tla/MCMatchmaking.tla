--------------------------- MODULE MCMatchmaking ---------------------------
(***************************************************************************)
(* Instances of Matchmaking for TLC.  Request slots are interchangeable;   *)
(* row ids are not, JoinInsert picks them in a fixed order.                *)
(***************************************************************************)
EXTENDS Matchmaking, TLC

Symmetry == Permutations(Requests)
=============================================================================
