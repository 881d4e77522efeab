----------------------------- MODULE MCStatistics -----------------------------
(* A table of three matches: one of four players, the others of three, with *)
(* participants of both kinds in every sort of seat and one user matched    *)
(* with himself.  A score that is left out counts as 0, so one value per    *)
(* match already allows ties, losses and wins.                              *)
EXTENDS Statistics, TLC

CONSTANTS u1, u2, b1, b2, m1, m2, m3

MCScores == (m1 :> {-1, 1}) @@ (m2 :> {-1}) @@ (m3 :> {1})
MCOwner == (b1 :> u2) @@ (b2 :> u2)
MCLineup == (m1 :> <<b1, u2, b2, u1>>) @@ (m2 :> <<u1, b2, b1>>) @@ (m3 :> <<u2, u2, u1>>)
=============================================================================
