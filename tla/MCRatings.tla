------------------------------ MODULE MCRatings ------------------------------
(* One user, one bot and a match that both play; or two users and a bot.     *)
(* Elo stands for the real formula: it differs from the sum of the deltas    *)
(* and depends on the pool, as a user alone is not rated.                    *)
EXTENDS Ratings, TLC

CONSTANTS u1, u2, b1, m1

MCLineup == m1 :> <<b1, u1>>
MCDelta == m1 :> ((u1 :> 1) @@ (b1 :> -3))
MCElo(S, pool, p) == IF S # {} /\ p = u1 THEN 3 ELSE 2

MCThreeLineup == m1 :> <<u1, b1, u2>>
MCThreeDelta == m1 :> ((u1 :> 1) @@ (b1 :> 1) @@ (u2 :> -1))
MCThreeElo(S, pool, p) ==
    IF S # {} /\ pool = {u1, u2} THEN (IF p = u1 THEN 3 ELSE 0) ELSE 2

\* Without the update-statistics job, which writes no rank.
QuietStats == UNCHANGED stats
ConvergeSpec == Init /\ [][Next /\ QuietStats]_vars /\ Fairness
=============================================================================
